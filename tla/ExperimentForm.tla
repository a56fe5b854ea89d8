----------------------------- MODULE ExperimentForm -----------------------------
(***************************************************************************)
(* The Data Dir of the experiment panel, which decides where a run writes. *)
(* It follows the open experiment, is typed over by the operator and is    *)
(* saved and loaded with the form, per experiment or per user.  A          *)
(* directory is the folder of an experiment, or some other place.  Two     *)
(* slots serve experiment_changed, the panel's and then the window's; each *)
(* remembers the experiment it saw last, which is always the open one.     *)
(***************************************************************************)
EXTENDS FiniteSets

CONSTANTS
  Folders,           \* the experiments, each with its folder
  Users,
  Root, Elsewhere,   \* measurement_root() and a directory outside of it
  NoFolder, NoAutosave

ASSUME FormAssumption ==
  /\ {Root, Elsewhere} \cap {NoFolder, NoAutosave} = {} /\ NoFolder # NoAutosave
  /\ Folders \cap {Root, Elsewhere, NoFolder, NoAutosave} = {}
  /\ Folders \cap Users = {}

VARIABLES
  fmOpen,            \* the open experiment, or NoFolder
  fmUser,            \* _current_user_id
  fmText,            \* the text of the Data Dir field; NoFolder is an empty field
  fmBefore,          \* _pre_session_data_dir, or NoAutosave
  fmSaved,           \* data_dir in gui_state.json of an experiment, in the autosave of a user
  fmTyped,           \* somebody has typed the folder of an experiment that was not open
  fmRun              \* where the last run was started, and its experiment

fmVars == <<fmOpen, fmUser, fmText, fmBefore, fmSaved, fmTyped, fmRun>>

Places == Folders \cup {Root, Elsewhere}
Files == Folders \cup Users
NoRunYet == [dir |-> NoAutosave, in |-> NoFolder]

\* _default_data_dir_text() and get_data_dir()
DefaultDir(e) == IF e = NoFolder THEN Root ELSE e
DataDir == IF fmText = NoFolder THEN DefaultDir(fmOpen) ELSE fmText

\* apply_session(): a state without a directory shows the default.
Applied(saved, e) == IF saved \in {NoAutosave, NoFolder} THEN DefaultDir(e) ELSE saved

\* _save_session() writes to the open experiment, else to the user.
SaveTarget == IF fmOpen = NoFolder THEN fmUser ELSE fmOpen
SavedNow == [fmSaved EXCEPT ![SaveTarget] = DataDir]

\* (A slip of TextBefore.)
TextBeforeLatest == fmText

\* _force_data_dir_on_open(): the text before the first of several experiments is kept.
TextBefore == IF fmOpen = NoFolder THEN fmText ELSE fmBefore

\* start_experiment(): the field is forced to the new folder, which has no form yet.
OpenExperiment(e) ==
  /\ fmOpen = NoFolder /\ fmSaved[e] = NoAutosave
  /\ fmOpen' = e
  /\ fmText' = e
  /\ fmBefore' = TextBefore
  /\ UNCHANGED <<fmUser, fmSaved, fmTyped, fmRun>>

\* _restore_data_dir_on_close()
CloseOpen ==
  /\ fmOpen # NoFolder
  /\ fmOpen' = NoFolder
  /\ fmText' = IF fmBefore # NoAutosave THEN fmBefore ELSE fmText
  /\ fmBefore' = NoAutosave
  /\ UNCHANGED <<fmUser, fmSaved, fmTyped, fmRun>>

\* _switch_experiment(): the form is saved to the outgoing side, and the incoming form
\* is loaded by the signal and once more behind it, a default one if there is none.
SwitchTo(e) ==
  /\ e # fmOpen
  /\ fmOpen' = e
  /\ fmBefore' = TextBefore
  /\ fmSaved' = SavedNow
  /\ fmText' = Applied(fmSaved'[e], e)
  /\ UNCHANGED <<fmUser, fmTyped, fmRun>>

\* _switch_user(): the form of the user, also while an experiment is open.
SwitchUser(u) ==
  /\ u # fmUser
  /\ fmSaved' = SavedNow
  /\ fmUser' = u
  /\ fmText' = Applied(fmSaved'[u], fmOpen)
  /\ UNCHANGED <<fmOpen, fmBefore, fmTyped, fmRun>>

\* Typing is free; _on_browse_dir() offers fewer places.
TypeDir(dir) ==
  /\ fmText' = dir
  /\ fmTyped' = (fmTyped \/ (dir \in Folders /\ dir # fmOpen))
  /\ UNCHANGED <<fmOpen, fmUser, fmBefore, fmSaved, fmRun>>

\* _on_new_session(): a blank form, which is saved at once.
NewForm ==
  /\ fmText' = DefaultDir(fmOpen)
  /\ fmSaved' = [fmSaved EXCEPT ![SaveTarget] = DefaultDir(fmOpen)]
  /\ UNCHANGED <<fmOpen, fmUser, fmBefore, fmTyped, fmRun>>

\* Close and start again: the window saves, and the next one resumes the experiment
\* over an empty field.
Relaunch ==
  /\ fmSaved' = SavedNow
  /\ fmBefore' = IF fmOpen = NoFolder THEN NoAutosave ELSE NoFolder
  /\ fmText' = Applied(fmSaved'[SaveTarget], fmOpen)
  /\ fmRun' = NoRunYet
  /\ UNCHANGED <<fmOpen, fmUser, fmTyped>>

\* (A slip of Contained.)
ContainedSomewhere == fmOpen = NoFolder \/ DataDir # Elsewhere

\* is_data_dir_contained()
Contained == fmOpen = NoFolder \/ DataDir = fmOpen

\* get_data_dir_for_run() for Run Now; an entry asks for it when it is queued.
RunNowIn ==
  /\ Contained
  /\ fmRun' = [dir |-> DataDir, in |-> fmOpen]
  /\ UNCHANGED <<fmOpen, fmUser, fmText, fmBefore, fmSaved, fmTyped>>

FormInit ==
  /\ fmOpen = NoFolder /\ fmUser \in Users /\ fmText = Root /\ fmBefore = NoAutosave
  /\ fmSaved = [f \in Files |-> NoAutosave]
  /\ fmTyped = FALSE /\ fmRun = NoRunYet

FormNext ==
  \/ CloseOpen \/ NewForm \/ Relaunch \/ RunNowIn
  \/ \E e \in Folders : OpenExperiment(e) \/ SwitchTo(e)
  \/ \E u \in Users : SwitchUser(u)
  \/ \E dir \in Places : TypeDir(dir)

FormSpec == FormInit /\ [][FormNext]_fmVars

-----------------------------------------------------------------------------
\* A run that is started with Run Now writes inside the folder of the experiment it
\* belongs to.
RunsInside == fmRun.in # NoFolder => fmRun.dir = fmRun.in

\* Unless somebody typed such a folder, the field never shows the folder of another
\* experiment, whatever was opened, switched, closed, loaded or restarted.
FieldFollowsExperiment == ~fmTyped /\ fmText \in Folders => fmText = fmOpen

\* The directory that is shown and used is that of the open experiment.
FormFollows ==
  /\ RunsInside
  /\ FieldFollowsExperiment
=============================================================================
