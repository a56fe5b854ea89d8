--------------------------- MODULE ExperimentRecords ---------------------------
(***************************************************************************)
(* ExperimentManager over ExperimentStore: the record of every experiment  *)
(* of a session on disk, the pointer to the active one, the session's      *)
(* index, and the copy in memory that run manifests are written to.  Every *)
(* file is written to a temporary name and renamed.  An exception that     *)
(* leaves a slot ends a PyQt6 application, so a write that is not guarded  *)
(* either lands or is the end of this life of the application.             *)
(***************************************************************************)
EXTENDS Naturals

CONSTANTS
  Experiments,
  RunIds,
  Bounded,           \* the experiments that are started with an envelope
  Newer,             \* records on disk that a newer version of the application left open ...
  NewerRuns,         \* ... in the middle of these runs
  NoExperiment, NoRecord, Torn, NoRunId

VARIABLES
  exDisk,            \* experiment.json of every experiment
  exPointer,         \* active.json
  exIndex,           \* Session.experiments in session.json: the status of every entry
  exUp,              \* the application runs
  exCurrent,         \* _experiment: its id ...
  exMemory,          \* ... and the record
  exEnvelope,        \* the experiment whose envelope the Orchestrator enforces
  exSaveOk,          \* _store_save_ok, the last store_health_changed
  exRun,             \* the run in progress
  exStrayed          \* the runs that an experiment showed as running on disk when it was left

exVars == <<exDisk, exPointer, exIndex, exUp, exCurrent, exMemory, exEnvelope, exSaveOk, exRun, exStrayed>>

\* A run is listed as nothing, running, or ended one way or the other.
RunStatus == {"none", "running", "ended", "failed"}
Records == [status : {"open", "closed"}, runs : [RunIds -> RunStatus], newer : BOOLEAN]

ASSUME RecordAssumption ==
  /\ Newer \subseteq Experiments /\ NoExperiment \notin Experiments
  /\ NoRunId \notin RunIds
  /\ NoRecord # Torn
  /\ NoRecord \notin Records /\ Torn \notin Records

NewRecord == [status |-> "open", runs |-> [r \in RunIds |-> "none"], newer |-> FALSE]
NewerRecord == [NewRecord EXCEPT !.newer = TRUE, !.runs = [r \in RunIds |-> IF r \in NewerRuns THEN "running" ELSE "none"]]

\* load(): a file that is missing or does not parse is no record.
Readable(e) == exDisk[e] \notin {NoRecord, Torn}
OpenOnDisk(e) == Readable(e) /\ exDisk[e].status = "open"

\* envelope_to_dict() and back.
EnvelopeOf(e) == IF e \in Bounded THEN e ELSE NoExperiment

\* (A slip of CutShort.)
CutShortInPlace(old, new) == Torn

\* _write_json_atomic() cut short: what is torn is the temporary file.
CutShort(old, new) == old

\* (A slip of SaveCurrent.)
SaveCurrentQuietly(rec, lands) ==
  /\ exDisk' = IF lands /\ ~rec.newer THEN [exDisk EXCEPT ![exCurrent] = [rec EXCEPT !.newer = FALSE]] ELSE exDisk
  /\ exSaveOk' = TRUE

\* (A slip of SaveCurrent.)
SaveCurrentAnySchema(rec, lands) ==
  /\ exDisk' = IF lands THEN [exDisk EXCEPT ![exCurrent] = [rec EXCEPT !.newer = FALSE]] ELSE exDisk
  /\ exSaveOk' = lands

\* _save_current(): a save that fails is tolerated and told, a newer record is left alone.
SaveCurrent(rec, lands) ==
  IF rec.newer THEN UNCHANGED <<exDisk, exSaveOk>>
  ELSE /\ exDisk' = IF lands THEN [exDisk EXCEPT ![exCurrent] = rec] ELSE exDisk
       /\ exSaveOk' = lands

\* (A slip of Reconcile.)
ReconcileAhead(lands) ==
  exIndex' = IF ~lands THEN exIndex
             ELSE [e \in Experiments |-> IF exDisk'[e] \in {NoRecord, Torn} THEN "absent"
                                         ELSE IF e = exCurrent THEN "closed" ELSE exDisk'[e].status]

\* _reconcile_session_index(): rebuilt from the folder; neither a record that does not
\* read nor a save that fails is in the way.
Reconcile(lands) ==
  exIndex' = IF ~lands THEN exIndex
             ELSE [e \in Experiments |-> IF exDisk'[e] \in {NoRecord, Torn} THEN "absent" ELSE exDisk'[e].status]

-----------------------------------------------------------------------------
(* The application dies: by itself, or in the k-th unguarded write.          *)

Dies ==
  /\ exUp' = FALSE
  /\ exCurrent' = NoExperiment /\ exMemory' = NoRecord
  /\ exEnvelope' = NoExperiment /\ exRun' = NoRunId
  /\ UNCHANGED <<exIndex, exSaveOk, exStrayed>>

Crash == exUp /\ Dies /\ UNCHANGED <<exDisk, exPointer>>

StartDies(e, landed) ==
  /\ exUp /\ exCurrent = NoExperiment /\ exDisk[e] = NoRecord
  /\ exDisk' = [exDisk EXCEPT ![e] = IF landed = 0 THEN CutShort(@, NewRecord) ELSE NewRecord]
  /\ Dies /\ UNCHANGED exPointer

CloseDies(saved) ==
  /\ exUp /\ exCurrent # NoExperiment
  /\ LET rec == [exMemory EXCEPT !.status = "closed"]
     IN exDisk' = IF saved /\ ~rec.newer THEN [exDisk EXCEPT ![exCurrent] = rec] ELSE exDisk
  /\ Dies /\ UNCHANGED exPointer

\* While the record of a run is saved.
SaveDies ==
  /\ exUp /\ exCurrent # NoExperiment /\ ~exMemory.newer
  /\ exDisk' = [exDisk EXCEPT ![exCurrent] = CutShort(@, exMemory)]
  /\ Dies /\ UNCHANGED exPointer

-----------------------------------------------------------------------------
(* The life of an experiment.                                               *)

LeftRunning ==
  IF exCurrent = NoExperiment THEN {} ELSE {r \in RunIds : exDisk'[exCurrent].runs[r] = "running"}

\* (A slip of InstallEnvelope.)
InstallEnvelopeOnce(e) == exEnvelope' = IF exEnvelope = NoExperiment THEN EnvelopeOf(e) ELSE exEnvelope

InstallEnvelope(e) == exEnvelope' = EnvelopeOf(e)

\* start_experiment(): refused while one is open; its folder is a fresh one.
StartExperiment(e, indexed) ==
  /\ exUp /\ exCurrent = NoExperiment /\ exDisk[e] = NoRecord
  /\ exDisk' = [exDisk EXCEPT ![e] = NewRecord]
  /\ exPointer' = e
  /\ exCurrent' = e /\ exMemory' = NewRecord
  /\ InstallEnvelope(e)
  /\ Reconcile(indexed)
  /\ UNCHANGED <<exUp, exSaveOk, exRun, exStrayed>>

\* (A slip of CloseExperiment.)
CloseExperimentPointed(saved, indexed) ==
  /\ exUp /\ exCurrent # NoExperiment
  /\ exMemory' = NoRecord /\ exCurrent' = NoExperiment /\ exEnvelope' = NoExperiment
  /\ SaveCurrent([exMemory EXCEPT !.status = "closed"], saved)
  /\ Reconcile(indexed)
  /\ exStrayed' = exStrayed \cup LeftRunning
  /\ UNCHANGED <<exPointer, exUp, exRun>>

\* close_experiment(): the pointer is cleared whether the record was saved or not.
CloseExperiment(saved, indexed) ==
  /\ exUp /\ exCurrent # NoExperiment
  /\ SaveCurrent([exMemory EXCEPT !.status = "closed"], saved)
  /\ exPointer' = NoExperiment
  /\ exCurrent' = NoExperiment /\ exMemory' = NoRecord /\ exEnvelope' = NoExperiment
  /\ Reconcile(indexed)
  /\ exStrayed' = exStrayed \cup LeftRunning
  /\ UNCHANGED <<exUp, exRun>>

\* switch_experiment(): to one that is open on disk and of this version; what memory
\* held of the other beyond its last save is gone.
SwitchExperiment(e, indexed) ==
  /\ exUp /\ OpenOnDisk(e) /\ ~exDisk[e].newer
  /\ exCurrent' = e /\ exMemory' = exDisk[e]
  /\ exPointer' = e
  /\ InstallEnvelope(e)
  /\ UNCHANGED <<exDisk, exUp, exSaveOk, exRun>>
  /\ Reconcile(indexed)
  /\ exStrayed' = exStrayed \cup LeftRunning

\* The pointer's write in switch_experiment() is not guarded.
SwitchDies(e) ==
  /\ exUp /\ OpenOnDisk(e) /\ ~exDisk[e].newer
  /\ Dies /\ UNCHANGED <<exDisk, exPointer>>

\* set_findings(), set_attended(), set_queue(): the record as it is, saved.
SaveRecord(saved) ==
  /\ exUp /\ exCurrent # NoExperiment
  /\ SaveCurrent(exMemory, saved)
  /\ UNCHANGED <<exPointer, exIndex, exUp, exCurrent, exMemory, exEnvelope, exRun, exStrayed>>

-----------------------------------------------------------------------------
(* Run manifests.                                                           *)

WriteManifest(r, status, saved) ==
  /\ exMemory' = [exMemory EXCEPT !.runs[r] = status]
  /\ SaveCurrent(exMemory', saved)

\* A run id is new: it is made when the run starts.
RunStarted(r, saved) ==
  /\ exUp /\ exRun = NoRunId
  /\ \A e \in Experiments : Readable(e) => exDisk[e].runs[r] = "none"
  /\ exCurrent # NoExperiment => exMemory.runs[r] = "none"
  /\ r \notin exStrayed
  /\ exRun' = r
  /\ IF exCurrent = NoExperiment THEN UNCHANGED <<exMemory, exDisk, exSaveOk>>
     ELSE WriteManifest(r, "running", saved)
  /\ UNCHANGED <<exPointer, exIndex, exUp, exCurrent, exEnvelope, exStrayed>>

\* find_run(): the run is looked for in the experiment that is open now.
RunFinished(status, saved) ==
  /\ exUp /\ exRun # NoRunId
  /\ exRun' = NoRunId
  /\ IF exCurrent = NoExperiment \/ exMemory.runs[exRun] = "none" THEN UNCHANGED <<exMemory, exDisk, exSaveOk>>
     ELSE WriteManifest(exRun, status, saved)
  /\ UNCHANGED <<exPointer, exIndex, exUp, exCurrent, exEnvelope, exStrayed>>

-----------------------------------------------------------------------------
(* Restart: _resume_active_experiment().                                    *)

\* (A slip of SweepStale.)
SweepStaleNone(rec) == rec

SweepStale(rec) == [rec EXCEPT !.runs = [r \in RunIds |-> IF rec.runs[r] = "running" THEN "failed" ELSE rec.runs[r]]]

Resume(e, saved) ==
  /\ exPointer = e /\ OpenOnDisk(e)
  /\ exCurrent' = e
  /\ exMemory' = SweepStale(exDisk[e])
  /\ InstallEnvelope(e)
  /\ exPointer' = exPointer
  /\ IF exMemory' # exDisk[e] /\ ~exDisk[e].newer
     THEN /\ exDisk' = IF saved THEN [exDisk EXCEPT ![e] = exMemory'] ELSE exDisk
          /\ exSaveOk' = saved
     ELSE UNCHANGED exDisk /\ exSaveOk' = TRUE

\* No pointer, or one to an experiment that is missing or closed: it is cleared.
ResumeNothing(cleared) ==
  /\ exPointer # NoExperiment => ~OpenOnDisk(exPointer)
  /\ exPointer' = IF cleared THEN NoExperiment ELSE exPointer
  /\ exSaveOk' = TRUE
  /\ UNCHANGED <<exDisk, exCurrent, exMemory, exEnvelope>>

Restart ==
  /\ ~exUp
  /\ exUp' = TRUE
  /\ \E ok \in BOOLEAN : ResumeNothing(ok) \/ \E e \in Experiments : Resume(e, ok)
  /\ UNCHANGED <<exIndex, exRun, exStrayed>>

ExperimentInit ==
  /\ exDisk = [e \in Experiments |-> IF e \in Newer THEN NewerRecord ELSE NoRecord]
  /\ exPointer \in Newer \cup {NoExperiment}
  /\ exIndex = [e \in Experiments |-> IF e \in Newer THEN "open" ELSE "absent"]
  /\ exUp = FALSE /\ exCurrent = NoExperiment /\ exMemory = NoRecord
  /\ exEnvelope = NoExperiment /\ exSaveOk = TRUE /\ exRun = NoRunId /\ exStrayed = {}

ExperimentNext ==
  \/ Crash \/ Restart \/ SaveDies
  \/ \E e \in Experiments, ok \in BOOLEAN : StartExperiment(e, ok) \/ SwitchExperiment(e, ok)
  \/ \E e \in Experiments, landed \in {0, 1} : StartDies(e, landed)
  \/ \E e \in Experiments : SwitchDies(e)
  \/ \E saved, indexed \in BOOLEAN : CloseExperiment(saved, indexed)
  \/ \E saved \in BOOLEAN : CloseDies(saved) \/ SaveRecord(saved)
  \/ \E r \in RunIds, saved \in BOOLEAN : RunStarted(r, saved)
  \/ \E status \in {"ended", "failed"}, saved \in BOOLEAN : RunFinished(status, saved)

ExperimentSpec == ExperimentInit /\ [][ExperimentNext]_exVars

-----------------------------------------------------------------------------
\* Wherever the application dies, every record that exists can be read again.
RecordsReadable == \A e \in Experiments : exDisk[e] # Torn

\* The envelope that is enforced is the one of the open experiment, behind every start,
\* switch, close and restart.
EnvelopeInForce == exEnvelope = (IF exCurrent = NoExperiment THEN NoExperiment ELSE EnvelopeOf(exCurrent))

\* A restart comes back to the experiment that was open; a pointer to another one is to
\* a record that cannot be resumed.
PointerIsCurrent == exUp /\ exPointer # exCurrent => exCurrent = NoExperiment /\ ~OpenOnDisk(exPointer)

\* A disk copy that is behind the record in memory is never silent.
StalenessIsTold ==
  exUp /\ exCurrent # NoExperiment /\ exSaveOk /\ ~exMemory.newer => exDisk[exCurrent] = exMemory

\* A run that an open experiment shows as running is in progress, unless the experiment
\* was left with it: a restart sweeps the record it resumes and no other.
RunningIsInProgress ==
  exUp /\ exCurrent # NoExperiment =>
    \A r \in RunIds : exMemory.runs[r] = "running" => r = exRun \/ r \in exStrayed

\* The session's index never shows an experiment as closed that is open on disk.
IndexNotAhead == \A e \in Experiments : exIndex[e] = "closed" => ~OpenOnDisk(e)

\* Nothing this version does changes a record of a newer one.
NewerUntouched ==
  [][\A e \in Experiments : Readable(e) /\ exDisk[e].newer => exDisk'[e] = exDisk[e]]_exVars

\* Record, pointer, index and memory tell one story at every point at which they are read,
\* and a newer version's is left alone.
RecordsAreConsistent ==
  /\ [](RecordsReadable /\ PointerIsCurrent /\ StalenessIsTold)
  /\ [](RunningIsInProgress /\ IndexNotAhead)
  /\ NewerUntouched
=============================================================================
