--------------------------------- MODULE MCRuns ---------------------------------
(***************************************************************************)
(* What a run is made of and what it leaves behind, for TLC: the rules a   *)
(* plan is checked by, the sweep procedures, the two operations and the    *)
(* queue; the records of the experiment and the form that decides where a  *)
(* run is stored, the servicing log, the helium recorder and the trend     *)
(* history.  They share no state: a behaviour is one of a single part,     *)
(* chosen in the initial state, and the others stay in their first state.  *)
(***************************************************************************)
EXTENDS PlanRules, SweepProcedure, HeliumFill, SampleAccess, RunQueue,
        ExperimentRecords, ExperimentForm, ServicingLog, CryogenicsRecorder, TrendHistory, TLC

VARIABLE part

before == <<plVars, prVars, hfVars, saVars, qpVars>>
behind == <<exVars, fmVars, slVars, crVars, thVars>>
partVars == <<part, before, behind>>

MCNumbers == -1 .. 2
MCEnds == -3 .. 3

\* Two measurement VIs, and a switch that offers routes 2 and 1.
MCMeasurementVIs == <<"dcm", "del">>
MCReadingParams ==
  [dcm |-> [amps |-> [enumerated |-> FALSE, choices |-> <<>>, min |-> 1, max |-> 2]],
   sw |-> [route |-> [enumerated |-> TRUE, choices |-> <<2, 1>>, min |-> 0, max |-> 0]],
   del |-> <<>>]

\* Up to two entries: 0 stands for a blank one, 3 is out of bounds; of two, each is blank,
\* out of bounds, greater, less or the same.
MCTexts == {<<>>} \cup {<<e>> : e \in 0 .. 3} \cup ({1} \X (0 .. 3)) \cup ({0, 2, 3} \X {1})

\* Warming is an automatic ramp, the other two steps are confirmed by hand.
MCStepOrder == <<"warm_vti", "valve", "sample">>

\* A raw file for two polls of which two older ones are kept, an hourly one for three.
MCDays == [raw |-> 2, hourly |-> 3]
MCBackups == [raw |-> 2, hourly |-> 3]

RunsInit ==
  /\ part \in {"rules", "procedure", "fill", "access", "queue",
               "experiment", "form", "log", "recorder", "trend"}
  /\ RulesInit /\ ProcedureInit /\ FillInit /\ AccessInit /\ QueueInit
  /\ ExperimentInit
  /\ part # "experiment" => exPointer = NoExperiment
  /\ FormInit
  /\ part # "form" => fmUser = "u1"
  /\ ServicingInit
  /\ part # "log" => slCryo = "none" /\ slOps = "none"
  /\ RecorderInit /\ TrendInit

RunsNext ==
  \/ part = "rules" /\ RulesNext /\ UNCHANGED <<part, prVars, hfVars, saVars, qpVars, behind>>
  \/ part = "procedure" /\ ProcedureNext /\ UNCHANGED <<part, plVars, hfVars, saVars, qpVars, behind>>
  \/ part = "fill" /\ FillNext /\ UNCHANGED <<part, plVars, prVars, saVars, qpVars, behind>>
  \/ part = "access" /\ AccessNext /\ UNCHANGED <<part, plVars, prVars, hfVars, qpVars, behind>>
  \/ part = "queue" /\ QueueNext /\ UNCHANGED <<part, plVars, prVars, hfVars, saVars, behind>>
  \/ part = "experiment" /\ ExperimentNext /\ UNCHANGED <<part, before, fmVars, slVars, crVars, thVars>>
  \/ part = "form" /\ FormNext /\ UNCHANGED <<part, before, exVars, slVars, crVars, thVars>>
  \/ part = "log" /\ ServicingNext /\ UNCHANGED <<part, before, exVars, fmVars, crVars, thVars>>
  \/ part = "recorder" /\ RecorderNext /\ UNCHANGED <<part, before, exVars, fmVars, slVars, thVars>>
  \/ part = "trend" /\ TrendNext /\ UNCHANGED <<part, before, exVars, fmVars, slVars, crVars>>

RunsSpec == RunsInit /\ [][RunsNext]_partVars
=============================================================================
