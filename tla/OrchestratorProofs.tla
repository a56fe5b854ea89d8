------------------------- MODULE OrchestratorProofs -------------------------
(***************************************************************************)
(* Proofs about Orchestrator for every station, every set of runs and every *)
(* bound.  The invariants are proved in layers: Control (where the thread   *)
(* stands, which run it serves), then the types, then the safety            *)
(* properties, each from an inductive form that says what holds at every    *)
(* point of an event.                                                       *)
(***************************************************************************)
EXTENDS Orchestrator, TLAPS

\* A pending event start has a run and stands in a state a run may start from; a
\* pending queue has none; otherwise the run, its manifest and the state agree.
Control ==
  /\ run \in Runs \cup {NoRun}
  /\ manifest = IF pc = "start" THEN NoRun ELSE run
  /\ pc = "start" => /\ run # NoRun
                     /\ st \in {"IDLE", "RAMPING", "EMERGENCY"}
                     /\ st = "EMERGENCY" => run \in Operations /\ fromEmergency
  /\ pc = "queue" => run = NoRun /\ st = "IDLE"
  /\ pc # "start" /\ run # NoRun => Phase \in RunStates
  /\ pc # "start" /\ run = NoRun => st \in {"IDLE", "RAMPING", "ERROR", "EMERGENCY"}
  /\ opQueue \in Seq(Operations)
  /\ procQueue \in Seq(Procedures)

\* The variables Control reads.
controlVars == <<st, pc, run, manifest, prePause, fromEmergency, opQueue, procQueue>>

LEMMA InitControl == Init => Control
  BY DEF Init, Control, Runs, Phase

\* A step that leaves the variables of Control alone preserves it.
LEMMA ControlUnchanged == Control /\ UNCHANGED controlVars => Control'
  BY DEF Control, controlVars, Phase

\* Ending a run from any point of an event, into any state without a run.
LEMMA EndPreservesControl ==
  ASSUME Control, run' = NoRun, manifest' = NoRun, UNCHANGED <<opQueue, procQueue>>,
         st' \in {"IDLE", "ERROR", "EMERGENCY"}, pc' \in {"loop", "queue"},
         pc' = "queue" => st' = "IDLE"
  PROVE  Control'
  BY DEF Control, Phase

\* The run goes on, from a state of a run to a state of a run.
LEMMA GoOnPreservesControl ==
  ASSUME Control, UNCHANGED <<run, manifest, opQueue, procQueue>>, pc # "start",
         pc' \in {"loop", "verdict", "drain", "machine"},
         run # NoRun => Phase' \in RunStates,
         run = NoRun => st' \in {"IDLE", "RAMPING", "ERROR", "EMERGENCY"}
  PROVE  Control'
  BY DEF Control

\* Beginning a run.
LEMMA BeginPreservesControl ==
  ASSUME Control, NEW r \in Runs, NEW started \in BOOLEAN, BeginRun(r, started),
         pc \in {"loop", "queue"},
         st \in {"IDLE", "EMERGENCY"} \/ ManualRamp,
         st = "EMERGENCY" => started /\ r \in Operations,
         opQueue' \in Seq(Operations), procQueue' \in Seq(Procedures)
  PROVE  Control'
<1>1. run = NoRun
  BY DEF Control, ManualRamp, Phase, RunStates, GateStates
<1>2. /\ run' = r /\ pc' = "start" /\ st' = st /\ fromEmergency' = started
      /\ manifest' = manifest
  BY DEF BeginRun, recordVars
<1>3. manifest' = NoRun
  BY <1>1, <1>2 DEF Control
<1>4. st \in {"IDLE", "RAMPING", "EMERGENCY"}
  BY DEF ManualRamp
<1>5. r # NoRun
  BY RunsAssumption
<1> QED
  BY <1>2, <1>3, <1>4, <1>5 DEF Control

\* The panel: what it starts, ends, pauses, or leaves alone.
LEMMA PanelPreservesControl == Control /\ Panel => Control'
<1> SUFFICES ASSUME Control, Panel PROVE Control'
  OBVIOUS
<1> USE DEF runVars, queueVars, pollVars, hwVars, overrideVars, recordVars
<1>1. CASE StartMonitoring \/ StopMonitoring \/ FinishOperation \/ SkipOperationStep
  BY <1>1, ControlUnchanged
     DEF StartMonitoring, StopMonitoring, FinishOperation, SkipOperationStep, controlVars
<1>2. ASSUME NEW p \in Procedures, RunProcedure(p) PROVE Control'
  <2>1. CASE PersistentMagnets
    BY <1>2, <2>1, GoOnPreservesControl DEF RunProcedure, Blocked, Control, Phase
  <2>2. CASE ~PersistentMagnets /\ BeginRun(p, FALSE) /\ UNCHANGED queueVars
    <3>1. pc = "loop" /\ (st = "IDLE" \/ ManualRamp)
      BY <1>2, <2>2 DEF RunProcedure, BeginRun, Blocked
    <3>2. opQueue' \in Seq(Operations) /\ procQueue' \in Seq(Procedures)
      BY <2>2 DEF Control
    <3>3. p \in Runs /\ st # "EMERGENCY"
      BY <3>1 DEF Runs, ManualRamp
    <3> QED
      BY <2>2, <3>1, <3>2, <3>3, BeginPreservesControl
  <2>3. CASE /\ ~PersistentMagnets /\ Blocked
             /\ procQueue' = Append(procQueue, p) /\ UNCHANGED <<opQueue, guiQueue>>
    <3>1. procQueue' \in Seq(Procedures)
      BY <2>3 DEF Control
    <3> QED
      BY <1>2, <2>3, <3>1 DEF RunProcedure, Blocked, Control, Phase
  <2> QED
    BY <1>2, <2>1, <2>2, <2>3 DEF RunProcedure
<1>3. ASSUME NEW p \in Procedures, QueueProcedure(p) PROVE Control'
  <2>1. procQueue' \in Seq(Procedures)
    BY <1>3 DEF QueueProcedure, Control
  <2> QED
    BY <1>3, <2>1 DEF QueueProcedure, Blocked, Control, Phase
<1>4. ASSUME NEW o \in Operations, RunOperation(o) PROVE Control'
  <2>1. o \in Runs
    BY DEF Runs
  <2>2. opQueue' \in Seq(Operations) /\ procQueue' \in Seq(Procedures)
    BY <1>4 DEF RunOperation, Control
  <2>3. CASE st = "EMERGENCY" /\ BeginRun(o, TRUE)
    BY <1>4, <2>1, <2>2, <2>3, BeginPreservesControl DEF RunOperation
  <2>4. CASE (st = "IDLE" \/ ManualRamp) /\ BeginRun(o, FALSE)
    BY <1>4, <2>1, <2>2, <2>4, BeginPreservesControl DEF RunOperation, ManualRamp
  <2> QED
    BY <1>4, <2>3, <2>4 DEF RunOperation
<1>5. ASSUME NEW o \in Operations, QueueOperation(o) PROVE Control'
  <2>1. opQueue' \in Seq(Operations)
    BY <1>5 DEF QueueOperation, Control
  <2> QED
    BY <1>5, <2>1 DEF QueueOperation, Blocked, Control, Phase
<1>6. CASE PauseProcedure
  <2>1. CASE UNCHANGED <<st, prePause>>
    BY <1>6, <2>1, ControlUnchanged DEF PauseProcedure, controlVars
  <2>2. CASE EnterPaused
    <3>1. pc = "loop" /\ run # NoRun /\ st # "PAUSED" /\ prePause' = st /\ st' = "PAUSED"
      BY <1>6, <2>2 DEF PauseProcedure, EnterPaused, GateStates
    <3> QED
      BY <1>6, <3>1, GoOnPreservesControl DEF PauseProcedure, Control, Phase
  <2> QED
    BY <1>6, <2>1, <2>2 DEF PauseProcedure
<1>7. CASE ResumeProcedure
  <2>1. CASE st # "PAUSED"
    BY <1>7, <2>1, ControlUnchanged DEF ResumeProcedure, controlVars
  <2>2. CASE st = "PAUSED"
    <3>1. run # NoRun /\ prePause \in RunStates /\ pc = "loop"
      BY <1>7, <2>2 DEF ResumeProcedure, Control, Phase
    <3>2. Phase' \in RunStates
      BY <1>7, <2>2, <3>1 DEF ResumeProcedure, Phase
    <3> QED
      BY <1>7, <3>1, <3>2, GoOnPreservesControl DEF ResumeProcedure
  <2> QED
    BY <2>1, <2>2
<1>8. CASE ResumeRaises
  BY <1>8, ControlUnchanged DEF ResumeRaises, controlVars
<1>9. CASE AbortProcedure
  BY <1>9, EndPreservesControl
     DEF AbortProcedure, Abort, AbortActive, ClearRun, EmitRunFinished
<1>10. CASE RecoverFromError
  <2>1. run = NoRun /\ pc = "loop" /\ st = "ERROR"
    BY <1>10 DEF RecoverFromError, Control, Phase, RunStates, GateStates
  <2> QED
    BY <1>10, <2>1, GoOnPreservesControl DEF RecoverFromError
<1>11. CASE Acknowledge
  <2>1. CASE st' = st
    BY <1>11, <2>1, ControlUnchanged DEF Acknowledge, controlVars
  <2>2. CASE st = "EMERGENCY" /\ st' = "IDLE"
    <3>1. run = NoRun /\ pc = "loop"
      BY <1>11, <2>2 DEF Acknowledge, Control, Phase, RunStates, GateStates
    <3> QED
      BY <1>11, <2>2, <3>1, GoOnPreservesControl DEF Acknowledge
  <2> QED
    BY <1>11, <2>1, <2>2 DEF Acknowledge
<1>12. ASSUME NEW v \in VIs, NEW act \in Manual, SubmitViAction(v, act) PROVE Control'
  BY <1>12, ControlUnchanged DEF SubmitViAction, controlVars
<1>13. ASSUME NEW act \in Manual, SubmitGlobalAction(act) PROVE Control'
  <2>1. CASE Abort
    BY <1>13, <2>1, EndPreservesControl
       DEF SubmitGlobalAction, Abort, AbortActive, ClearRun, EmitRunFinished
  <2>2. CASE ~Abort
    BY <1>13, <2>2, ControlUnchanged DEF SubmitGlobalAction, controlVars
  <2> QED
    BY <2>1, <2>2
<1>14. ASSUME NEW v \in VIs, StopRamp(v) \/ RetryFault(v) PROVE Control'
  BY <1>14, ControlUnchanged DEF StopRamp, RetryFault, controlVars
<1> QED
  BY <1>1, <1>2, <1>3, <1>4, <1>5, <1>6, <1>7, <1>8, <1>9, <1>10, <1>11, <1>12, <1>13, <1>14
     DEF Panel

\* The queue and the start of a run.
LEMMA StartPreservesControl ==
  Control /\ (RunQueue \/ StartRun \/ StartRunRaises \/ StartRunRefused) => Control'
<1> SUFFICES ASSUME Control, RunQueue \/ StartRun \/ StartRunRaises \/ StartRunRefused
             PROVE  Control'
  OBVIOUS
<1> USE DEF runVars, queueVars, pollVars, hwVars, overrideVars, recordVars
<1>1. CASE RunQueue
  <2>1. st = "IDLE" /\ pc \in {"loop", "queue"} /\ run = NoRun
    BY <1>1 DEF RunQueue, Control, Phase, RunStates, GateStates
  <2>2. /\ opQueue # <<>> => Head(opQueue) \in Operations /\ Tail(opQueue) \in Seq(Operations)
        /\ procQueue # <<>> => Head(procQueue) \in Procedures /\ Tail(procQueue) \in Seq(Procedures)
    BY DEF Control
  <2>3. opQueue' \in Seq(Operations) /\ procQueue' \in Seq(Procedures)
    BY <1>1, <2>2 DEF RunQueue, Control
  <2>4. CASE opQueue # <<>> /\ BeginRun(Head(opQueue), FALSE)
    BY <2>1, <2>2, <2>3, <2>4, BeginPreservesControl DEF Runs
  <2>5. CASE procQueue # <<>> /\ BeginRun(Head(procQueue), FALSE)
    BY <2>1, <2>2, <2>3, <2>5, BeginPreservesControl DEF Runs
  <2>6. CASE Blocked
    BY <2>1, <2>3, <2>6 DEF Blocked, Control
  <2> QED
    BY <1>1, <2>4, <2>5, <2>6 DEF RunQueue
<1>2. CASE StartRun
  BY <1>2 DEF StartRun, Control, Phase, RunStates
<1>3. CASE StartRunRaises \/ StartRunRefused
  BY <1>3, EndPreservesControl
     DEF StartRunRaises, StartRunRefused, FailToError, AbortActive, ClearRun, EmitRunFinished
<1> QED
  BY <1>1, <1>2, <1>3

\* The tick up to its last part.
LEMMA TickPreservesControl ==
  Control /\ (TickStart \/ EnterEmergency \/ EnforceHolds \/ FailRunForFault
                \/ DrainOne \/ Drained \/ Expire) => Control'
<1> SUFFICES ASSUME Control, TickStart \/ EnterEmergency \/ EnforceHolds \/ FailRunForFault
                               \/ DrainOne \/ Drained \/ Expire
             PROVE  Control'
  OBVIOUS
<1> USE DEF runVars, queueVars, pollVars, hwVars, overrideVars, recordVars
<1>1. CASE Poll \/ TickUnmonitored \/ EnforceHolds \/ Drained
  BY <1>1 DEF Poll, TickUnmonitored, EnforceHolds, Drained, Control, Phase
<1>2. CASE PollRaises \/ EnterEmergency \/ FailRunForFault
  BY <1>2, EndPreservesControl
     DEF PollRaises, EnterEmergency, FailRunForFault, FailToError, AbortActive, ClearRun,
         EmitRunFinished
<1>3. CASE DrainOne \/ Expire
  BY <1>3, ControlUnchanged DEF DrainOne, Expire, controlVars
<1> QED
  BY <1>1, <1>2, <1>3 DEF TickStart

\* One step of the state machine.
LEMMA MachinePreservesControl == Control /\ Machine => Control'
<1> SUFFICES ASSUME Control, Machine PROVE Control'
  OBVIOUS
<1> USE DEF runVars, queueVars, pollVars, hwVars, overrideVars, recordVars
<1>1. CASE MachineRaises \/ StepRefused
  BY <1>1, EndPreservesControl
     DEF MachineRaises, StepRefused, MachineStep, FailToError, AbortActive, ClearRun,
         EmitRunFinished
<1>2. CASE Idle
  <2>1. st = "IDLE" /\ pc = "machine" /\ st' \in {"IDLE", "RAMPING"} /\ pc' = "loop"
    BY <1>2 DEF Idle, MachineStep, StayInRun
  <2>2. run = NoRun
    BY <2>1 DEF Control, Phase, RunStates, GateStates
  <2> QED
    BY <1>2, <2>1, <2>2, GoOnPreservesControl DEF Idle, MachineStep, StayInRun
<1>3. CASE Initiating \/ Measure \/ RampInProgress \/ WaitAtSetpoint
  BY <1>3, GoOnPreservesControl
     DEF Initiating, Measure, RampInProgress, WaitAtSetpoint, RampingBranch, MachineStep,
         StayInRun, Control, Phase, RunStates
<1>4. CASE ManualRampDone
  BY <1>4, GoOnPreservesControl DEF ManualRampDone, RampingBranch, MachineStep, StayInRun
<1>5. CASE EnterGate \/ WaitOver
  BY <1>5, GoOnPreservesControl
     DEF EnterGate, WaitOver, RampingBranch, MachineStep, StayInRun, Phase, RunStates, GateStates
<1>6. CASE GateCut \/ GatePending \/ GatesPass
  <2>1. /\ st \in GateStates /\ pc = "machine" /\ pc' = "loop"
        /\ st' \in {st, "STANDBY", "MEASURING"}
        /\ UNCHANGED <<run, manifest, opQueue, procQueue>>
    BY <1>6 DEF GateCut, GatePending, GatesPass, GateStep, MachineStep, StayInRun
  <2>2. run # NoRun
    BY <2>1 DEF Control, GateStates
  <2>3. Phase' \in RunStates
    BY <2>1 DEF Phase, RunStates, GateStates
  <2> QED
    BY <2>1, <2>2, <2>3, GoOnPreservesControl
<1>7. CASE PauseAfterPoint \/ NextPoint \/ LastPoint
  <2>1. /\ st = "SWEEPING" /\ pc = "machine" /\ pc' = "loop"
        /\ Phase' \in RunStates
        /\ UNCHANGED <<run, manifest, opQueue, procQueue>>
    BY <1>7 DEF PauseAfterPoint, NextPoint, LastPoint, Sweep, EnterPaused, MachineStep,
                Phase, RunStates, GateStates
  <2>2. run # NoRun
    BY <2>1 DEF Control
  <2> QED
    BY <2>1, <2>2, GoOnPreservesControl
<1>8. CASE StandbyRamping \/ DispatchStandby
  <2>1. /\ st = "STANDBY" /\ pc = "machine" /\ pc' = "loop"
        /\ UNCHANGED <<st, run, manifest, opQueue, procQueue>>
    BY <1>8 DEF StandbyRamping, DispatchStandby, MachineStep, StayInRun
  <2> QED
    BY <2>1, GoOnPreservesControl DEF Control, Phase, RunStates
<1>9. CASE FinishProcedure \/ FinishOperationNow
  BY <1>9, EndPreservesControl
     DEF FinishProcedure, FinishOperationNow, MachineStep, FinishRun, ClearRun,
         EmitRunFinished, OperationEndState
<1>10. CASE Rest
  BY <1>10 DEF Rest, MachineStep, Control, Phase
<1> QED
  BY <1>1, <1>2, <1>3, <1>4, <1>5, <1>6, <1>7, <1>8, <1>9, <1>10 DEF Machine

LEMMA NextControl == Control /\ [Next]_vars => Control'
<1>1. Control /\ UNCHANGED vars => Control'
  BY ControlUnchanged DEF vars, controlVars, runVars, queueVars, recordVars
<1> QED
  BY <1>1, PanelPreservesControl, StartPreservesControl, TickPreservesControl,
     MachinePreservesControl DEF Next, Continue

THEOREM ControlCorrect == Spec => []Control
<1> QED
  BY InitControl, NextControl, PTL DEF Spec

\* Between two events a run, its manifest and the state of the machine agree.
THEOREM RunMatchesStateHolds == Spec => []RunMatchesState
<1>1. Control => RunMatchesState
  BY DEF Control, RunMatchesState
<1> QED
  BY <1>1, ControlCorrect, PTL

-----------------------------------------------------------------------------
(* Types.                                                                   *)

\* Where a run exists, the tables of its plans name VIs.
LEMMA RunTables ==
  ASSUME NEW r \in Runs
  PROVE  /\ Claims[r] \in (SUBSET VIs) \cup {Everything}
         /\ InitTargets[r] \in SUBSET VIs /\ InitStandby[r] \in SUBSET VIs
         /\ StepTargets[r] \in SUBSET VIs /\ StandbyTargets[r] \in SUBSET VIs
  BY RunsAssumption

LEMMA TypeUnchanged == TypeOK /\ UNCHANGED vars => TypeOK'
  BY DEF TypeOK, vars, runVars, queueVars, pollVars, hwVars, overrideVars, recordVars

\* The conjuncts of TypeOK that ending a run settles, whatever ends it.
EndType ==
  /\ run' = NoRun /\ claims' = Everything /\ activeVis' = {}
  /\ standbyDispatched' = FALSE /\ pauseRequested' = FALSE /\ fromEmergency' = FALSE
  /\ finishRequested' = FALSE /\ skipRamp' = FALSE /\ prePause' = prePause
  /\ waitStarted' = FALSE /\ firstMeasurement' = TRUE /\ gates' = FALSE /\ lastTargets' = {}
  /\ manifest' = NoRun /\ outcome' \in {"none", "done", "aborted", "failed"}

LEMMA AbortActiveType ==
  ASSUME TypeOK, NEW status \in {"done", "aborted", "failed"}, AbortActive(status)
  PROVE  EndType
  BY DEF AbortActive, ClearRun, EmitRunFinished, EndType, TypeOK

\* The instruments keep their types under every ramp command.
HwType == /\ ramping \in SUBSET VIs /\ settled \in SUBSET VIs
          /\ parked \in SUBSET VIs /\ persistent \in SUBSET VIs

LEMMA StartRampsType ==
  ASSUME HwType, NEW vs \in SUBSET VIs, StartRamps(vs), UNCHANGED persistent
  PROVE  HwType'
  BY DEF HwType, StartRamps

LEMMA StopRampsType ==
  ASSUME HwType, NEW vs, NEW still \in SUBSET ramping, StopRamps(vs, still), UNCHANGED persistent
  PROVE  HwType'
  BY DEF HwType, StopRamps

LEMMA StandbyType ==
  ASSUME HwType, NEW vs \in SUBSET VIs, NEW still \in SUBSET ramping,
         NEW was \in SUBSET parked, NEW fail, Standby(vs, still, was, fail), UNCHANGED persistent
  PROVE  HwType'
  BY DEF HwType, Standby

LEMMA AdvanceType ==
  ASSUME HwType, NEW arrived \in SUBSET ramping, Advance(arrived)
  PROVE  HwType'
  BY DEF HwType, Advance

LEMMA EnforceType ==
  ASSUME HwType, limited \in SUBSET VIs, NEW stopped, EnforceSafetyHolds(stopped),
         UNCHANGED persistent
  PROVE  HwType' /\ limited' \in SUBSET VIs
  BY DEF HwType, EnforceSafetyHolds, Enforceable, HeldVIs

\* The conjuncts of TypeOK, in groups that a step changes together.
RunType ==
  /\ run \in Runs \cup {NoRun}
  /\ claims \in (SUBSET VIs) \cup {Everything}
  /\ activeVis \in SUBSET VIs
  /\ standbyDispatched \in BOOLEAN
  /\ waitStarted \in BOOLEAN
  /\ firstMeasurement \in BOOLEAN
  /\ gates \in BOOLEAN
  /\ pauseRequested \in BOOLEAN
  /\ prePause \in States
  /\ fromEmergency \in BOOLEAN
  /\ lastTargets \in SUBSET VIs
  /\ finishRequested \in BOOLEAN
  /\ skipRamp \in BOOLEAN
  /\ manifest \in Runs \cup {NoRun}
  /\ outcome \in {"none", "done", "aborted", "failed"}
QueueType == opQueue \in Seq(Operations) /\ procQueue \in Seq(Procedures) /\ guiQueue \in Seq(Request)
PollType == /\ comm \in [VIs -> CommKinds] /\ tripped \in SUBSET Flags
            /\ cond \in SUBSET Flags /\ envBad \in BOOLEAN
OverrideType == /\ emOverride \in BOOLEAN /\ holdOverride \in SUBSET (VIs \cup Flags)
                /\ limited \in SUBSET VIs
ThreadType == /\ st \in States /\ monitoring \in BOOLEAN
              /\ pc \in {"loop", "verdict", "drain", "machine", "queue", "start"}

LEMMA TypeGroups ==
  /\ TypeOK <=> RunType /\ QueueType /\ PollType /\ HwType /\ OverrideType /\ ThreadType
  /\ TypeOK' <=> RunType' /\ QueueType' /\ PollType' /\ HwType' /\ OverrideType' /\ ThreadType'
  BY DEF TypeOK, RunType, QueueType, PollType, HwType, OverrideType, ThreadType

LEMMA InitType == Init => TypeOK
<1> SUFFICES ASSUME Init PROVE TypeOK
  OBVIOUS
<1>1. RunType
  BY DEF Init, RunType, States
<1>2. QueueType
  BY DEF Init, QueueType
<1>3. PollType
  BY DEF Init, PollType, CommKinds
<1>4. HwType /\ OverrideType
  BY DEF Init, HwType, OverrideType
<1>5. ThreadType
  BY DEF Init, ThreadType, States
<1> QED
  BY <1>1, <1>2, <1>3, <1>4, <1>5, TypeGroups

LEMMA EndRunType == TypeOK /\ EndType => RunType'
  BY DEF TypeOK, EndType, RunType

LEMMA BeginType ==
  ASSUME TypeOK, NEW r \in Runs, NEW started \in BOOLEAN, BeginRun(r, started), QueueType'
  PROVE  TypeOK'
<1> USE DEF runVars, pollVars, overrideVars, recordVars
<1>0. RunType /\ PollType /\ HwType /\ OverrideType /\ ThreadType
  BY TypeGroups
<1>1. HwType'
  <2>1. CASE ManualRamp
    BY <1>0, <2>1, StopRampsType DEF BeginRun, HwType
  <2>2. CASE ~ManualRamp
    BY <1>0, <2>2 DEF BeginRun, HwType
  <2> QED
    BY <2>1, <2>2
<1>2. RunType' /\ PollType' /\ OverrideType' /\ ThreadType'
  BY <1>0 DEF BeginRun, RunType, PollType, OverrideType, ThreadType
<1> QED
  BY <1>1, <1>2, TypeGroups

LEMMA PanelType == TypeOK /\ Control /\ Panel => TypeOK'
<1> SUFFICES ASSUME TypeOK, Control, Panel PROVE TypeOK'
  OBVIOUS
<1> USE DEF runVars, queueVars, pollVars, hwVars, overrideVars, recordVars
<1>0. RunType /\ QueueType /\ PollType /\ HwType /\ OverrideType /\ ThreadType
  BY TypeGroups
<1>1. CASE StartMonitoring \/ StopMonitoring \/ FinishOperation \/ SkipOperationStep
           \/ RecoverFromError
  <2>1. QueueType' /\ PollType' /\ HwType' /\ OverrideType' /\ ThreadType'
    BY <1>0, <1>1 DEF StartMonitoring, StopMonitoring, FinishOperation, SkipOperationStep,
         RecoverFromError, QueueType, PollType, HwType, OverrideType, ThreadType, States
  <2>2. ASSUME StartMonitoring \/ StopMonitoring \/ RecoverFromError PROVE RunType'
    BY <1>0, <2>2 DEF StartMonitoring, StopMonitoring, RecoverFromError, RunType
  <2>3. ASSUME FinishOperation PROVE RunType'
    BY <1>0, <2>3 DEF FinishOperation, RunType
  <2>4. ASSUME SkipOperationStep PROVE RunType'
    BY <1>0, <2>4 DEF SkipOperationStep, RunType
  <2> QED
    BY <1>1, <2>1, <2>2, <2>3, <2>4, TypeGroups
<1>2. ASSUME NEW r \in Runs, NEW started \in BOOLEAN, BeginRun(r, started), QueueType'
      PROVE  TypeOK'
  BY <1>2, BeginType
<1>3. ASSUME Blocked, QueueType' PROVE TypeOK'
  BY <1>3 DEF Blocked, TypeOK, QueueType
<1>4. ASSUME NEW p \in Procedures, RunProcedure(p) \/ QueueProcedure(p) PROVE TypeOK'
  <2>1. Append(procQueue, p) \in Seq(Procedures)
    BY <1>0 DEF QueueType
  <2>2. QueueType'
    BY <1>0, <1>4, <2>1 DEF RunProcedure, QueueProcedure, QueueType
  <2> QED
    BY <1>2, <1>3, <1>4, <2>2 DEF RunProcedure, QueueProcedure, Runs
<1>5. ASSUME NEW o \in Operations, RunOperation(o) \/ QueueOperation(o) PROVE TypeOK'
  <2>1. Append(opQueue, o) \in Seq(Operations)
    BY <1>0 DEF QueueType
  <2>2. QueueType'
    BY <1>0, <1>5, <2>1 DEF RunOperation, QueueOperation, QueueType
  <2> QED
    BY <1>2, <1>3, <1>5, <2>2 DEF RunOperation, QueueOperation, Runs
<1>6. CASE PauseProcedure
  <2>1. HwType'
    BY <1>0, <1>6, StopRampsType DEF PauseProcedure, HwType
  <2>2. QueueType' /\ PollType' /\ OverrideType'
    BY <1>0, <1>6 DEF PauseProcedure, QueueType, PollType, OverrideType
  <2>3. ThreadType'
    BY <1>0, <1>6 DEF PauseProcedure, EnterPaused, ThreadType, RunType, States
  <2>4. \/ pauseRequested' = TRUE /\ prePause' = prePause
        \/ pauseRequested' = FALSE /\ prePause' = st
    BY <1>6 DEF PauseProcedure, EnterPaused
  <2>5. pauseRequested' \in BOOLEAN /\ prePause' \in States
    BY <1>0, <2>4 DEF RunType, ThreadType
  <2>6. UNCHANGED <<run, claims, activeVis, standbyDispatched, waitStarted, firstMeasurement,
                    gates, fromEmergency, lastTargets, finishRequested, skipRamp,
                    manifest, outcome>>
    BY <1>6 DEF PauseProcedure, recordVars
  <2>7. RunType'
    BY <1>0, <2>5, <2>6 DEF RunType
  <2> QED
    BY <2>1, <2>2, <2>3, <2>7, TypeGroups
<1>7. CASE ResumeProcedure
  <2>1. HwType'
    <3>1. CASE StartRamps(lastTargets) /\ UNCHANGED persistent
      BY <1>0, <3>1, StartRampsType DEF RunType
    <3>2. CASE UNCHANGED hwVars
      BY <1>0, <3>2 DEF HwType
    <3> QED
      BY <1>7, <3>1, <3>2 DEF ResumeProcedure
  <2>2. QueueType' /\ PollType' /\ OverrideType'
    BY <1>0, <1>7 DEF ResumeProcedure, QueueType, PollType, OverrideType
  <2>3. ThreadType'
    BY <1>0, <1>7 DEF ResumeProcedure, ThreadType, RunType, States
  <2>4. pauseRequested' \in BOOLEAN
    <3>1. CASE st = "PAUSED"
      BY <1>0, <1>7, <3>1 DEF ResumeProcedure, RunType
    <3>2. CASE st # "PAUSED"
      BY <1>7, <3>2 DEF ResumeProcedure
    <3> QED
      BY <3>1, <3>2
  <2>5. UNCHANGED <<run, claims, activeVis, standbyDispatched, waitStarted, firstMeasurement,
                    gates, prePause, fromEmergency, lastTargets, finishRequested, skipRamp,
                    manifest, outcome>>
    BY <1>7 DEF ResumeProcedure
  <2>6. RunType'
    BY <1>0, <2>4, <2>5 DEF RunType
  <2> QED
    BY <2>1, <2>2, <2>3, <2>6, TypeGroups
<1>8. CASE ResumeRaises
  <2>1. HwType'
    <3>1. PICK sent \in SUBSET lastTargets : StartRamps(sent)
      BY <1>8 DEF ResumeRaises
    <3> QED
      BY <1>0, <1>8, <3>1, StartRampsType DEF ResumeRaises, RunType
  <2>2. RunType' /\ ThreadType' /\ QueueType' /\ PollType' /\ OverrideType'
    BY <1>0, <1>8 DEF ResumeRaises, RunType, ThreadType, QueueType, PollType, OverrideType
  <2> QED
    BY <2>1, <2>2, TypeGroups
<1>9. ASSUME Abort, QueueType' PROVE TypeOK'
  <2>1. HwType'
    BY <1>0, <1>9, StopRampsType DEF Abort, HwType
  <2>2. RunType'
    BY <1>9, AbortActiveType, EndRunType DEF Abort
  <2>3. ThreadType' /\ PollType' /\ OverrideType'
    BY <1>0, <1>9 DEF Abort, ThreadType, PollType, OverrideType, States
  <2> QED
    BY <1>9, <2>1, <2>2, <2>3, TypeGroups
<1>10. CASE AbortProcedure
  BY <1>0, <1>9, <1>10 DEF AbortProcedure, QueueType
<1>11. CASE Acknowledge
  <2>1. \A v \in VIs : HoldKey(v) \in VIs \cup Flags
    BY DEF HoldKey, Flags
  <2>2. holdOverride' \in SUBSET (VIs \cup Flags)
    BY <1>0, <1>11, <2>1 DEF Acknowledge, OverrideType, HeldVIs
  <2>3. RunType' /\ ThreadType' /\ QueueType' /\ PollType' /\ HwType'
    BY <1>0, <1>11 DEF Acknowledge, RunType, ThreadType, QueueType, PollType, HwType, States
  <2>4. emOverride' \in BOOLEAN /\ limited' \in SUBSET VIs
    BY <1>0, <1>11 DEF Acknowledge, OverrideType
  <2> QED
    BY <2>2, <2>3, <2>4, TypeGroups DEF OverrideType
<1>12. ASSUME NEW v \in VIs, NEW act \in Manual, SubmitViAction(v, act) PROVE TypeOK'
  <2>1. [vi |-> v, act |-> act] \in Request
    BY StationAssumption DEF Request
  <2>2. guiQueue' \in Seq(Request)
    BY <1>0, <1>12, <2>1 DEF SubmitViAction, QueueType
  <2> QED
    BY <1>12, <2>2 DEF SubmitViAction, TypeOK
<1>13. ASSUME NEW act \in Manual, SubmitGlobalAction(act) PROVE TypeOK'
  <2> DEFINE fanned == [i \in DOMAIN VIOrder |-> [vi |-> VIOrder[i], act |-> act]]
  <2>1. fanned \in Seq(Request)
    <3>1. \A i \in DOMAIN VIOrder : [vi |-> VIOrder[i], act |-> act] \in Request
      BY StationAssumption DEF Request
    <3>2. DOMAIN VIOrder = 1 .. Len(VIOrder) /\ Len(VIOrder) \in Nat
      BY StationAssumption
    <3> QED
      BY <3>1, <3>2
  <2>2. guiQueue \o fanned \in Seq(Request)
    BY <1>0, <2>1 DEF QueueType
  <2>3. guiQueue' = guiQueue \o fanned
    BY <1>13 DEF SubmitGlobalAction
  <2>4. QueueType'
    BY <1>0, <1>13, <2>2, <2>3 DEF SubmitGlobalAction, QueueType
  <2>5. CASE Abort
    BY <1>9, <2>4, <2>5
  <2>6. CASE UNCHANGED <<st, pc, monitoring, runVars, pollVars, hwVars, overrideVars, recordVars>>
    BY <2>4, <2>6 DEF TypeOK, QueueType
  <2> QED
    BY <1>13, <2>5, <2>6 DEF SubmitGlobalAction
<1>14. ASSUME NEW v \in VIs, StopRamp(v) PROVE TypeOK'
  <2>1. HwType'
    BY <1>0, <1>14, StopRampsType DEF StopRamp, HwType
  <2> QED
    BY <1>14, <2>1 DEF StopRamp, TypeOK, HwType
<1>15. ASSUME NEW v \in VIs, RetryFault(v) PROVE TypeOK'
  <2>1. HwType'
    BY <1>0, <1>15 DEF RetryFault, HwType
  <2>2. PollType'
    BY <1>0, <1>15, StationAssumption
       DEF RetryFault, PollType, EnvelopeReadings, CommKinds
  <2>3. RunType' /\ ThreadType' /\ QueueType' /\ OverrideType'
    BY <1>0, <1>15 DEF RetryFault, RunType, ThreadType, QueueType, OverrideType
  <2> QED
    BY <2>1, <2>2, <2>3, TypeGroups
<1> QED
  BY <1>1, <1>4, <1>5, <1>6, <1>7, <1>8, <1>10, <1>11, <1>12, <1>13, <1>14, <1>15 DEF Panel

\* Whatever fails, wherever it fails: the run is over and the ramps of a scope stop.
LEMMA FailToErrorType ==
  ASSUME TypeOK, NEW scope, NEW still \in SUBSET ramping, FailToError(scope, still),
         UNCHANGED <<monitoring, queueVars, pollVars, overrideVars>>
  PROVE  TypeOK'
<1>1. HwType'
  BY StopRampsType, TypeGroups DEF FailToError
<1>2. RunType'
  BY AbortActiveType, EndRunType DEF FailToError
<1>3. QueueType' /\ PollType' /\ OverrideType' /\ ThreadType'
  BY TypeGroups DEF FailToError, QueueType, PollType, OverrideType, ThreadType, States,
                    queueVars, pollVars, overrideVars
<1> QED
  BY <1>1, <1>2, <1>3, TypeGroups

LEMMA StartType ==
  TypeOK /\ Control /\ (RunQueue \/ StartRun \/ StartRunRaises \/ StartRunRefused) => TypeOK'
<1> SUFFICES ASSUME TypeOK, Control, RunQueue \/ StartRun \/ StartRunRaises \/ StartRunRefused
             PROVE  TypeOK'
  OBVIOUS
<1> USE DEF runVars, queueVars, pollVars, hwVars, overrideVars, recordVars
<1>0. RunType /\ QueueType /\ PollType /\ HwType /\ OverrideType /\ ThreadType
  BY TypeGroups
<1>1. CASE RunQueue
  <2>1. /\ opQueue # <<>> => Head(opQueue) \in Operations /\ Tail(opQueue) \in Seq(Operations)
        /\ procQueue # <<>> => Head(procQueue) \in Procedures /\ Tail(procQueue) \in Seq(Procedures)
    BY DEF Control
  <2>2. QueueType'
    BY <1>0, <1>1, <2>1 DEF RunQueue, QueueType
  <2>3. CASE opQueue # <<>> /\ BeginRun(Head(opQueue), FALSE)
    BY <2>1, <2>2, <2>3, BeginType DEF Runs
  <2>4. CASE procQueue # <<>> /\ BeginRun(Head(procQueue), FALSE)
    BY <2>1, <2>2, <2>4, BeginType DEF Runs
  <2>5. CASE Blocked
    BY <2>2, <2>5 DEF Blocked, TypeOK, QueueType
  <2> QED
    BY <1>1, <2>3, <2>4, <2>5 DEF RunQueue
<1>2. CASE StartRun
  <2>1. run \in Runs
    BY <1>2 DEF StartRun, Control
  <2>2. /\ Claims[run] \in (SUBSET VIs) \cup {Everything}
        /\ InitTargets[run] \in SUBSET VIs /\ InitStandby[run] \in SUBSET VIs
    BY <2>1, RunTables
  <2>3. HwType'
    BY <1>0, <1>2, <2>2 DEF StartRun, HwType
  <2>4. RunType'
    BY <1>0, <1>2, <2>1, <2>2 DEF StartRun, RunType
  <2>5. QueueType' /\ PollType' /\ OverrideType' /\ ThreadType'
    BY <1>0, <1>2 DEF StartRun, QueueType, PollType, OverrideType, ThreadType, States
  <2> QED
    BY <2>3, <2>4, <2>5, TypeGroups
<1>3. CASE StartRunRaises
  BY <1>3, FailToErrorType DEF StartRunRaises
<1>4. CASE StartRunRefused
  <2>1. InitStandby[run] \in SUBSET VIs
    BY <1>4, RunTables DEF StartRunRefused, Control
  <2>2. HwType'
    BY <1>0, <1>4, <2>1 DEF StartRunRefused, HwType
  <2>3. RunType'
    BY <1>4, AbortActiveType, EndRunType DEF StartRunRefused
  <2>4. QueueType' /\ PollType' /\ OverrideType' /\ ThreadType'
    BY <1>0, <1>4 DEF StartRunRefused, QueueType, PollType, OverrideType, ThreadType, States
  <2> QED
    BY <2>2, <2>3, <2>4, TypeGroups
<1> QED
  BY <1>1, <1>2, <1>3, <1>4

LEMMA RegisteredType == \A flags \in SUBSET Flags : Registered(flags) \in SUBSET Flags
  BY DEF Registered, Flags

LEMMA ExecuteType ==
  ASSUME HwType, NEW v \in VIs, NEW act, Execute(v, act)
  PROVE  HwType'
<1>1. CASE StartRamps({v}) /\ UNCHANGED persistent
  BY <1>1, StartRampsType
<1>2. CASE (\E fail \in SUBSET ({v} \cap Unreliable) : Standby({v}, ramping, parked, fail))
             /\ UNCHANGED persistent
  BY <1>2, StandbyType
<1>3. CASE /\ persistent' = (persistent \ {v}) \cup ({v} \ persistent)
           /\ UNCHANGED <<ramping, settled, parked>>
  BY <1>3 DEF HwType
<1>4. CASE UNCHANGED hwVars
  BY <1>4 DEF HwType, hwVars
<1> QED
  BY <1>1, <1>2, <1>3, <1>4 DEF Execute

LEMMA TickType ==
  TypeOK /\ (TickStart \/ EnterEmergency \/ EnforceHolds \/ FailRunForFault
               \/ DrainOne \/ Drained \/ Expire) => TypeOK'
<1> SUFFICES ASSUME TypeOK, TickStart \/ EnterEmergency \/ EnforceHolds \/ FailRunForFault
                              \/ DrainOne \/ Drained \/ Expire
             PROVE  TypeOK'
  OBVIOUS
<1> USE DEF runVars, queueVars, pollVars, hwVars, overrideVars, recordVars
<1>0. RunType /\ QueueType /\ PollType /\ HwType /\ OverrideType /\ ThreadType
  BY TypeGroups
<1>1. CASE Poll
  <2>1. tripped' \in SUBSET Flags
    BY <1>1, StationAssumption DEF Poll
  <2>2. cond' \in SUBSET Flags
    BY <1>1, <2>1, RegisteredType DEF Poll
  <2>3. comm' \in [VIs -> CommKinds]
    BY <1>1 DEF Poll
  <2>4. envBad' \in BOOLEAN
    BY <1>1 DEF Poll, EnvelopeReadings
  <2>5. HwType'
    BY <1>0, <1>1 DEF Poll, HwType
  <2>6. RunType' /\ QueueType' /\ OverrideType' /\ ThreadType'
    BY <1>0, <1>1 DEF Poll, RunType, QueueType, OverrideType, ThreadType
  <2> QED
    BY <2>1, <2>2, <2>3, <2>4, <2>5, <2>6, TypeGroups DEF PollType
<1>2. CASE PollRaises
  BY <1>2, FailToErrorType DEF PollRaises
<1>3. CASE TickUnmonitored \/ Drained
  BY <1>3 DEF TickUnmonitored, Drained, TypeOK
<1>4. CASE EnterEmergency
  <2>1. HwType'
    BY <1>0, <1>4, StandbyType DEF EnterEmergency
  <2>2. RunType'
    BY <1>4, AbortActiveType, EndRunType DEF EnterEmergency
  <2>3. QueueType' /\ PollType' /\ OverrideType' /\ ThreadType'
    BY <1>0, <1>4 DEF EnterEmergency, QueueType, PollType, OverrideType, ThreadType, States
  <2> QED
    BY <2>1, <2>2, <2>3, TypeGroups
<1>5. CASE EnforceHolds
  <2>1. HwType' /\ limited' \in SUBSET VIs
    BY <1>0, <1>5, EnforceType DEF EnforceHolds, OverrideType
  <2>2. RunType' /\ QueueType' /\ PollType' /\ OverrideType' /\ ThreadType'
    BY <1>0, <1>5, <2>1 DEF EnforceHolds, RunType, QueueType, PollType, OverrideType, ThreadType
  <2> QED
    BY <2>1, <2>2, TypeGroups
<1>6. CASE FailRunForFault
  <2>1. HwType' /\ limited' \in SUBSET VIs
    BY <1>0, <1>6, EnforceType DEF FailRunForFault, OverrideType
  <2>2. RunType'
    BY <1>6, AbortActiveType, EndRunType DEF FailRunForFault
  <2>3. QueueType' /\ PollType' /\ OverrideType' /\ ThreadType'
    BY <1>0, <1>6, <2>1
       DEF FailRunForFault, QueueType, PollType, OverrideType, ThreadType, States
  <2> QED
    BY <2>1, <2>2, <2>3, TypeGroups
<1>7. CASE DrainOne
  <2>1. Head(guiQueue) \in Request /\ Tail(guiQueue) \in Seq(Request)
    BY <1>0, <1>7 DEF DrainOne, QueueType
  <2>2. Head(guiQueue).vi \in VIs
    BY <2>1 DEF Request
  <2>3. HwType'
    <3>1. CASE Execute(Head(guiQueue).vi, Head(guiQueue).act)
      BY <1>0, <2>2, <3>1, ExecuteType
    <3>2. CASE UNCHANGED hwVars
      BY <1>0, <3>2 DEF HwType
    <3> QED
      BY <1>7, <3>1, <3>2 DEF DrainOne
  <2>4. RunType' /\ QueueType' /\ PollType' /\ OverrideType' /\ ThreadType'
    BY <1>0, <1>7, <2>1
       DEF DrainOne, RunType, QueueType, PollType, OverrideType, ThreadType
  <2> QED
    BY <2>3, <2>4, TypeGroups
<1>8. CASE Expire
  <2>1. OverrideType'
    BY <1>0, <1>8 DEF Expire, OverrideType
  <2>2. RunType' /\ QueueType' /\ PollType' /\ HwType' /\ ThreadType'
    BY <1>0, <1>8 DEF Expire, RunType, QueueType, PollType, HwType, ThreadType
  <2> QED
    BY <2>1, <2>2, TypeGroups
<1> QED
  BY <1>1, <1>2, <1>3, <1>4, <1>5, <1>6, <1>7, <1>8 DEF TickStart

\* What a branch leaves to TypeOK once instruments and run are settled.
LEMMA MachineStepType ==
  ASSUME TypeOK, MachineStep, HwType', RunType', PollType', st' \in States, pc' \in {"loop", "queue"}
  PROVE  TypeOK'
<1>1. QueueType' /\ OverrideType' /\ ThreadType'
  BY TypeGroups DEF MachineStep, QueueType, OverrideType, ThreadType, queueVars, overrideVars
<1> QED
  BY <1>1, TypeGroups

\* A branch that moves from state to state.
LEMMA StayType ==
  ASSUME TypeOK, MachineStep, StayInRun, HwType', st' \in States,
         waitStarted' \in BOOLEAN, firstMeasurement' \in BOOLEAN, gates' \in BOOLEAN,
         skipRamp' \in BOOLEAN
  PROVE  TypeOK'
<1>1. RunType' /\ PollType'
  BY TypeGroups DEF StayInRun, RunType, PollType, pollVars, recordVars
<1>2. pc' = "loop"
  BY DEF StayInRun
<1> QED
  BY <1>1, <1>2, MachineStepType

LEMMA FinishRunType ==
  ASSUME TypeOK, FinishRun, lastTargets' \in SUBSET VIs
  PROVE  RunType' /\ st' \in States /\ pc' \in {"loop", "queue"}
  BY DEF FinishRun, ClearRun, EmitRunFinished, OperationEndState, RunType, TypeOK, States

LEMMA MachineType == TypeOK /\ Control /\ Machine => TypeOK'
<1> SUFFICES ASSUME TypeOK, Control, Machine PROVE TypeOK'
  OBVIOUS
<1>0. RunType /\ QueueType /\ PollType /\ HwType /\ OverrideType /\ ThreadType
  BY TypeGroups
<1>1. CASE MachineRaises \/ StepRefused
  BY <1>1, FailToErrorType DEF MachineRaises, StepRefused, MachineStep
<1>2. CASE Idle
  <2>1. PICK first \in SUBSET ramping, second \in SUBSET ramping : Advance(first \cup second)
    BY <1>2 DEF Idle
  <2>2. first \cup second \in SUBSET ramping
    OBVIOUS
  <2>3. HwType'
    BY <1>0, <2>1, <2>2, AdvanceType
  <2> QED
    BY <1>0, <1>2, <2>3, StayType DEF Idle, Keep, RunType, States
<1>3. CASE Initiating
  BY <1>0, <1>3, StayType DEF Initiating, Keep, RunType, HwType, States, hwVars
<1>4. ASSUME RampingBranch PROVE HwType' /\ skipRamp' \in BOOLEAN
  BY <1>0, <1>4 DEF RampingBranch, HwType, Unskipped
<1>5. CASE RampInProgress \/ ManualRampDone \/ EnterGate \/ WaitAtSetpoint \/ WaitOver
  <2>1. RampingBranch /\ StayInRun
    BY <1>5 DEF RampInProgress, ManualRampDone, EnterGate, WaitAtSetpoint, WaitOver
  <2>2. st' \in States
    BY <1>0, <1>5 DEF RampInProgress, ManualRampDone, EnterGate, WaitAtSetpoint, WaitOver,
                      ThreadType, States
  <2>3. waitStarted' \in BOOLEAN /\ firstMeasurement' \in BOOLEAN /\ gates' \in BOOLEAN
    BY <1>0, <1>5 DEF RampInProgress, ManualRampDone, EnterGate, WaitAtSetpoint, WaitOver, RunType
  <2> QED
    BY <1>4, <2>1, <2>2, <2>3, StayType DEF RampingBranch
<1>6. ASSUME AdvanceSome PROVE HwType'
  BY <1>0, <1>6, AdvanceType DEF AdvanceSome
<1>7. CASE GateCut \/ GatePending \/ GatesPass
  <2>1. MachineStep /\ StayInRun /\ AdvanceSome /\ UNCHANGED <<waitStarted, skipRamp>>
    BY <1>7 DEF GateCut, GatePending, GatesPass, GateStep
  <2>2. st' \in States /\ gates' \in BOOLEAN /\ firstMeasurement' \in BOOLEAN
    BY <1>0, <1>7 DEF GateCut, GatePending, GatesPass, RunType, ThreadType, States
  <2> QED
    BY <1>0, <1>6, <2>1, <2>2, StayType DEF RunType
<1>8. CASE Measure \/ StandbyRamping
  BY <1>0, <1>6, <1>8, StayType DEF Measure, StandbyRamping, Keep, RunType, ThreadType, States
<1>9. CASE PauseAfterPoint
  <2>1. HwType'
    BY <1>0, <1>9, StopRampsType DEF PauseAfterPoint, Sweep
  <2>2. RunType'
    BY <1>0, <1>9 DEF PauseAfterPoint, Sweep, EnterPaused, Keep, RunType, ThreadType, recordVars
  <2>3. PollType'
    BY <1>0, <1>9 DEF PauseAfterPoint, Sweep, PollType, pollVars
  <2> QED
    BY <1>9, <2>1, <2>2, <2>3, MachineStepType DEF PauseAfterPoint, Sweep, EnterPaused, States
<1>10. CASE NextPoint
  <2>1. StepTargets[run] \in SUBSET VIs
    BY <1>10, RunTables
       DEF NextPoint, Sweep, MachineStep, Control, Phase
  <2>2. HwType'
    BY <1>0, <1>10, <2>1 DEF NextPoint, Sweep, HwType
  <2>3. RunType'
    BY <1>0, <1>10, <2>1 DEF NextPoint, Sweep, Keep, RunType, recordVars
  <2>4. PollType'
    BY <1>0, <1>10 DEF NextPoint, Sweep, PollType, pollVars
  <2> QED
    BY <1>10, <2>2, <2>3, <2>4, MachineStepType DEF NextPoint, Sweep, States
<1>11. CASE LastPoint
  <2>1. RunType' /\ PollType'
    BY <1>0, <1>11 DEF LastPoint, Sweep, Keep, RunType, PollType, pollVars, recordVars
  <2> QED
    BY <1>6, <1>11, <2>1, MachineStepType DEF LastPoint, Sweep, States
<1>12. CASE DispatchStandby
  <2>0. run \in Runs /\ run \notin Operations
    BY <1>12 DEF DispatchStandby, MachineStep, Control, Phase, OperationActive
  <2>1. StandbyTargets[run] \in SUBSET VIs /\ StandbyParks[run] \in SUBSET VIs
    BY <2>0, RunTables, RunsAssumption DEF Runs
  <2>2. HwType'
    BY <1>0, <1>12, <2>1 DEF DispatchStandby, HwType
  <2>3. RunType'
    BY <1>0, <1>12, <2>1 DEF DispatchStandby, Keep, RunType, recordVars
  <2>4. PollType' /\ st' \in States /\ pc' = "loop"
    BY <1>0, <1>12 DEF DispatchStandby, PollType, ThreadType, pollVars
  <2> QED
    BY <1>12, <2>2, <2>3, <2>4, MachineStepType DEF DispatchStandby
<1>13. CASE FinishProcedure
  <2>1. RunType' /\ st' \in States /\ pc' \in {"loop", "queue"}
    BY <1>0, <1>13, FinishRunType DEF FinishProcedure, RunType
  <2>2. PollType'
    BY <1>0, <1>13 DEF FinishProcedure, PollType, pollVars
  <2> QED
    BY <1>6, <1>13, <2>1, <2>2, MachineStepType DEF FinishProcedure
<1>14. CASE FinishOperationNow
  <2>1. StandbyTargets[run] \in SUBSET VIs
    BY <1>14, RunTables DEF FinishOperationNow, OperationActive, Runs
  <2>2. HwType' /\ lastTargets' \in SUBSET VIs
    <3>1. CASE StartRamps(StandbyTargets[run]) /\ lastTargets' = StandbyTargets[run]
      BY <1>0, <1>14, <2>1, <3>1, StartRampsType DEF FinishOperationNow
    <3>2. CASE UNCHANGED <<ramping, settled, parked, lastTargets>>
      BY <1>0, <1>14, <3>2 DEF FinishOperationNow, HwType, RunType
    <3> QED
      BY <1>14, <3>1, <3>2 DEF FinishOperationNow
  <2>3. RunType' /\ st' \in States /\ pc' \in {"loop", "queue"}
    BY <1>14, <2>2, FinishRunType DEF FinishOperationNow
  <2>4. PollType'
    BY <1>0, <1>14, StationAssumption DEF FinishOperationNow, PollType, EnvelopeReadings
  <2> QED
    BY <1>14, <2>2, <2>3, <2>4, MachineStepType DEF FinishOperationNow
<1>15. CASE Rest
  BY <1>0, <1>15, MachineStepType
     DEF Rest, RunType, PollType, HwType, ThreadType, runVars, pollVars, hwVars, recordVars
<1> QED
  BY <1>1, <1>2, <1>3, <1>5, <1>7, <1>8, <1>9, <1>10, <1>11, <1>12, <1>13, <1>14, <1>15
     DEF Machine

\* Every variable keeps its type (TypeOK), for every station and every set of runs.
THEOREM TypeCorrect == Spec => []TypeOK
<1>1. Init => TypeOK /\ Control
  BY InitType, InitControl
<1>2. TypeOK /\ Control /\ [Next]_vars => TypeOK' /\ Control'
  BY NextControl, TypeUnchanged, PanelType, StartType, TickType, MachineType
     DEF Next, Continue
<1> QED
  BY <1>1, <1>2, PTL DEF Spec

-----------------------------------------------------------------------------
(* Monitoring.                                                              *)

\* Behind a poll monitoring is on too: from there an EMERGENCY may be entered.
Monitored == (run # NoRun \/ st = "EMERGENCY" \/ pc = "verdict") => monitoring

LEMMA MonitoredUnchanged ==
  ASSUME Monitored, monitoring' = monitoring,
         run' # NoRun \/ st' = "EMERGENCY" \/ pc' = "verdict"
           => run # NoRun \/ st = "EMERGENCY" \/ pc = "verdict"
  PROVE  Monitored'
  BY DEF Monitored

LEMMA PanelMonitored == Control /\ Monitored /\ (Panel \/ Expire) => Monitored'
<1> SUFFICES ASSUME Control, Monitored, Panel \/ Expire PROVE Monitored'
  OBVIOUS
<1> USE DEF runVars, queueVars, pollVars, hwVars, overrideVars, recordVars
<1>1. CASE StartMonitoring
  BY <1>1 DEF StartMonitoring, Monitored
<1>2. CASE StopMonitoring
  <2>1. run = NoRun /\ st # "EMERGENCY" /\ pc = "loop"
    BY <1>2 DEF StopMonitoring, Control, Phase, RunStates, GateStates
  <2> QED
    BY <1>2, <2>1 DEF StopMonitoring, Monitored
<1>3. ASSUME NEW r, NEW started, BeginRun(r, started) PROVE Monitored'
  BY <1>3 DEF BeginRun, Monitored
<1>4. ASSUME Blocked PROVE Monitored'
  BY <1>4, MonitoredUnchanged DEF Blocked
<1>5. ASSUME NEW p \in Procedures, RunProcedure(p) \/ QueueProcedure(p) PROVE Monitored'
  BY <1>3, <1>4, <1>5 DEF RunProcedure, QueueProcedure
<1>6. ASSUME NEW o \in Operations, RunOperation(o) \/ QueueOperation(o) PROVE Monitored'
  BY <1>3, <1>4, <1>6 DEF RunOperation, QueueOperation
<1>7. CASE PauseProcedure
  BY <1>7, MonitoredUnchanged DEF PauseProcedure, EnterPaused
<1>8. CASE ResumeProcedure
  <2>1. st = "PAUSED" => prePause # "EMERGENCY"
    BY <1>8 DEF ResumeProcedure, Control, Phase, RunStates, GateStates
  <2> QED
    BY <1>8, <2>1, MonitoredUnchanged DEF ResumeProcedure
<1>9. CASE ResumeRaises \/ FinishOperation \/ SkipOperationStep \/ RecoverFromError
           \/ Acknowledge \/ Expire
  BY <1>9, MonitoredUnchanged
     DEF ResumeRaises, FinishOperation, SkipOperationStep, RecoverFromError, Acknowledge, Expire
<1>10. ASSUME Abort PROVE Monitored'
  BY <1>10, MonitoredUnchanged DEF Abort, AbortActive, ClearRun
<1>11. CASE AbortProcedure
  BY <1>10, <1>11 DEF AbortProcedure
<1>12. ASSUME NEW v \in VIs, NEW act \in Manual, SubmitViAction(v, act) PROVE Monitored'
  BY <1>12, MonitoredUnchanged DEF SubmitViAction
<1>13. ASSUME NEW act \in Manual, SubmitGlobalAction(act) PROVE Monitored'
  BY <1>10, <1>13, MonitoredUnchanged DEF SubmitGlobalAction
<1>14. ASSUME NEW v \in VIs, StopRamp(v) \/ RetryFault(v) PROVE Monitored'
  BY <1>14, MonitoredUnchanged DEF StopRamp, RetryFault
<1> QED
  BY <1>1, <1>2, <1>5, <1>6, <1>7, <1>8, <1>9, <1>11, <1>12, <1>13, <1>14 DEF Panel

LEMMA TickMonitored ==
  Control /\ Monitored /\ (RunQueue \/ TickStart \/ Continue) => Monitored'
<1> SUFFICES ASSUME Control, Monitored, RunQueue \/ TickStart \/ Continue PROVE Monitored'
  OBVIOUS
<1> USE DEF runVars, queueVars, pollVars, hwVars, overrideVars, recordVars
<1>1. CASE RunQueue
  BY <1>1 DEF RunQueue, BeginRun, Blocked, Monitored
<1>2. CASE StartRun
  BY <1>2, MonitoredUnchanged DEF StartRun
<1>3. CASE StartRunRaises \/ StartRunRefused \/ PollRaises
  BY <1>3, MonitoredUnchanged
     DEF StartRunRaises, StartRunRefused, PollRaises, FailToError, AbortActive, ClearRun
<1>4. CASE Poll \/ TickUnmonitored \/ EnforceHolds \/ DrainOne \/ Drained
  BY <1>4 DEF Poll, TickUnmonitored, EnforceHolds, DrainOne, Drained, Monitored
<1>5. CASE EnterEmergency \/ FailRunForFault
  BY <1>5 DEF EnterEmergency, FailRunForFault, Monitored
<1>6. CASE MachineRaises \/ StepRefused
  BY <1>6, MonitoredUnchanged
     DEF MachineRaises, StepRefused, MachineStep, FailToError, AbortActive, ClearRun
<1>7. CASE FinishProcedure \/ FinishOperationNow
  <2>1. run # NoRun \/ st' # "EMERGENCY"
    BY <1>7, RunsAssumption
       DEF FinishProcedure, FinishOperationNow, FinishRun, OperationEndState, OperationActive, Runs
  <2> QED
    BY <1>7, <2>1, MonitoredUnchanged
       DEF FinishProcedure, FinishOperationNow, MachineStep, FinishRun, ClearRun
<1>8. CASE Machine /\ ~(MachineRaises \/ StepRefused \/ FinishProcedure \/ FinishOperationNow)
  <2>1. pc = "machine" /\ pc' = "loop" /\ UNCHANGED <<run, monitoring>>
    BY <1>8 DEF Machine, Idle, Initiating, RampInProgress, ManualRampDone, EnterGate,
         WaitAtSetpoint, WaitOver, RampingBranch, GateCut, GatePending, GatesPass, GateStep,
         Measure, PauseAfterPoint, NextPoint, LastPoint, Sweep, StandbyRamping,
         DispatchStandby, Rest, MachineStep, StayInRun
  <2>2. st' = "EMERGENCY" => st = "EMERGENCY"
    BY <1>8 DEF Machine, Idle, Initiating, RampInProgress, ManualRampDone, EnterGate,
         WaitAtSetpoint, WaitOver, RampingBranch, GateCut, GatePending, GatesPass, GateStep,
         Measure, PauseAfterPoint, EnterPaused, NextPoint, LastPoint, Sweep, StandbyRamping,
         DispatchStandby, Rest
  <2> QED
    BY <2>1, <2>2, MonitoredUnchanged
<1> QED
  BY <1>1, <1>2, <1>3, <1>4, <1>5, <1>6, <1>7, <1>8 DEF TickStart, Continue

LEMMA MonitoredCorrect == Spec => []Monitored
<1>1. Init => Monitored
  BY DEF Init, Monitored
<1>2. Control /\ Monitored /\ [Next]_vars => Monitored'
  <2>1. Monitored /\ UNCHANGED vars => Monitored'
    BY DEF Monitored, vars, runVars
  <2> QED
    BY <2>1, PanelMonitored, TickMonitored DEF Next
<1> QED
  BY <1>1, <1>2, ControlCorrect, PTL DEF Spec

\* A run is never without monitoring, and neither is an EMERGENCY (stop_monitoring
\* is refused outside IDLE and ERROR, and starting a run forces monitoring on).
THEOREM RunIsMonitoredHolds == Spec => []RunIsMonitored
<1>1. Monitored => RunIsMonitored
  BY DEF Monitored, RunIsMonitored
<1> QED
  BY <1>1, MonitoredCorrect, PTL

-----------------------------------------------------------------------------
(* The pause boundary.                                                      *)

PauseBounded == pauseRequested => st \in {"MEASURING", "SWEEPING"}

LEMMA PausePanel == Control /\ PauseBounded /\ (Panel \/ Expire) => PauseBounded'
<1> SUFFICES ASSUME Control, PauseBounded, Panel \/ Expire PROVE PauseBounded'
  OBVIOUS
<1> USE DEF runVars, PauseBounded
<1>1. CASE \/ StartMonitoring \/ StopMonitoring \/ FinishOperation \/ SkipOperationStep
           \/ Expire \/ ResumeRaises
  BY <1>1 DEF StartMonitoring, StopMonitoring, FinishOperation, SkipOperationStep, Expire,
              ResumeRaises
<1>2. CASE RecoverFromError \/ Acknowledge
  BY <1>2 DEF RecoverFromError, Acknowledge
<1>3. ASSUME NEW p \in Procedures, RunProcedure(p) \/ QueueProcedure(p) PROVE PauseBounded'
  BY <1>3 DEF RunProcedure, QueueProcedure, BeginRun, Blocked
<1>4. ASSUME NEW o \in Operations, RunOperation(o) \/ QueueOperation(o) PROVE PauseBounded'
  BY <1>4 DEF RunOperation, QueueOperation, BeginRun, Blocked
<1>5. CASE PauseProcedure
  BY <1>5 DEF PauseProcedure, EnterPaused, GateStates
<1>6. CASE ResumeProcedure
  BY <1>6 DEF ResumeProcedure
<1>7. CASE AbortProcedure
  BY <1>7 DEF AbortProcedure, Abort, AbortActive, ClearRun
<1>8. ASSUME NEW v \in VIs, NEW act \in Manual, SubmitViAction(v, act) PROVE PauseBounded'
  BY <1>8 DEF SubmitViAction
<1>9. ASSUME NEW act \in Manual, SubmitGlobalAction(act) PROVE PauseBounded'
  BY <1>9 DEF SubmitGlobalAction, Abort, AbortActive, ClearRun
<1>10. ASSUME NEW v \in VIs, StopRamp(v) \/ RetryFault(v) PROVE PauseBounded'
  BY <1>10 DEF StopRamp, RetryFault
<1> QED
  BY <1>1, <1>2, <1>3, <1>4, <1>5, <1>6, <1>7, <1>8, <1>9, <1>10 DEF Panel

LEMMA PauseTick == PauseBounded /\ (RunQueue \/ TickStart \/ Continue) => PauseBounded'
<1> SUFFICES ASSUME PauseBounded, RunQueue \/ TickStart \/ Continue PROVE PauseBounded'
  OBVIOUS
<1> USE DEF runVars, PauseBounded
<1>1. CASE RunQueue \/ StartRun
  BY <1>1 DEF RunQueue, BeginRun, Blocked, StartRun
<1>2. CASE \/ StartRunRaises \/ StartRunRefused \/ PollRaises \/ EnterEmergency
           \/ FailRunForFault \/ MachineRaises \/ StepRefused
  BY <1>2 DEF StartRunRaises, StartRunRefused, PollRaises, EnterEmergency, FailRunForFault,
              MachineRaises, StepRefused, FailToError, AbortActive, ClearRun
<1>3. CASE Poll \/ TickUnmonitored \/ EnforceHolds \/ DrainOne \/ Drained
  BY <1>3 DEF Poll, TickUnmonitored, EnforceHolds, DrainOne, Drained
<1>4. CASE FinishProcedure \/ FinishOperationNow
  BY <1>4 DEF FinishProcedure, FinishOperationNow, FinishRun, ClearRun
<1>5. CASE PauseAfterPoint \/ NextPoint \/ LastPoint
  BY <1>5 DEF PauseAfterPoint, EnterPaused, NextPoint, LastPoint
<1>6. CASE \/ Idle \/ Initiating \/ RampInProgress \/ ManualRampDone \/ EnterGate
           \/ WaitAtSetpoint \/ WaitOver \/ GateCut \/ GatePending \/ GatesPass \/ Measure
           \/ StandbyRamping \/ DispatchStandby \/ Rest
  BY <1>6 DEF Idle, Initiating, RampInProgress, ManualRampDone, EnterGate, WaitAtSetpoint,
       WaitOver, RampingBranch, GateCut, GatePending, GatesPass, GateStep, GateStates, Measure,
       StandbyRamping, DispatchStandby, Rest, StayInRun, MachineStep
<1> QED
  BY <1>1, <1>2, <1>3, <1>4, <1>5, <1>6 DEF TickStart, Continue, Machine

\* A pause request never outlives the point it was made for (the pause boundary of
\* pause_procedure() and of the SWEEPING branch).
THEOREM PauseAtBoundaryHolds == Spec => []PauseAtBoundary
<1>1. Init => PauseBounded
  BY DEF Init, PauseBounded
<1>2. Control /\ PauseBounded /\ [Next]_vars => PauseBounded'
  <2>1. PauseBounded /\ UNCHANGED vars => PauseBounded'
    BY DEF PauseBounded, vars, runVars
  <2> QED
    BY <2>1, PausePanel, PauseTick DEF Next
<1>3. PauseBounded => PauseAtBoundary
  BY DEF PauseBounded, PauseAtBoundary
<1>4. Spec => []PauseBounded
  BY <1>1, <1>2, ControlCorrect, PTL DEF Spec
<1> QED
  BY <1>3, <1>4, PTL

-----------------------------------------------------------------------------
(* Leaving EMERGENCY, and the queue behind a failure.                       *)

\* What the thread may do in EMERGENCY: nothing of the state machine but Rest.
LEMMA EmergencyHasNoRun ==
  Control /\ st = "EMERGENCY" => run = NoRun \/ (pc = "start" /\ run \in Operations /\ fromEmergency)
  BY DEF Control, Phase, RunStates, GateStates

LEMMA LeavingEmergency ==
  ASSUME Control, Next, st = "EMERGENCY", st' # "EMERGENCY"
  PROVE  \/ st' = "IDLE" /\ "quench" \notin cond /\ ~envBad
         \/ run \in Operations /\ fromEmergency
<1>1. CASE Acknowledge
  BY <1>1 DEF Acknowledge, CauseActive
<1>2. CASE StartRun \/ StartRunRaises \/ StartRunRefused
  BY <1>2 DEF StartRun, StartRunRaises, StartRunRefused, Control
<1>3. CASE Panel /\ ~Acknowledge
  BY <1>3 DEF Panel, StartMonitoring, StopMonitoring, RunProcedure, QueueProcedure,
       RunOperation, QueueOperation, BeginRun, Blocked, PauseProcedure, GateStates,
       ResumeProcedure, ResumeRaises, AbortProcedure, FinishOperation, SkipOperationStep,
       RecoverFromError, SubmitViAction, SubmitGlobalAction, StopRamp, RetryFault
<1>4. CASE RunQueue \/ Expire \/ TickStart
  BY <1>4 DEF RunQueue, BeginRun, Blocked, Expire, TickStart, Poll, PollRaises, TickUnmonitored
<1>5. CASE EnterEmergency \/ EnforceHolds \/ FailRunForFault \/ DrainOne \/ Drained
  BY <1>5 DEF EnterEmergency, EnforceHolds, FailRunForFault, FailsRun, RunActive, DrainOne,
              Drained
<1>6. CASE Machine
  <2>1. run = NoRun
    BY <1>6, EmergencyHasNoRun
       DEF Machine, MachineRaises, StepRefused, Idle, Initiating, RampInProgress,
           ManualRampDone, EnterGate, WaitAtSetpoint, WaitOver, RampingBranch, GateCut,
           GatePending, GatesPass, GateStep, Measure, PauseAfterPoint, NextPoint, LastPoint,
           Sweep, StandbyRamping, DispatchStandby, FinishProcedure, FinishOperationNow,
           Rest, MachineStep
  <2>2. Rest
    BY <1>6, <2>1
       DEF Machine, MachineRaises, AdvancingStates, StepRefused, Idle, Initiating,
           RampInProgress, ManualRampDone, EnterGate, WaitAtSetpoint, WaitOver, RampingBranch,
           GateCut, GatePending, GatesPass, GateStep, GateStates, Measure, PauseAfterPoint,
           NextPoint, LastPoint, Sweep, StandbyRamping, DispatchStandby, FinishProcedure,
           FinishOperationNow
  <2> QED
    BY <2>2 DEF Rest
<1> QED
  BY <1>1, <1>2, <1>3, <1>4, <1>5, <1>6 DEF Next, Continue

\* EMERGENCY is left only towards IDLE without a critical condition, or by starting
\* an operation that tolerates every tripped flag (_acknowledge_emergency(),
\* run_operation()).
THEOREM LeavesEmergencySafelyHolds == Spec => LeavesEmergencySafely
<1>1. Control /\ [Next]_vars =>
        ((st = "EMERGENCY" /\ st' # "EMERGENCY") =>
           \/ st' = "IDLE" /\ "quench" \notin cond /\ ~envBad
           \/ run \in Operations /\ fromEmergency)
  BY LeavingEmergency DEF vars
<1> QED
  BY <1>1, ControlCorrect, PTL DEF Spec, LeavesEmergencySafely

LEMMA QueueBehindDone ==
  ASSUME Control, Next, pc # "loop", pc' = "queue"
  PROVE  outcome' = "done"
<1> USE DEF runVars, queueVars, pollVars, hwVars, overrideVars, recordVars
<1>1. CASE FinishProcedure \/ FinishOperationNow
  <2>1. st = "STANDBY" /\ pc = "machine"
    BY <1>1 DEF FinishProcedure, FinishOperationNow, MachineStep
  <2>2. manifest # NoRun
    BY <2>1, RunsAssumption DEF Control, Runs
  <2> QED
    BY <1>1, <2>2 DEF FinishProcedure, FinishOperationNow, FinishRun, EmitRunFinished
<1>2. CASE RunQueue
  BY <1>2 DEF RunQueue, BeginRun, Blocked
<1>3. CASE StartRun \/ StartRunRaises \/ StartRunRefused \/ PollRaises
           \/ MachineRaises \/ StepRefused
  BY <1>3 DEF StartRun, StartRunRaises, StartRunRefused, PollRaises, MachineRaises,
              StepRefused, FailToError
<1>4. CASE EnterEmergency \/ EnforceHolds \/ FailRunForFault \/ DrainOne \/ Drained
           \/ Poll \/ TickUnmonitored
  BY <1>4 DEF EnterEmergency, EnforceHolds, FailRunForFault, DrainOne, Drained, Poll,
              TickUnmonitored
<1>5. CASE Machine /\ ~(FinishProcedure \/ FinishOperationNow \/ MachineRaises \/ StepRefused)
  BY <1>5 DEF Machine, Idle, Initiating, RampInProgress, ManualRampDone, EnterGate,
       WaitAtSetpoint, WaitOver, GateCut, GatePending, GatesPass, GateStep,
       Measure, PauseAfterPoint, NextPoint, LastPoint, Sweep, StandbyRamping,
       DispatchStandby, Rest, StayInRun
<1>6. CASE Panel \/ Expire
  BY <1>6 DEF Panel, Expire, StartMonitoring, StopMonitoring, RunProcedure, QueueProcedure,
       RunOperation, QueueOperation, PauseProcedure,
       ResumeProcedure, ResumeRaises, AbortProcedure, FinishOperation, SkipOperationStep,
       RecoverFromError, Acknowledge, SubmitViAction, SubmitGlobalAction, StopRamp, RetryFault
<1> QED
  BY <1>1, <1>2, <1>3, <1>4, <1>5, <1>6 DEF Next, TickStart, Continue

\* The tick lets the queue go on only behind a run that was done (_finish_run() is
\* the only exit of the tick that calls run_queue()).
THEOREM QueueWaitsAfterFailureHolds == Spec => QueueWaitsAfterFailure
<1>1. Control /\ [Next]_vars => ((pc # "loop" /\ pc' = "queue") => outcome' = "done" \/ UNCHANGED vars)
  BY QueueBehindDone
<1> QED
  BY <1>1, ControlCorrect, PTL DEF Spec, QueueWaitsAfterFailure

-----------------------------------------------------------------------------
(* Behind the verdict of a tick.                                            *)

\* What holds behind a verdict is read by the drain and left alone by it.
Behind == pc \in {"drain", "machine"}

\* Behind the verdict is reached from the verdict, or without monitoring; what else
\* ends there is one drained action or the end of the drain.
LEMMA ReachBehind ==
  ASSUME Next, Behind'
  PROVE  TickUnmonitored \/ EnforceHolds \/ DrainOne \/ Drained
<1> USE DEF Behind, runVars, queueVars, pollVars, hwVars, overrideVars, recordVars
<1>1. CASE Panel \/ Expire
  BY <1>1 DEF Panel, Expire, StartMonitoring, StopMonitoring, RunProcedure, QueueProcedure,
       RunOperation, QueueOperation, BeginRun, Blocked, PauseProcedure,
       ResumeProcedure, ResumeRaises, AbortProcedure, Abort, FinishOperation, SkipOperationStep,
       RecoverFromError, Acknowledge, SubmitViAction, SubmitGlobalAction, StopRamp, RetryFault
<1>2. CASE RunQueue \/ StartRun \/ StartRunRaises \/ StartRunRefused
  BY <1>2 DEF RunQueue, BeginRun, Blocked, StartRun, StartRunRaises, StartRunRefused, FailToError
<1>3. CASE TickStart \/ EnterEmergency \/ FailRunForFault
  BY <1>3 DEF TickStart, Poll, PollRaises, FailToError, EnterEmergency, FailRunForFault
<1>4. CASE Machine
  BY <1>4 DEF Machine, MachineRaises, StepRefused, FailToError, Idle, Initiating,
       RampInProgress, ManualRampDone, EnterGate, WaitAtSetpoint, WaitOver, GateCut,
       GatePending, GatesPass, GateStep, Measure, PauseAfterPoint, NextPoint, LastPoint, Sweep,
       StandbyRamping, DispatchStandby, FinishProcedure, FinishOperationNow, FinishRun,
       Rest, StayInRun
<1> QED
  BY <1>1, <1>2, <1>3, <1>4 DEF Next, Continue

LEMMA VerdictStep ==
  ASSUME Control, Monitored, NoStepUnderVerdict, Next
  PROVE  NoStepUnderVerdict'
<1> USE DEF runVars, queueVars, pollVars, hwVars, overrideVars, recordVars
<1> SUFFICES ASSUME Behind', run' # NoRun
             PROVE  /\ "quench" \notin cond' /\ ~envBad'
                    /\ st' # "PAUSED" => (Watched \cap HeldVIs)' = {}
  BY DEF NoStepUnderVerdict, Behind
<1>1. CASE TickUnmonitored
  BY <1>1 DEF TickUnmonitored, Monitored
<1>2. CASE EnforceHolds
  <2>1. pc = "verdict" /\ run # NoRun /\ Phase \in RunStates
    BY <1>2 DEF EnforceHolds, Control
  <2>2. st # "EMERGENCY" /\ ~Emergency
    BY <1>2, <2>1 DEF EnforceHolds, Phase, RunStates, GateStates
  <2>3. st # "PAUSED" => RunActive
    BY <2>1 DEF Phase, RunStates, GateStates, RunActive
  <2>4. st # "PAUSED" => Watched \cap HeldVIs = {}
    BY <1>2, <2>3 DEF EnforceHolds, FailsRun
  <2>5. UNCHANGED <<st, cond, envBad, comm, activeVis, claims>>
    BY <1>2 DEF EnforceHolds
  <2>6. (Watched \cap HeldVIs)' = Watched \cap HeldVIs
    BY <2>5 DEF Watched, HeldVIs, Held
  <2> QED
    BY <2>2, <2>4, <2>5, <2>6 DEF Emergency
<1>3. CASE DrainOne \/ Drained
  <2>1. Behind /\ UNCHANGED <<st, run, cond, envBad, comm, activeVis, claims>>
    BY <1>3 DEF DrainOne, Drained, Behind
  <2>2. (Watched \cap HeldVIs)' = Watched \cap HeldVIs
    BY <2>1 DEF Watched, HeldVIs, Held
  <2> QED
    BY <2>1, <2>2 DEF NoStepUnderVerdict, Behind
<1> QED
  BY <1>1, <1>2, <1>3, ReachBehind

\* No run takes a step on a tick whose verdict forbids it: a critical condition, a
\* violated envelope, or a hold on one of its targets or explicit claims.
THEOREM NoStepUnderVerdictHolds == Spec => []NoStepUnderVerdict
<1>1. Init => NoStepUnderVerdict
  BY DEF Init, NoStepUnderVerdict
<1>2. Control /\ Monitored /\ NoStepUnderVerdict /\ [Next]_vars => NoStepUnderVerdict'
  <2>1. NoStepUnderVerdict /\ UNCHANGED vars => NoStepUnderVerdict'
    BY DEF NoStepUnderVerdict, vars, runVars, pollVars, Watched, HeldVIs, Held
  <2> QED
    BY <2>1, VerdictStep
<1> QED
  BY <1>1, <1>2, ControlCorrect, MonitoredCorrect, PTL DEF Spec

LEMMA EnforcedStep ==
  ASSUME TypeOK, HoldsEnforced, Next
  PROVE  HoldsEnforced'
<1> USE DEF runVars, queueVars, pollVars, hwVars, overrideVars, recordVars
<1> SUFFICES ASSUME Behind', monitoring', NEW v \in VIs, Held(v)'
             PROVE  HoldOverridden(v)' \/ v \in parked' \/ v \in limited' \/ emOverride'
  BY DEF HoldsEnforced, HeldVIs, Behind
<1>1. CASE TickUnmonitored
  BY <1>1 DEF TickUnmonitored
<1>2. CASE EnforceHolds
  <2>1. UNCHANGED <<comm, cond, holdOverride>> /\ EnforceSafetyHolds({})
    BY <1>2 DEF EnforceHolds
  <2>2. Held(v) /\ (HoldOverridden(v)' <=> HoldOverridden(v))
    BY <2>1 DEF Held, HoldOverridden, HoldKey
  <2>3. CASE ~HoldOverridden(v)
    <3>1. v \in Enforceable
      BY <2>2, <2>3 DEF Enforceable, HeldVIs
    <3> QED
      BY <2>1, <3>1 DEF EnforceSafetyHolds
  <2> QED
    BY <2>2, <2>3
<1>3. CASE Drained
  BY <1>3 DEF Drained, HoldsEnforced, HeldVIs, Held, HoldOverridden, HoldKey
<1>4. CASE DrainOne
  <2>1. /\ pc = "drain" /\ monitoring
        /\ UNCHANGED <<comm, cond, holdOverride, limited, emOverride>>
    BY <1>4 DEF DrainOne
  <2>2. Held(v) /\ (HoldOverridden(v)' <=> HoldOverridden(v))
    BY <2>1 DEF Held, HoldOverridden, HoldKey
  <2>3. HoldOverridden(v) \/ v \in parked \/ v \in limited \/ emOverride
    BY <2>1, <2>2 DEF HoldsEnforced, HeldVIs
  <2> DEFINE w == Head(guiQueue).vi
  <2>4. CASE v = w
    BY <1>4, <2>1, <2>2, <2>3, <2>4 DEF DrainOne, Admissible
  <2>5. CASE v # w
    <3>1. v \in parked => v \in parked'
      BY <1>4, <2>5 DEF DrainOne, Execute, StartRamps, Standby
    <3> QED
      BY <2>1, <2>2, <2>3, <3>1
  <2> QED
    BY <2>4, <2>5
<1> QED
  BY <1>1, <1>2, <1>3, <1>4, ReachBehind

\* Behind the verdict every held VI is at standby unless an override, or the rate
\* limit of _enforce_safety_holds(), speaks for it.
THEOREM HoldsEnforcedHolds == Spec => []HoldsEnforced
<1>1. Init => HoldsEnforced
  BY DEF Init, HoldsEnforced
<1>2. TypeOK /\ HoldsEnforced /\ [Next]_vars => HoldsEnforced'
  <2>1. HoldsEnforced /\ UNCHANGED vars => HoldsEnforced'
    BY DEF HoldsEnforced, vars, hwVars, pollVars, overrideVars, HeldVIs, Held, HoldOverridden,
           HoldKey
  <2> QED
    BY <2>1, EnforcedStep
<1> QED
  BY <1>1, <1>2, TypeCorrect, PTL DEF Spec

=============================================================================
