---------------------------- MODULE LifecycleProofs ----------------------------
(***************************************************************************)
(* What a run of Orchestrator remembers and what it is for everyone         *)
(* outside: that its memory agrees with its phase, that its signals follow  *)
(* RunLifecycle, and which ramps its end and the front panel may touch.     *)
(***************************************************************************)
EXTENDS OrchestratorProofs

-----------------------------------------------------------------------------
(* What a run remembers.                                                    *)

\* RunMemory at every point of an event, with what makes it inductive: a settle
\* timer runs only where no gate is left to pass (so a gate is never entered with
\* the timer running), and the scope holds all that initiate() sent.
Remembered ==
  /\ gates <=> Phase \in GateStates
  /\ Phase \in {"INITIATING", "INITIATION_GATE"} => firstMeasurement
  /\ Phase \in {"READING_GATE", "MEASURING", "SWEEPING"} => ~firstMeasurement
  /\ waitStarted => Phase = "RAMPING" /\ ~HasGates
  /\ standbyDispatched => Phase = "STANDBY"
  /\ lastTargets \subseteq activeVis
  /\ InitTargets[run] \subseteq activeVis

Memory == (run # NoRun /\ pc # "start") => Remembered

\* The variables Memory reads.
memoryVars == <<st, run, activeVis, standbyDispatched, waitStarted, firstMeasurement, gates,
                prePause, lastTargets>>

LEMMA MemoryUnchanged ==
  ASSUME Memory, UNCHANGED memoryVars, pc # "start"
  PROVE  Memory'
  BY DEF Memory, Remembered, memoryVars, Phase, HasGates

\* A pause and a resume change the state, not the phase.
LEMMA MemoryOfPhase ==
  ASSUME Memory, pc # "start", Phase' = Phase,
         UNCHANGED <<run, activeVis, standbyDispatched, waitStarted, firstMeasurement, gates,
                     lastTargets>>
  PROVE  Memory'
  BY DEF Memory, Remembered, HasGates

\* Between runs, and where the next run is about to be set up, nothing is remembered.
LEMMA NothingToRemember ==
  ASSUME run' = NoRun \/ pc' = "start"
  PROVE  Memory'
  BY DEF Memory

LEMMA PanelMemory == Control /\ Memory /\ (Panel \/ Expire) => Memory'
<1> SUFFICES ASSUME Control, Memory, Panel \/ Expire PROVE Memory'
  OBVIOUS
<1> USE DEF runVars
<1>1. CASE StartMonitoring \/ StopMonitoring \/ FinishOperation \/ SkipOperationStep
           \/ ResumeRaises \/ Expire
  BY <1>1, MemoryUnchanged
     DEF StartMonitoring, StopMonitoring, FinishOperation, SkipOperationStep, ResumeRaises,
         Expire, memoryVars
<1>2. CASE RecoverFromError \/ Acknowledge
  <2>1. pc = "loop" /\ run' = run
    BY <1>2 DEF RecoverFromError, Acknowledge
  <2>2. CASE st' = st
    BY <1>2, <2>1, <2>2, MemoryUnchanged DEF RecoverFromError, Acknowledge, memoryVars
  <2>3. CASE st \in {"ERROR", "EMERGENCY"}
    <3>1. run = NoRun
      BY <2>1, <2>3 DEF Control, Phase, RunStates, GateStates
    <3> QED
      BY <2>1, <3>1, NothingToRemember
  <2> QED
    BY <1>2, <2>2, <2>3 DEF RecoverFromError, Acknowledge
<1>3. ASSUME NEW r, NEW started, BeginRun(r, started) PROVE Memory'
  BY <1>3, NothingToRemember DEF BeginRun
<1>4. ASSUME Blocked, pc = "loop" PROVE Memory'
  BY <1>4, MemoryUnchanged DEF Blocked, memoryVars
<1>5. ASSUME NEW p \in Procedures, RunProcedure(p) \/ QueueProcedure(p) PROVE Memory'
  BY <1>3, <1>4, <1>5 DEF RunProcedure, QueueProcedure
<1>6. ASSUME NEW o \in Operations, RunOperation(o) \/ QueueOperation(o) PROVE Memory'
  BY <1>3, <1>4, <1>6 DEF RunOperation, QueueOperation
<1>7. CASE PauseProcedure
  <2>1. Phase' = Phase /\ pc = "loop"
    BY <1>7 DEF PauseProcedure, EnterPaused, Phase, GateStates
  <2> QED
    BY <1>7, <2>1, MemoryOfPhase DEF PauseProcedure
<1>8. CASE ResumeProcedure
  <2>1. st = "PAUSED" => prePause # "PAUSED"
    BY <1>8 DEF ResumeProcedure, Control, Phase, RunStates, GateStates
  <2>2. Phase' = Phase /\ pc = "loop"
    BY <1>8, <2>1 DEF ResumeProcedure, Phase
  <2> QED
    BY <1>8, <2>2, MemoryOfPhase DEF ResumeProcedure
<1>9. ASSUME Abort PROVE Memory'
  BY <1>9, NothingToRemember DEF Abort, AbortActive, ClearRun
<1>10. CASE AbortProcedure
  BY <1>9, <1>10 DEF AbortProcedure
<1>11. ASSUME NEW v \in VIs, NEW act \in Manual, SubmitViAction(v, act) PROVE Memory'
  BY <1>11, MemoryUnchanged DEF SubmitViAction, memoryVars
<1>12. ASSUME NEW act \in Manual, SubmitGlobalAction(act) PROVE Memory'
  BY <1>9, <1>12, MemoryUnchanged DEF SubmitGlobalAction, memoryVars
<1>13. ASSUME NEW v \in VIs, StopRamp(v) \/ RetryFault(v) PROVE Memory'
  BY <1>13, MemoryUnchanged DEF StopRamp, RetryFault, memoryVars
<1> QED
  BY <1>1, <1>2, <1>5, <1>6, <1>7, <1>8, <1>10, <1>11, <1>12, <1>13 DEF Panel

\* The branches of the state machine that keep the run.
LEMMA MachineMemory ==
  ASSUME Control, Memory, Machine, run # NoRun, run' # NoRun
  PROVE  Memory'
<1> USE DEF runVars, recordVars
<1>1. pc = "machine"
  BY DEF Machine, MachineRaises, StepRefused, Idle, Initiating, RampInProgress, ManualRampDone,
     EnterGate, WaitAtSetpoint, WaitOver, RampingBranch, GateCut, GatePending, GatesPass,
     GateStep, Measure, PauseAfterPoint, NextPoint, LastPoint, Sweep, StandbyRamping,
     DispatchStandby, FinishProcedure, FinishOperationNow, Rest, MachineStep
<1>2. Remembered /\ run \in Runs /\ Phase \in RunStates
  BY <1>1 DEF Memory, Control
<1>3. ASSUME Remembered' PROVE Memory'
  BY <1>3 DEF Memory
<1>4. CASE Idle \/ ManualRampDone
  BY <1>2, <1>4 DEF Idle, ManualRampDone, Phase, RunStates, GateStates
<1>5. CASE Initiating \/ RampInProgress \/ WaitAtSetpoint \/ WaitOver
  BY <1>2, <1>3, <1>5
     DEF Initiating, RampInProgress, WaitAtSetpoint, WaitOver, RampingBranch, MachineStep,
         StayInRun, Keep, Remembered, Phase, GateStates, HasGates
<1>6. CASE EnterGate
  BY <1>2, <1>3, <1>6
     DEF EnterGate, RampingBranch, StayInRun, Remembered, Phase, GateStates
<1>7. CASE GateCut \/ GatePending \/ GatesPass
  BY <1>2, <1>3, <1>7
     DEF GateCut, GatePending, GatesPass, GateStep, StayInRun, Remembered, Phase, GateStates,
         HasGates
<1>8. CASE Measure \/ StandbyRamping
  BY <1>2, <1>3, <1>8
     DEF Measure, StandbyRamping, StayInRun, Keep, Remembered, Phase, GateStates
<1>9. CASE PauseAfterPoint
  <2>1. Phase' = Phase
    BY <1>9 DEF PauseAfterPoint, Sweep, EnterPaused, Phase
  <2> QED
    BY <1>1, <1>9, <2>1, MemoryOfPhase DEF PauseAfterPoint, Sweep, Keep
<1>10. CASE NextPoint
  BY <1>2, <1>3, <1>10 DEF NextPoint, Sweep, Keep, Remembered, Phase, GateStates
<1>11. CASE LastPoint
  BY <1>2, <1>3, <1>11 DEF LastPoint, Sweep, Keep, Remembered, Phase, GateStates
<1>12. CASE DispatchStandby
  <2>1. StandbyTargets[run] \subseteq InitTargets[run]
    BY <1>2, <1>12, RunsAssumption DEF DispatchStandby, OperationActive, Runs
  <2> QED
    BY <1>2, <1>3, <1>12, <2>1
       DEF DispatchStandby, Keep, Remembered, Phase, GateStates
<1>13. CASE Rest
  BY <1>1, <1>13, MemoryUnchanged DEF Rest, memoryVars
<1>14. CASE MachineRaises \/ StepRefused \/ FinishProcedure \/ FinishOperationNow
  BY <1>14 DEF MachineRaises, StepRefused, FailToError, AbortActive, FinishProcedure,
               FinishOperationNow, FinishRun, ClearRun
<1> QED
  BY <1>4, <1>5, <1>6, <1>7, <1>8, <1>9, <1>10, <1>11, <1>12, <1>13, <1>14 DEF Machine

LEMMA TickMemory == Control /\ Memory /\ (RunQueue \/ TickStart \/ Continue) => Memory'
<1> SUFFICES ASSUME Control, Memory, RunQueue \/ TickStart \/ Continue PROVE Memory'
  OBVIOUS
<1> USE DEF runVars
<1>1. CASE RunQueue
  <2>1. ASSUME NEW r, BeginRun(r, FALSE) PROVE Memory'
    BY <2>1, NothingToRemember DEF BeginRun
  <2>2. CASE Blocked
    BY <1>1, <2>2, MemoryUnchanged DEF RunQueue, Blocked, memoryVars
  <2> QED
    BY <1>1, <2>1, <2>2 DEF RunQueue
<1>2. CASE StartRun
  BY <1>2 DEF StartRun, Memory, Remembered, Phase, GateStates
<1>3. CASE StartRunRaises \/ StartRunRefused \/ PollRaises \/ EnterEmergency \/ FailRunForFault
  BY <1>3, NothingToRemember
     DEF StartRunRaises, StartRunRefused, PollRaises, EnterEmergency, FailRunForFault,
         FailToError, AbortActive, ClearRun
<1>4. CASE Poll \/ TickUnmonitored \/ EnforceHolds \/ DrainOne \/ Drained
  BY <1>4, MemoryUnchanged
     DEF Poll, TickUnmonitored, EnforceHolds, DrainOne, Drained, memoryVars
<1>5. CASE Machine
  <2>1. CASE run # NoRun
    BY <1>5, <2>1, MachineMemory, NothingToRemember
  <2>2. CASE run = NoRun
    <3>1. run' = NoRun
      BY <1>5, <2>2 DEF Machine, MachineRaises, StepRefused, FailToError, AbortActive, Idle,
         Initiating, RampInProgress, ManualRampDone, EnterGate, WaitAtSetpoint, WaitOver,
         GateCut, GatePending, GatesPass, GateStep, Measure, PauseAfterPoint, NextPoint,
         LastPoint, Sweep, StandbyRamping, DispatchStandby, FinishProcedure,
         FinishOperationNow, FinishRun, ClearRun, Rest, StayInRun
    <3> QED
      BY <3>1, NothingToRemember
  <2> QED
    BY <2>1, <2>2
<1> QED
  BY <1>1, <1>2, <1>3, <1>4, <1>5 DEF TickStart, Continue

LEMMA MemoryCorrect == Spec => []Memory
<1>1. Init => Memory
  BY DEF Init, Memory
<1>2. Control /\ Memory /\ [Next]_vars => Memory'
  <2>1. Memory /\ UNCHANGED vars => Memory'
    BY DEF Memory, Remembered, Phase, HasGates, vars, runVars
  <2> QED
    BY <2>1, PanelMemory, TickMemory DEF Next
<1> QED
  BY <1>1, <1>2, ControlCorrect, PTL DEF Spec

\* What a run remembers agrees with the phase it is in, across every pause: the gates,
\* the settle timer, the standby plan and the targets resume_procedure() sends again.
THEOREM RunMemoryHolds == Spec => []RunMemory
<1>1. Memory => RunMemory
  BY DEF Memory, Remembered, RunMemory
<1> QED
  BY <1>1, MemoryCorrect, PTL

-----------------------------------------------------------------------------
(* The life of a run: every step of Orchestrator is one of RunLifecycle, or  *)
(* leaves phase, owner and verdict alone.                                    *)

LifecycleStep == Lifecycle!Next \/ UNCHANGED Lifecycle!vars

RestingStates == {"PAUSED", "ERROR", "EMERGENCY"}

\* An open run is active or paused, a closed one leaves the machine anywhere else.
LEMMA OpenIsRecorded ==
  ASSUME Control
  PROVE  /\ Lifecycle!Open <=> manifest # NoRun
         /\ manifest # NoRun => run = manifest /\ run \in Runs /\ pc # "start"
         /\ st = "PAUSED" => LifecyclePhase = "paused"
         /\ st = "ERROR" => LifecyclePhase = "error"
         /\ st = "EMERGENCY" => LifecyclePhase = "emergency"
         /\ st \notin RestingStates /\ manifest # NoRun => LifecyclePhase = "active"
         /\ st \notin RestingStates /\ manifest = NoRun => LifecyclePhase = "idle"
<1>1. /\ st = "PAUSED" => LifecyclePhase = "paused"
      /\ st = "ERROR" => LifecyclePhase = "error"
      /\ st = "EMERGENCY" => LifecyclePhase = "emergency"
      /\ st \notin RestingStates /\ manifest # NoRun => LifecyclePhase = "active"
      /\ st \notin RestingStates /\ manifest = NoRun => LifecyclePhase = "idle"
  BY DEF LifecyclePhase, RestingStates
<1>2. manifest # NoRun => run = manifest /\ run \in Runs /\ pc # "start" /\ Phase \in RunStates
  BY DEF Control
<1>3. manifest # NoRun => st \notin {"ERROR", "EMERGENCY"}
  BY <1>2 DEF Phase, RunStates, GateStates
<1>4. manifest = NoRun => st # "PAUSED"
  BY DEF Control
<1> QED
  BY <1>1, <1>2, <1>3, <1>4 DEF Lifecycle!Open, RestingStates

\* A step that changes no record, and neither enters nor leaves a resting state.
LEMMA LifecycleStutters ==
  ASSUME UNCHANGED recordVars,
         st' = st \/ (st \notin RestingStates /\ st' \notin RestingStates)
  PROVE  LifecycleStep
<1>1. LifecyclePhase' = LifecyclePhase
  BY DEF LifecyclePhase, RestingStates, recordVars
<1> QED
  BY <1>1 DEF LifecycleStep, Lifecycle!vars, recordVars

\* The phase behind the end of a run.
LEMMA PhaseBehindEnd ==
  ASSUME manifest' = NoRun
  PROVE  /\ st' = "IDLE" => LifecyclePhase' = "idle"
         /\ st' = "ERROR" => LifecyclePhase' = "error"
         /\ st' = "EMERGENCY" => LifecyclePhase' = "emergency"
  BY DEF LifecyclePhase

\* A failure closes the open run as failed, and opens nothing.
LEMMA FailureIsAbstract ==
  ASSUME Control, EmitRunFinished("failed"),
         st' \in {"ERROR", "EMERGENCY"}
  PROVE  LifecycleStep
<1>1. LifecyclePhase' = IF st' = "ERROR" THEN "error" ELSE "emergency"
  BY PhaseBehindEnd DEF EmitRunFinished
<1>2. CASE manifest # NoRun
  <2>1. Lifecycle!Close("failed", LifecyclePhase')
    BY <1>2, OpenIsRecorded DEF EmitRunFinished, Lifecycle!Close
  <2> QED
    BY <1>1, <2>1 DEF LifecycleStep, Lifecycle!Next, Lifecycle!Fail
<1>3. CASE manifest = NoRun
  <2>1. ~Lifecycle!Open /\ UNCHANGED <<manifest, outcome>>
    BY <1>3, OpenIsRecorded DEF EmitRunFinished
  <2> QED
    BY <1>1, <2>1 DEF LifecycleStep, Lifecycle!Next, Lifecycle!Fail
<1> QED
  BY <1>2, <1>3

LEMMA PanelLifecycle == Control /\ (Panel \/ Expire) => LifecycleStep
<1> SUFFICES ASSUME Control, Panel \/ Expire PROVE LifecycleStep
  OBVIOUS
<1> USE DEF runVars
<1>1. CASE StartMonitoring \/ StopMonitoring \/ FinishOperation \/ SkipOperationStep
           \/ ResumeRaises \/ Expire
  BY <1>1, LifecycleStutters
     DEF StartMonitoring, StopMonitoring, FinishOperation, SkipOperationStep, ResumeRaises,
         Expire
<1>2. CASE RecoverFromError \/ Acknowledge
  <2>1. CASE st' = st
    BY <1>2, <2>1, LifecycleStutters DEF RecoverFromError, Acknowledge
  <2>2. CASE st' = "IDLE" /\ st \in {"ERROR", "EMERGENCY"}
    <3>1. LifecyclePhase \in {"error", "emergency"} /\ manifest = NoRun
      BY <2>2, OpenIsRecorded DEF Lifecycle!Open
    <3>2. UNCHANGED <<manifest, outcome>>
      BY <1>2 DEF RecoverFromError, Acknowledge, recordVars
    <3>3. LifecyclePhase' = "idle"
      BY <2>2, <3>1, <3>2, PhaseBehindEnd
    <3> QED
      BY <3>1, <3>2, <3>3 DEF LifecycleStep, Lifecycle!Next, Lifecycle!BackToIdle
  <2> QED
    BY <1>2, <2>1, <2>2 DEF RecoverFromError, Acknowledge
<1>3. ASSUME NEW r, NEW started, BeginRun(r, started) PROVE LifecycleStep
  BY <1>3, LifecycleStutters DEF BeginRun
<1>4. ASSUME Blocked PROVE LifecycleStep
  BY <1>4, LifecycleStutters DEF Blocked
<1>5. ASSUME NEW p \in Procedures, RunProcedure(p) \/ QueueProcedure(p) PROVE LifecycleStep
  BY <1>3, <1>4, <1>5 DEF RunProcedure, QueueProcedure
<1>6. ASSUME NEW o \in Operations, RunOperation(o) \/ QueueOperation(o) PROVE LifecycleStep
  BY <1>3, <1>4, <1>6 DEF RunOperation, QueueOperation
<1>7. CASE PauseProcedure
  <2>1. CASE st' = st
    BY <1>7, <2>1, LifecycleStutters DEF PauseProcedure
  <2>2. CASE st' = "PAUSED" /\ st \notin RestingStates
    <3>1. manifest # NoRun /\ UNCHANGED <<manifest, outcome>>
      BY <1>7 DEF PauseProcedure, Control, recordVars
    <3>2. LifecyclePhase = "active"
      BY <2>2, <3>1, OpenIsRecorded
    <3>3. LifecyclePhase' = "paused"
      BY <2>2 DEF LifecyclePhase
    <3> QED
      BY <3>1, <3>2, <3>3 DEF LifecycleStep, Lifecycle!Next, Lifecycle!Pause
  <2> QED
    BY <1>7, <2>1, <2>2 DEF PauseProcedure, EnterPaused, GateStates, RestingStates
<1>8. CASE ResumeProcedure
  <2>1. CASE st' = st
    BY <1>8, <2>1, LifecycleStutters DEF ResumeProcedure
  <2>2. CASE st = "PAUSED" /\ st' = prePause
    <3>1. manifest # NoRun /\ prePause \notin RestingStates
      BY <1>8, <2>2 DEF ResumeProcedure, Control, Phase, RunStates, GateStates, RestingStates
    <3>2. UNCHANGED <<manifest, outcome>>
      BY <1>8 DEF ResumeProcedure, recordVars
    <3>3. LifecyclePhase = "paused" /\ LifecyclePhase' = "active"
      BY <2>2, <3>1, <3>2 DEF LifecyclePhase, RestingStates
    <3> QED
      BY <3>2, <3>3 DEF LifecycleStep, Lifecycle!Next, Lifecycle!Resume
  <2> QED
    BY <1>8, <2>1, <2>2 DEF ResumeProcedure
<1>9. ASSUME Abort, st # "EMERGENCY" PROVE LifecycleStep
  <2>1. manifest' = NoRun /\ outcome' = (IF manifest = NoRun THEN outcome ELSE "aborted")
    BY <1>9 DEF Abort, AbortActive, EmitRunFinished
  <2>2. LifecyclePhase' = "idle"
    BY <1>9, <2>1, PhaseBehindEnd DEF Abort
  <2>3. CASE manifest # NoRun
    <3>1. Lifecycle!Close("aborted", "idle")
      BY <2>1, <2>2, <2>3, OpenIsRecorded DEF Lifecycle!Close
    <3> QED
      BY <3>1 DEF LifecycleStep, Lifecycle!Next, Lifecycle!Abort
  <2>4. CASE manifest = NoRun
    <3>1. LifecyclePhase \in {"idle", "error"}
      BY <1>9, <2>4, OpenIsRecorded DEF Lifecycle!Open, RestingStates
    <3> QED
      BY <2>1, <2>2, <2>4, <3>1
         DEF LifecycleStep, Lifecycle!Next, Lifecycle!BackToIdle, Lifecycle!vars
  <2> QED
    BY <2>3, <2>4
<1>10. CASE AbortProcedure
  BY <1>9, <1>10 DEF AbortProcedure
<1>11. ASSUME NEW v \in VIs, NEW act \in Manual, SubmitViAction(v, act) PROVE LifecycleStep
  BY <1>11, LifecycleStutters DEF SubmitViAction
<1>12. ASSUME NEW act \in Manual, SubmitGlobalAction(act) PROVE LifecycleStep
  BY <1>9, <1>12, LifecycleStutters DEF SubmitGlobalAction
<1>13. ASSUME NEW v \in VIs, StopRamp(v) \/ RetryFault(v) PROVE LifecycleStep
  BY <1>13, LifecycleStutters DEF StopRamp, RetryFault
<1> QED
  BY <1>1, <1>2, <1>5, <1>6, <1>7, <1>8, <1>10, <1>11, <1>12, <1>13 DEF Panel

LEMMA MachineLifecycle == Control /\ Machine => LifecycleStep
<1> SUFFICES ASSUME Control, Machine PROVE LifecycleStep
  OBVIOUS
<1>1. CASE MachineRaises \/ StepRefused
  BY <1>1, FailureIsAbstract DEF MachineRaises, StepRefused, FailToError, AbortActive
<1>2. CASE \/ Idle \/ Initiating \/ RampInProgress \/ ManualRampDone \/ EnterGate
           \/ WaitAtSetpoint \/ WaitOver \/ GateCut \/ GatePending \/ GatesPass \/ Measure
           \/ StandbyRamping
  <2>1. UNCHANGED recordVars
    BY <1>2 DEF Idle, Initiating, RampInProgress, ManualRampDone, EnterGate, WaitAtSetpoint,
         WaitOver, GateCut, GatePending, GatesPass, GateStep, Measure, StandbyRamping,
         StayInRun
  <2>2. st \notin RestingStates /\ st' \notin RestingStates
    BY <1>2 DEF Idle, Initiating, RampInProgress, ManualRampDone, EnterGate, WaitAtSetpoint,
         WaitOver, RampingBranch, GateCut, GatePending, GatesPass, GateStep, GateStates,
         Measure, StandbyRamping, RestingStates
  <2> QED
    BY <2>1, <2>2, LifecycleStutters
<1>3. CASE NextPoint \/ LastPoint \/ DispatchStandby \/ Rest
  <2>1. UNCHANGED recordVars
    BY <1>3 DEF NextPoint, LastPoint, Sweep, DispatchStandby, Rest
  <2>2. st' = st \/ (st = "SWEEPING" /\ st' \in {"RAMPING", "STANDBY"})
    BY <1>3 DEF NextPoint, LastPoint, Sweep, DispatchStandby, Rest
  <2> QED
    BY <2>1, <2>2, LifecycleStutters DEF RestingStates
<1>4. CASE PauseAfterPoint
  <2>1. st = "SWEEPING" /\ st' = "PAUSED" /\ UNCHANGED <<manifest, outcome>>
    BY <1>4 DEF PauseAfterPoint, Sweep, EnterPaused, recordVars
  <2>2. manifest # NoRun
    BY <2>1 DEF Control
  <2>3. LifecyclePhase = "active" /\ LifecyclePhase' = "paused"
    BY <2>1, <2>2 DEF LifecyclePhase
  <2> QED
    BY <2>1, <2>3 DEF LifecycleStep, Lifecycle!Next, Lifecycle!Pause
<1>5. CASE FinishProcedure \/ FinishOperationNow
  <2>1. st = "STANDBY" /\ FinishRun
    BY <1>5 DEF FinishProcedure, FinishOperationNow
  <2>2. manifest = run /\ manifest # NoRun /\ LifecyclePhase = "active"
    BY <2>1 DEF Control, LifecyclePhase
  <2>3. manifest' = NoRun /\ outcome' = "done" /\ st' = OperationEndState
    BY <2>1, <2>2 DEF FinishRun, EmitRunFinished
  <2>4. CASE OperationEndState = "IDLE"
    BY <2>2, <2>3, <2>4, PhaseBehindEnd
       DEF LifecycleStep, Lifecycle!Next, Lifecycle!Done, Lifecycle!Close, Lifecycle!Open
  <2>5. CASE OperationEndState = "EMERGENCY" /\ run \in Operations
    BY <2>2, <2>3, <2>5, PhaseBehindEnd
       DEF LifecycleStep, Lifecycle!Next, Lifecycle!Done, Lifecycle!Close, Lifecycle!Open
  <2> QED
    BY <2>4, <2>5 DEF OperationEndState, OperationActive
<1> QED
  BY <1>1, <1>2, <1>3, <1>4, <1>5 DEF Machine

LEMMA TickLifecycle == Control /\ (RunQueue \/ TickStart \/ Continue) => LifecycleStep
<1> SUFFICES ASSUME Control, RunQueue \/ TickStart \/ Continue PROVE LifecycleStep
  OBVIOUS
<1>1. CASE RunQueue
  BY <1>1, LifecycleStutters DEF RunQueue, BeginRun, Blocked
<1>2. CASE StartRun
  <2>1. /\ run \in Runs /\ manifest = NoRun
        /\ st \in {"IDLE", "RAMPING", "EMERGENCY"}
        /\ st = "EMERGENCY" => run \in Operations
    BY <1>2 DEF StartRun, Control
  <2>2. manifest' = run /\ st' = "INITIATING" /\ outcome' = outcome /\ run # NoRun
    BY <1>2, <2>1, RunsAssumption DEF StartRun
  <2>3. LifecyclePhase' = "active"
    BY <2>2 DEF LifecyclePhase
  <2>4. LifecyclePhase = "idle" \/ (LifecyclePhase = "emergency" /\ run \in Operations)
    BY <2>1 DEF LifecyclePhase
  <2>5. Lifecycle!Begin(run)
    BY <2>2, <2>3, <2>4 DEF Lifecycle!Begin
  <2> QED
    BY <2>1, <2>5 DEF LifecycleStep, Lifecycle!Next, Runs
<1>3. CASE StartRunRaises \/ StartRunRefused \/ PollRaises \/ EnterEmergency
  BY <1>3, FailureIsAbstract
     DEF StartRunRaises, StartRunRefused, PollRaises, EnterEmergency, FailToError, AbortActive
<1>4. CASE FailRunForFault
  <2>1. st \notin RestingStates /\ st' = "IDLE" /\ EmitRunFinished("failed")
    BY <1>4 DEF FailRunForFault, FailsRun, RunActive, RestingStates, AbortActive
  <2>2. LifecyclePhase' = "idle"
    BY <2>1, PhaseBehindEnd DEF EmitRunFinished
  <2>3. CASE manifest # NoRun
    <3>1. LifecyclePhase = "active" /\ Lifecycle!Close("failed", "idle")
      BY <2>1, <2>2, <2>3, OpenIsRecorded DEF Lifecycle!Close, EmitRunFinished
    <3> QED
      BY <3>1 DEF LifecycleStep, Lifecycle!Next, Lifecycle!FaultEndsRun
  <2>4. CASE manifest = NoRun
    <3>1. UNCHANGED recordVars
      BY <2>1, <2>4 DEF EmitRunFinished, recordVars
    <3> QED
      BY <2>1, <3>1, LifecycleStutters DEF RestingStates
  <2> QED
    BY <2>3, <2>4
<1>5. CASE Poll \/ TickUnmonitored \/ EnforceHolds \/ DrainOne \/ Drained
  BY <1>5, LifecycleStutters DEF Poll, TickUnmonitored, EnforceHolds, DrainOne, Drained
<1>6. CASE Machine
  BY <1>6, MachineLifecycle
<1> QED
  BY <1>1, <1>2, <1>3, <1>4, <1>5, <1>6 DEF TickStart, Continue

\* The run_started and run_finished signals follow the life of a run: Orchestrator
\* implements RunLifecycle (whatever ends a run closes its record exactly once).
THEOREM ImplementsLifecycle == Spec => LifecycleSpec
<1>1. Init => Lifecycle!Init
  BY DEF Init, Lifecycle!Init, LifecyclePhase
<1>2. Control /\ [Next]_vars => [Lifecycle!Next]_Lifecycle!vars
  <2>1. UNCHANGED vars => LifecycleStep
    BY LifecycleStutters DEF vars
  <2>2. Control /\ [Next]_vars => LifecycleStep
    BY <2>1, PanelLifecycle, TickLifecycle DEF Next
  <2> QED
    BY <2>2 DEF LifecycleStep
<1> QED
  BY <1>1, <1>2, ControlCorrect, PTL DEF Spec, LifecycleSpec, Lifecycle!Spec

-----------------------------------------------------------------------------
(* What the panel and the end of a run may touch.                           *)

\* A VI the run claims and no fault holds is admissible for nobody else.
LEMMA ClaimedIsInadmissible ==
  ASSUME Control, pc # "start", NEW v, Claimed(v), ~Held(v)
  PROVE  ~Admissible(v)
<1>1. run # NoRun /\ Phase \in RunStates
  BY DEF Claimed, Control
<1>2. st \notin {"IDLE", "EMERGENCY"}
  BY <1>1 DEF Phase, RunStates, GateStates
<1> QED
  BY <1>1, <1>2 DEF Admissible, ManualRamp

\* Neither the ramp nor the standby of v is touched.
Untouched(v) == (v \in ramping <=> v \in ramping') /\ (v \in parked <=> v \in parked')

LEMMA UnchangedUntouched == ASSUME NEW v, UNCHANGED hwVars PROVE Untouched(v)
  BY DEF Untouched, hwVars

LEMMA OthersUntouched ==
  ASSUME NEW v, NEW w, v # w,
         \/ StartRamps({w})
         \/ StopRamps({w}, ramping)
         \/ \E fail \in SUBSET ({w} \cap Unreliable) : Standby({w}, ramping, parked, fail)
  PROVE  Untouched(v)
  BY DEF StartRamps, StopRamps, Standby, Untouched

LEMMA DrainTouchesNoClaim ==
  ASSUME Control, Next, pc = "drain", NEW v, Claimed(v), ~Held(v)
  PROVE  Untouched(v)
<1>1. DrainOne \/ Drained
  BY DEF Next, Panel, StartMonitoring, StopMonitoring, RunProcedure, QueueProcedure,
     RunOperation, QueueOperation, PauseProcedure, ResumeProcedure, ResumeRaises,
     AbortProcedure, FinishOperation, SkipOperationStep, RecoverFromError, Acknowledge,
     SubmitViAction, SubmitGlobalAction, StopRamp, RetryFault, RunQueue, Expire, TickStart,
     Poll, PollRaises, TickUnmonitored, Continue, StartRun, StartRunRaises, StartRunRefused,
     EnterEmergency, EnforceHolds, FailRunForFault, Machine, MachineRaises, StepRefused, Idle,
     Initiating, RampInProgress, ManualRampDone, EnterGate, WaitAtSetpoint, WaitOver,
     RampingBranch, GateCut, GatePending, GatesPass, GateStep, Measure, PauseAfterPoint,
     NextPoint, LastPoint, Sweep, StandbyRamping, DispatchStandby, FinishProcedure,
     FinishOperationNow, Rest, MachineStep
<1>2. CASE Drained
  BY <1>2, UnchangedUntouched DEF Drained
<1>3. CASE DrainOne
  <2> DEFINE w == Head(guiQueue).vi
  <2>1. CASE ~Admissible(w)
    BY <1>3, <2>1, UnchangedUntouched DEF DrainOne
  <2>2. CASE Admissible(w)
    <3>1. v # w
      BY <2>2, ClaimedIsInadmissible
    <3>2. Execute(w, Head(guiQueue).act)
      BY <1>3, <2>2 DEF DrainOne
    <3> QED
      BY <3>1, <3>2, OthersUntouched, UnchangedUntouched DEF Execute, Untouched
  <2> QED
    BY <2>1, <2>2
<1> QED
  BY <1>1, <1>2, <1>3

LEMMA PanelTouchesNoClaim ==
  ASSUME Control, Next, pc = "loop", pc' = "loop", st' = st, st # "PAUSED",
         NEW v, Claimed(v), ~Held(v)
  PROVE  Untouched(v)
<1> USE UnchangedUntouched
<1>0. run # NoRun /\ st \notin {"ERROR", "EMERGENCY"}
  BY DEF Claimed, Control, Phase, RunStates, GateStates
<1>1. CASE \/ StartMonitoring \/ StopMonitoring \/ FinishOperation \/ SkipOperationStep
           \/ RecoverFromError \/ Acknowledge \/ Expire
  BY <1>1 DEF StartMonitoring, StopMonitoring, FinishOperation, SkipOperationStep,
              RecoverFromError, Acknowledge, Expire
<1>2. ASSUME NEW p \in Procedures, RunProcedure(p) \/ QueueProcedure(p) PROVE Untouched(v)
  BY <1>2 DEF RunProcedure, QueueProcedure, BeginRun, Blocked
<1>3. ASSUME NEW o \in Operations, RunOperation(o) \/ QueueOperation(o) PROVE Untouched(v)
  BY <1>3 DEF RunOperation, QueueOperation, BeginRun, Blocked
<1>4. CASE RunQueue
  BY <1>4 DEF RunQueue, BeginRun, Blocked
<1>5. CASE PauseProcedure \/ ResumeProcedure \/ ResumeRaises \/ AbortProcedure
  BY <1>5 DEF PauseProcedure, EnterPaused, ResumeProcedure, ResumeRaises, AbortProcedure, Abort
<1>6. ASSUME NEW w \in VIs, NEW act \in Manual, SubmitViAction(w, act) PROVE Untouched(v)
  BY <1>6 DEF SubmitViAction
<1>7. ASSUME NEW act \in Manual, SubmitGlobalAction(act) PROVE Untouched(v)
  BY <1>7 DEF SubmitGlobalAction, Abort
<1>8. ASSUME NEW w \in VIs, StopRamp(w) PROVE Untouched(v)
  <2>1. v # w
    BY <1>8, ClaimedIsInadmissible DEF StopRamp
  <2> QED
    BY <1>8, <2>1, OthersUntouched DEF StopRamp
<1>9. ASSUME NEW w \in VIs, RetryFault(w) PROVE Untouched(v)
  <2>1. CASE comm[w] = "disconnected"
    <3>1. v # w
      BY <2>1 DEF Held
    <3> QED
      BY <1>9, <2>1, <3>1 DEF RetryFault, Untouched
  <2>2. CASE comm[w] # "disconnected"
    BY <1>9, <2>2 DEF RetryFault
  <2> QED
    BY <2>1, <2>2
<1>10. CASE TickStart
  BY <1>0, <1>10 DEF TickStart, Poll, PollRaises, FailToError, TickUnmonitored
<1>11. ~Continue \/ RunQueue
  BY DEF Continue, StartRun, StartRunRaises, StartRunRefused, EnterEmergency, EnforceHolds,
     FailRunForFault, DrainOne, Drained, Machine, MachineRaises, StepRefused, Idle,
     Initiating, RampInProgress, ManualRampDone, EnterGate, WaitAtSetpoint, WaitOver,
     RampingBranch, GateCut, GatePending, GatesPass, GateStep, Measure, PauseAfterPoint,
     NextPoint, LastPoint, Sweep, StandbyRamping, DispatchStandby, FinishProcedure,
     FinishOperationNow, Rest, MachineStep
<1> QED
  BY <1>1, <1>2, <1>3, <1>4, <1>5, <1>6, <1>7, <1>8, <1>9, <1>10, <1>11 DEF Next, Panel

\* A manual action or a panel call never touches a VI the run claims: the re-check of
\* the drain (_drain_gui_actions()) and the admission of stop_ramp() and retry_fault().
THEOREM ClaimedVIUntouchedHolds == Spec => ClaimedVIUntouched
<1>1. Control /\ [Next]_vars =>
        \/ UNCHANGED vars
        \/ \A v \in VIs :
             /\ Claimed(v) /\ ~Held(v)
             /\ pc = "drain" \/ (pc = "loop" /\ pc' = "loop" /\ st' = st /\ st # "PAUSED")
             => (v \in ramping <=> v \in ramping') /\ (v \in parked <=> v \in parked')
  BY DrainTouchesNoClaim, PanelTouchesNoClaim DEF Untouched
<1> QED
  BY <1>1, ControlCorrect, PTL DEF Spec, ClaimedVIUntouched

\* What leaves a run: it stops the ramps of the run, on a panel call nothing else.
ScopeKept ==
  /\ ramping' \cap activeVis = {}
  /\ pc = "loop" => /\ ramping \ activeVis = ramping' \ activeVis
                    /\ parked \ activeVis = parked' \ activeVis

LEMMA StopRampsKeepsScope ==
  ASSUME run # NoRun, StopRamps(RunRampScope, ramping)
  PROVE  ScopeKept
  BY DEF StopRamps, RunRampScope, ScopeKept

LEMMA RunStaysOrScopeKept ==
  ASSUME Control, Next, run # NoRun, pc # "start", st' # "EMERGENCY",
         \/ run' = NoRun /\ outcome' # "done"
         \/ st' = "PAUSED" /\ st # "PAUSED"
  PROVE  ScopeKept
<1> USE DEF runVars
<1>0. manifest = run
  BY DEF Control
<1>1. CASE PauseProcedure
  BY <1>1, StopRampsKeepsScope DEF PauseProcedure, EnterPaused
<1>2. CASE AbortProcedure \/ PollRaises
  BY <1>2, StopRampsKeepsScope DEF AbortProcedure, Abort, PollRaises, FailToError
<1>3. ASSUME NEW act \in Manual, SubmitGlobalAction(act) PROVE ScopeKept
  BY <1>3, StopRampsKeepsScope DEF SubmitGlobalAction, Abort
<1>4. CASE FailRunForFault
  BY <1>4 DEF FailRunForFault, EnforceSafetyHolds, RunRampScope, ScopeKept
<1>5. CASE MachineRaises \/ StepRefused
  BY <1>5 DEF MachineRaises, StepRefused, MachineStep, FailToError, StopRamps, RunRampScope,
              ScopeKept
<1>6. CASE PauseAfterPoint
  BY <1>6 DEF PauseAfterPoint, Sweep, MachineStep, StopRamps, RunRampScope, ScopeKept
<1>7. CASE FinishProcedure \/ FinishOperationNow
  <2>1. outcome' = "done" /\ st' # "PAUSED"
    BY <1>0, <1>7
       DEF FinishProcedure, FinishOperationNow, FinishRun, EmitRunFinished, OperationEndState
  <2> QED
    BY <2>1
<1>8. CASE StartRun \/ StartRunRaises \/ StartRunRefused \/ EnterEmergency
  BY <1>8 DEF StartRun, StartRunRaises, StartRunRefused, EnterEmergency
<1>9. ASSUME NEW r \in Runs, NEW started, BeginRun(r, started) PROVE ScopeKept
  BY <1>9, RunsAssumption DEF BeginRun
<1>10. ASSUME Blocked PROVE ScopeKept
  BY <1>10 DEF Blocked
<1>11. CASE RunQueue
  <2>1. /\ opQueue # <<>> => Head(opQueue) \in Runs
        /\ procQueue # <<>> => Head(procQueue) \in Runs
    BY DEF Control, Runs
  <2> QED
    BY <1>9, <1>10, <1>11, <2>1 DEF RunQueue
<1>12. ASSUME NEW p \in Procedures, RunProcedure(p) \/ QueueProcedure(p) PROVE ScopeKept
  BY <1>9, <1>10, <1>12 DEF RunProcedure, QueueProcedure, Runs
<1>13. ASSUME NEW o \in Operations, RunOperation(o) \/ QueueOperation(o) PROVE ScopeKept
  BY <1>9, <1>10, <1>13 DEF RunOperation, QueueOperation, Runs
<1>14. CASE ResumeProcedure
  <2>1. st = "PAUSED" => prePause # "PAUSED"
    BY <1>14 DEF ResumeProcedure, Control, Phase, RunStates, GateStates
  <2> QED
    BY <1>14, <2>1 DEF ResumeProcedure
<1>15. CASE \/ StartMonitoring \/ StopMonitoring \/ FinishOperation \/ SkipOperationStep
            \/ RecoverFromError \/ Acknowledge \/ Expire \/ ResumeRaises
  BY <1>15 DEF StartMonitoring, StopMonitoring, FinishOperation, SkipOperationStep,
               RecoverFromError, Acknowledge, Expire, ResumeRaises
<1>16. ASSUME NEW v \in VIs, \/ StopRamp(v) \/ RetryFault(v)
                             \/ \E act \in Manual : SubmitViAction(v, act)
       PROVE  ScopeKept
  BY <1>16 DEF StopRamp, RetryFault, SubmitViAction
<1>17. CASE Poll \/ TickUnmonitored \/ EnforceHolds \/ DrainOne \/ Drained
  BY <1>17 DEF Poll, TickUnmonitored, EnforceHolds, DrainOne, Drained
<1>18. CASE \/ Idle \/ Initiating \/ RampInProgress \/ ManualRampDone \/ EnterGate
            \/ WaitAtSetpoint \/ WaitOver \/ GateCut \/ GatePending \/ GatesPass \/ Measure
            \/ NextPoint \/ LastPoint \/ StandbyRamping \/ DispatchStandby \/ Rest
  BY <1>18 DEF Idle, Initiating, RampInProgress, ManualRampDone, EnterGate, WaitAtSetpoint,
       WaitOver, GateCut, GatePending, GatesPass, GateStep, Measure, NextPoint,
       LastPoint, Sweep, StandbyRamping, DispatchStandby, Rest, StayInRun
<1> QED
  BY <1>1, <1>2, <1>3, <1>4, <1>5, <1>6, <1>7, <1>8, <1>11, <1>12, <1>13, <1>14, <1>15,
     <1>16, <1>17, <1>18 DEF Next, Panel, TickStart, Continue, Machine

\* Pausing, failing or aborting a run stops its ramps, on a panel call no other (the
\* ramp-scope standard of _run_ramp_scope()).
THEOREM RampScopeRespectedHolds == Spec => RampScopeRespected
<1>1. Control /\ [Next]_vars =>
        \/ UNCHANGED vars
        \/ (/\ run # NoRun /\ pc # "start" /\ st' # "EMERGENCY"
            /\ \/ run' = NoRun /\ outcome' # "done"
               \/ st' = "PAUSED" /\ st # "PAUSED") =>
             /\ ramping' \cap activeVis = {}
             /\ pc = "loop" => /\ ramping \ activeVis = ramping' \ activeVis
                               /\ parked \ activeVis = parked' \ activeVis
  BY RunStaysOrScopeKept DEF ScopeKept
<1> QED
  BY <1>1, ControlCorrect, PTL DEF Spec, RampScopeRespected

=============================================================================
