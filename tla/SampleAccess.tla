----------------------------- MODULE SampleAccess -----------------------------
(***************************************************************************)
(* Sample load and unload, which share _SampleAccessOperationBase: the VTI *)
(* is warmed, the operator confirms or skips steps, and the run ends when  *)
(* it is asked to.  The temperature counts up to its target.               *)
(***************************************************************************)
EXTENDS OperationRecords, Integers

CONSTANTS
  StepOrder,         \* steps(): the keys in order
  RampStep,          \* the one that is an auto_ramp
  WarmTarget,        \* target_temperature_K, in steps of the ramp
  AccessSamples      \* the longest recording explored

VARIABLES
  saPhase,           \* "off" "ramping" "sampling" "ended" "aborted"
  saRecords,         \* _step_records: key -> pending, done or skipped
  saSkipRamp,        \* skip_ramp_requested
  saTemp, saCached,  \* the temperature, and as last polled
  saRamping,         \* the ramp of the VTI goes on
  saShort,           \* the run went on with a ramp that had not arrived
  saUnmet,           \* postconditions_unmet of the manifest
  saRecording

saVars == <<saPhase, saRecords, saSkipRamp, saTemp, saCached, saRamping, saShort, saUnmet, saRecording>>

StepKeys == Range(StepOrder)

ASSUME AccessAssumption == StepOrder \in Seq(StepKeys) /\ RampStep \in StepKeys
Active == saPhase \in {"ramping", "sampling"}

\* (A slip of StartAccess.)
StartAccessUncleared ==
  /\ ~Active
  /\ saPhase' = "ramping"
  /\ saRecords' = NoSteps(StepKeys)
  /\ saRamping' = TRUE
  /\ saShort' = FALSE /\ saUnmet' = {} /\ saRecording' = EmptyRecording
  /\ UNCHANGED <<saSkipRamp, saTemp, saCached>>

\* initiate(): nothing of an earlier run is kept, and the VTI is sent to its target.
StartAccess ==
  /\ ~Active
  /\ saPhase' = "ramping"
  /\ saRecords' = NoSteps(StepKeys)
  /\ saSkipRamp' = FALSE
  /\ saRamping' = TRUE
  /\ saShort' = FALSE /\ saUnmet' = {} /\ saRecording' = EmptyRecording
  /\ UNCHANGED <<saTemp, saCached>>

\* The ramp moves on, and ends at its target; without one the cryostat cools down.
Warm ==
  /\ saTemp' = IF saRamping THEN (IF saTemp < WarmTarget THEN saTemp + 1 ELSE saTemp)
               ELSE (IF saTemp > 0 THEN saTemp - 1 ELSE 0)
  /\ saRamping' = (saRamping /\ saTemp' < WarmTarget)
  /\ UNCHANGED <<saPhase, saRecords, saSkipRamp, saCached, saShort, saUnmet, saRecording>>

PollAccess ==
  /\ saCached' = saTemp
  /\ UNCHANGED <<saPhase, saRecords, saSkipRamp, saTemp, saRamping, saShort, saUnmet, saRecording>>

\* confirm(): no step is refused because of its kind.
ConfirmStep(key) ==
  /\ Active
  /\ saRecords' = RecordStep(saRecords, key, "done")
  /\ UNCHANGED <<saPhase, saSkipRamp, saTemp, saCached, saRamping, saShort, saUnmet, saRecording>>

\* skip_step(): a step that has its record already asks for nothing.
SkipStep(key) ==
  /\ Active
  /\ saRecords' = RecordStep(saRecords, key, "skipped")
  /\ saSkipRamp' = (saSkipRamp \/ (key = RampStep /\ saRecords[key] = Pending))
  /\ UNCHANGED <<saPhase, saTemp, saCached, saRamping, saShort, saUnmet, saRecording>>

\* (A slip of RampTick.)
RampTickUnstopped ==
  /\ saPhase = "ramping"
  /\ saSkipRamp \/ ~saRamping
  /\ saSkipRamp' = FALSE
  /\ saShort' = saRamping
  /\ saPhase' = "sampling"
  /\ UNCHANGED <<saRecords, saTemp, saCached, saRamping, saUnmet, saRecording>>

\* The Orchestrator in RAMPING: a requested skip stops the run's ramps first.
RampTick ==
  /\ saPhase = "ramping"
  /\ saSkipRamp \/ ~saRamping
  /\ saSkipRamp' = FALSE
  /\ saShort' = saRamping
  /\ saRamping' = FALSE
  /\ saPhase' = "sampling"
  /\ UNCHANGED <<saRecords, saTemp, saCached, saUnmet, saRecording>>

AtTarget(temp) == temp = WarmTarget

\* sample(): the warm step is recorded when it is still pending.
SampleAccess ==
  /\ saPhase = "sampling"
  /\ saRecording.raw < AccessSamples
  /\ saRecording' = RecordSample(saRecording)
  /\ saRecords' = IF AtTarget(saCached) THEN RecordStep(saRecords, RampStep, "done") ELSE saRecords
  /\ UNCHANGED <<saPhase, saSkipRamp, saTemp, saCached, saRamping, saShort, saUnmet>>

StepGates == {k \in StepKeys : saRecords[k] # "done"}

\* The run ends in the tick after it was asked to; its gates look at a fresh reading.
EndAccess ==
  /\ saPhase = "sampling"
  /\ saPhase' = "ended"
  /\ saCached' = saTemp
  /\ saUnmet' = StepGates \cup (IF AtTarget(saTemp) THEN {} ELSE {"vti_at_target"})
  /\ UNCHANGED <<saRecords, saSkipRamp, saTemp, saRamping, saShort, saRecording>>

\* abort() sends nothing; the Orchestrator stops the ramps of the run.
AbortAccess ==
  /\ Active
  /\ saPhase' = "aborted"
  /\ saRamping' = FALSE
  /\ UNCHANGED <<saRecords, saSkipRamp, saTemp, saCached, saShort, saUnmet, saRecording>>

AccessInit ==
  /\ saPhase = "off" /\ saRecords = NoSteps(StepKeys) /\ saSkipRamp = FALSE
  /\ saTemp = 0 /\ saCached = 0 /\ saRamping = FALSE /\ saShort = FALSE
  /\ saUnmet = {} /\ saRecording = EmptyRecording

AccessNext ==
  \/ StartAccess \/ Warm \/ PollAccess \/ RampTick \/ SampleAccess \/ EndAccess \/ AbortAccess
  \/ \E key \in StepKeys : ConfirmStep(key) \/ SkipStep(key)

AccessSpec == AccessInit /\ [][AccessNext]_saVars

-----------------------------------------------------------------------------
\* Within a run the first record of a step stands: a skipped warm-up never turns into
\* a done one, although the samples see the VTI at its target later.
FirstRecordStands ==
  [][ Active => \A k \in StepKeys : saRecords[k] # Pending => saRecords'[k] = saRecords[k] ]_saVars

\* A warm-up is cut short only by a skip of this very run; then the ramp is off while
\* the cryostat is open, and the manifest of the run says that the step was not met.
SkipCutsShort ==
  /\ saPhase = "sampling" /\ saShort => saRecords[RampStep] = "skipped"
  /\ saPhase = "sampling" => ~saRamping
  /\ saPhase = "ended" /\ saShort => RampStep \in saUnmet

\* The recording of an access, however long, spans it.
AccessRecordingSpansRun == SpansRun(saRecording)

\* What the record of a sample access says is what was done, also behind a skip.
AccessIsRecorded ==
  /\ FirstRecordStands
  /\ [][SkipCutsShort' /\ AccessRecordingSpansRun']_saVars
=============================================================================
