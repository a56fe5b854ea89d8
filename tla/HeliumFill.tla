------------------------------ MODULE HeliumFill ------------------------------
(***************************************************************************)
(* HeliumFillOperation between its start and its end: the magnets it sends *)
(* to standby, the gate, the samples of the level and the ways it ends.    *)
(* One unit of hfNow is a sample period; the Orchestrator's part, which    *)
(* calls it, is the phase.                                                 *)
(***************************************************************************)
EXTENDS OperationRecords, Integers

CONSTANTS
  FillMagnets,       \* magnet_vi_names()
  FillLevels,        \* the levels the meter may show
  FillTarget, NoiseFloor,
  ZeroFieldWindow, CompleteWindow, MaxFillDuration,
  NoLevel

ASSUME FillAssumption ==
  /\ FillLevels \subseteq Int /\ FillTarget \in Int /\ NoiseFloor \in Nat
  /\ ZeroFieldWindow \in Nat /\ CompleteWindow \in Nat /\ MaxFillDuration \in Nat
  /\ NoLevel \notin FillLevels

VARIABLES
  hfPhase,           \* "off" "ramping" "gate" "sampling" "stepping" "ended"
  hfMagnet,          \* the magnets in standby
  hfTold,            \* the magnets that this run sent to standby
  hfCached,          \* the same in the cached state
  hfNow,             \* time since the start
  hfHeld,            \* how long the gate has held, or -1
  hfSamples,         \* the levels sampled
  hfStable,          \* _stable_since, or -1
  hfFinish,          \* finish_requested
  hfFast,            \* the level meter refreshes fast
  hfEnd,             \* how it ended
  hfRecording

hfVars == <<hfPhase, hfMagnet, hfTold, hfCached, hfNow, hfHeld, hfSamples, hfStable, hfFinish, hfFast, hfEnd, hfRecording>>

Running == hfPhase \in {"ramping", "gate", "sampling", "stepping"}
LastLevel == IF hfSamples = <<>> THEN NoLevel ELSE hfSamples[Len(hfSamples)]

\* initiate(): only a magnet that the cached state does not show in standby is told.
StartFill ==
  /\ hfPhase \in {"off", "ended"}
  /\ hfPhase' = "ramping"
  /\ hfTold' = FillMagnets \ hfCached
  /\ hfNow' = 0 /\ hfHeld' = -1
  /\ hfSamples' = <<>> /\ hfStable' = -1
  /\ hfFinish' = FALSE /\ hfFast' = TRUE /\ hfEnd' = "none"
  /\ hfRecording' = EmptyRecording
  /\ UNCHANGED <<hfMagnet, hfCached>>

\* The standby ramps arrive and the Orchestrator polls.
MagnetArrives(m) ==
  /\ Running
  /\ m \in hfTold \ hfMagnet
  /\ hfMagnet' = hfMagnet \cup {m}
  /\ UNCHANGED <<hfPhase, hfTold, hfCached, hfNow, hfHeld, hfSamples, hfStable, hfFinish, hfFast, hfEnd, hfRecording>>

\* Outside a run the operator moves the magnets.
MagnetMoves(m) ==
  /\ ~Running
  /\ hfMagnet' = IF m \in hfMagnet THEN hfMagnet \ {m} ELSE hfMagnet \cup {m}
  /\ UNCHANGED <<hfPhase, hfTold, hfCached, hfNow, hfHeld, hfSamples, hfStable, hfFinish, hfFast, hfEnd, hfRecording>>

PollLevel ==
  /\ hfCached' = hfMagnet
  /\ UNCHANGED <<hfPhase, hfMagnet, hfTold, hfNow, hfHeld, hfSamples, hfStable, hfFinish, hfFast, hfEnd, hfRecording>>

RampingDone ==
  /\ hfPhase = "ramping"
  /\ hfPhase' = "gate"
  /\ UNCHANGED <<hfMagnet, hfTold, hfCached, hfNow, hfHeld, hfSamples, hfStable, hfFinish, hfFast, hfEnd, hfRecording>>

Counted(now) == IF now <= MaxFillDuration THEN now + 1 ELSE now

\* (A slip of GateStep.)
GateStepUnpolled ==
  /\ hfPhase = "gate" /\ ~hfFinish
  /\ hfHeld' = IF FillMagnets \subseteq hfCached THEN hfHeld + 1 ELSE -1
  /\ hfPhase' = IF hfHeld' >= ZeroFieldWindow THEN "sampling" ELSE "gate"
  /\ hfNow' = Counted(hfNow)
  /\ UNCHANGED <<hfMagnet, hfTold, hfCached, hfSamples, hfStable, hfFinish, hfFast, hfEnd, hfRecording>>

\* A tick at the gate "zero_field": it polls, and then all magnets must be in standby
\* without a break for the window. A tick that finds a finish requested asks no gate.
GateStep ==
  /\ hfPhase = "gate" /\ ~hfFinish
  /\ hfCached' = hfMagnet
  /\ hfHeld' = IF FillMagnets \subseteq hfCached' THEN hfHeld + 1 ELSE -1
  /\ hfPhase' = IF hfHeld' >= ZeroFieldWindow THEN "sampling" ELSE "gate"
  /\ hfNow' = Counted(hfNow)
  /\ UNCHANGED <<hfMagnet, hfTold, hfSamples, hfStable, hfFinish, hfFast, hfEnd, hfRecording>>

\* (A slip of StableSince.)
StableSinceKept(level) ==
  IF level >= FillTarget THEN (IF hfStable < 0 THEN hfNow ELSE hfStable) ELSE hfStable

\* sample(): a rise above the noise, or a level below the target, starts the window anew.
StableSince(level) ==
  IF LastLevel # NoLevel /\ level > LastLevel + NoiseFloor THEN -1
  ELSE IF level >= FillTarget THEN (IF hfStable < 0 THEN hfNow ELSE hfStable)
  ELSE -1

SampleLevel(level) ==
  /\ hfPhase = "sampling"
  /\ hfStable' = StableSince(level)
  /\ hfSamples' = Append(hfSamples, level)
  /\ hfRecording' = RecordSample(hfRecording)
  /\ hfPhase' = "stepping"
  /\ UNCHANGED <<hfMagnet, hfTold, hfCached, hfNow, hfHeld, hfFinish, hfFast, hfEnd>>

Complete ==
  /\ hfSamples # <<>> /\ LastLevel >= FillTarget
  /\ hfStable >= 0 /\ hfNow - hfStable >= CompleteWindow

\* (A slip of EndReason.)
EndReasonUntimed == CASE hfFinish -> "finished" [] ~hfFinish /\ Complete -> "complete" [] OTHER -> "none"

\* change_sweep_step() and step(): a requested finish, the duration, the level.
EndReason ==
  CASE hfFinish -> "finished"
    [] ~hfFinish /\ hfNow > MaxFillDuration -> "timeout"
    [] ~hfFinish /\ hfNow <= MaxFillDuration /\ Complete -> "complete"
    [] OTHER -> "none"

StepFill ==
  /\ hfPhase = "stepping"
  /\ EndReason = "none"
  /\ hfPhase' = "sampling"
  /\ hfNow' = hfNow + 1
  /\ UNCHANGED <<hfMagnet, hfTold, hfCached, hfHeld, hfSamples, hfStable, hfFinish, hfFast, hfEnd, hfRecording>>

\* standby(), after a step or, when a finish is requested, from the gate: the meter is slowed
\* down again, unless that command raises.
EndFill(heard) ==
  /\ \/ hfPhase = "stepping" /\ EndReason # "none"
     \/ hfPhase = "gate" /\ hfFinish
  /\ hfEnd' = IF heard THEN EndReason ELSE "error"
  /\ hfPhase' = "ended"
  /\ hfFast' = ~heard
  /\ UNCHANGED <<hfMagnet, hfTold, hfCached, hfNow, hfHeld, hfSamples, hfStable, hfFinish, hfRecording>>

RequestFinish ==
  /\ Running
  /\ hfFinish' = TRUE
  /\ UNCHANGED <<hfPhase, hfMagnet, hfTold, hfCached, hfNow, hfHeld, hfSamples, hfStable, hfFast, hfEnd, hfRecording>>

\* (A slip of AbortFill.)
AbortFillFast(heard) ==
  /\ Running
  /\ hfPhase' = "ended"
  /\ hfEnd' = IF heard THEN "aborted" ELSE "error"
  /\ UNCHANGED <<hfMagnet, hfTold, hfCached, hfNow, hfHeld, hfSamples, hfStable, hfFinish, hfFast, hfRecording>>

\* abort() while the run is anywhere; a magnet under way stays where it is.
AbortFill(heard) ==
  /\ Running
  /\ hfPhase' = "ended"
  /\ hfEnd' = IF heard THEN "aborted" ELSE "error"
  /\ hfFast' = ~heard
  /\ UNCHANGED <<hfMagnet, hfTold, hfCached, hfNow, hfHeld, hfSamples, hfStable, hfFinish, hfRecording>>

\* postcondition_gates(): checked once when the run has ended.
Unmet ==
  (IF hfFast THEN {"refresh_slow"} ELSE {})
    \cup (IF hfSamples # <<>> /\ LastLevel < hfSamples[1] THEN {"level_held_or_rose"} ELSE {})

\* get_progress(), in hundredths.
Progress ==
  IF hfSamples = <<>> THEN 0
  ELSE IF FillTarget <= hfSamples[1] THEN 100
  ELSE LET p == (100 * (LastLevel - hfSamples[1])) \div (FillTarget - hfSamples[1])
       IN IF p < 0 THEN 0 ELSE IF p > 100 THEN 100 ELSE p

FillInit ==
  /\ hfPhase = "off" /\ hfMagnet = FillMagnets /\ hfTold = {} /\ hfCached = FillMagnets
  /\ hfNow = 0 /\ hfHeld = -1 /\ hfSamples = <<>> /\ hfStable = -1
  /\ hfFinish = FALSE /\ hfFast = FALSE /\ hfEnd = "none"
  /\ hfRecording = EmptyRecording

FillNext ==
  \/ StartFill \/ PollLevel \/ RampingDone \/ GateStep \/ StepFill \/ RequestFinish
  \/ \E m \in FillMagnets : MagnetArrives(m) \/ MagnetMoves(m)
  \/ \E level \in FillLevels : SampleLevel(level)
  \/ \E heard \in BOOLEAN : EndFill(heard) \/ AbortFill(heard)

FillSpec == FillInit /\ [][FillNext]_hfVars

-----------------------------------------------------------------------------
\* A fill is complete only when every sample of the whole last window was at the
\* target and none of them rose by more than the noise.
CompleteWasStable ==
  hfEnd = "complete" =>
    \E k \in DOMAIN hfSamples :
      /\ Len(hfSamples) - k >= CompleteWindow
      /\ \A i \in k .. Len(hfSamples) : hfSamples[i] >= FillTarget
      /\ \A i \in (k + 1) .. Len(hfSamples) : hfSamples[i] <= hfSamples[i - 1] + NoiseFloor

\* No magnet is off zero while the helium is filled, whatever the cached state showed
\* when the run was started.
FillsAtZeroField == hfPhase \in {"sampling", "stepping"} => FillMagnets \subseteq hfMagnet

\* Unless the meter did not hear it, no end of a fill, a finish at the gate included, leaves
\* it refreshing fast, and a run that ends well reports at most a level that fell.
MeterSlowedDown ==
  hfPhase = "ended" /\ hfEnd # "error" => ~hfFast /\ Unmet \subseteq {"level_held_or_rose"}

\* No fill samples longer than its duration and one period more.
FillIsBounded == hfPhase \in {"sampling", "stepping"} => hfNow <= MaxFillDuration + ZeroFieldWindow + 2

\* A fill runs at zero field, ends when it should and is complete only when it was stable.
FillIsSound ==
  /\ CompleteWasStable
  /\ FillsAtZeroField
  /\ MeterSlowedDown
  /\ FillIsBounded
=============================================================================
