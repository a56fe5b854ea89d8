------------------------------- MODULE Rotator -------------------------------
(***************************************************************************)
(* RotatorVI on a stage that moves by itself.  A ramp is a generator that  *)
(* waits while the stage moves and commands the target when it holds; a    *)
(* target may be changed, a ramp stopped or the rate set at any time, and  *)
(* any command may raise and end what it is part of.                       *)
(* An angle is a number of steps of the stage.                             *)
(***************************************************************************)
EXTENDS Integers

CONSTANT LastAngle    \* the limits of set_sample_angle() are 0 and this

ASSUME AngleAssumption == LastAngle \in Nat

VARIABLES
  rtStage,     \* the stage [position, setpoint, status]
  rtRamp,      \* the generator [state, target]; exhausted: it returned, broken: it raised
  rtRate,      \* _rate_deg_per_min: 0 or 1
  rtShort,     \* the generator returned while the stage moved elsewhere
  rtFrozen     \* a stop has been heard, and no ramp started since

rtVars == <<rtStage, rtRamp, rtRate, rtShort, rtFrozen>>

Angles == 0 .. LastAngle
Holds(stage) == stage.status = "HOLD"

RotatorInit ==
  /\ rtStage = [position |-> 0, setpoint |-> 0, status |-> "HOLD"]
  /\ rtRamp = [state |-> "none", target |-> 0]
  /\ rtRate = 1 /\ rtShort = FALSE /\ rtFrozen = FALSE

-----------------------------------------------------------------------------
(* The stage.                                                               *)

\* set_position_setpoint().
SentTo(stage, angle) ==
  [stage EXCEPT !.setpoint = angle, !.status = IF angle = stage.position THEN @ ELSE "MOVING"]

\* hold().
Frozen(stage) == [stage EXCEPT !.setpoint = stage.position, !.status = "HOLD"]

\* One step on the way to the setpoint; the step that arrives ends the movement.
StageMoves ==
  /\ ~Holds(rtStage)
  /\ LET next == CASE rtStage.setpoint > rtStage.position -> rtStage.position + 1
                   [] rtStage.setpoint < rtStage.position -> rtStage.position - 1
                   [] OTHER -> rtStage.position
     IN rtStage' = [rtStage EXCEPT !.position = next,
                                   !.status = IF next = rtStage.setpoint THEN "HOLD" ELSE "MOVING"]
  /\ UNCHANGED <<rtRamp, rtRate, rtShort, rtFrozen>>

-----------------------------------------------------------------------------
(* The ramp.                                                                *)

\* (A slip of Reached.)
ReachedNearby(target) == rtStage.position \in (target - 1) .. (target + 1)

\* The generator looks at the angle alone, not at whether the stage stays there.
Reached(target) == rtStage.position = target

\* (A slip of Commands.)
CommandsMoving(target) == ~Reached(target)

\* The generator commands its target only to a stage that holds elsewhere.
Commands(target) == ~Reached(target) /\ Holds(rtStage)

\* One step of _ramp_generator().  The driver refuses a rate of zero, which the limits of
\* set_rate_sample_angle() admit; a command that raises has ended the generator before
\* its owner knows.
GeneratorStep(target, ok) ==
  \/ /\ ok /\ Reached(target)
     /\ rtRamp' = [state |-> "exhausted", target |-> target]
     /\ rtShort' = ~Holds(rtStage)
     /\ UNCHANGED rtStage
  \/ /\ ok /\ ~Reached(target) /\ ~Commands(target)
     /\ rtRamp' = [state |-> "live", target |-> target]
     /\ UNCHANGED <<rtStage, rtShort>>
  \/ /\ ok /\ Commands(target) /\ rtRate > 0
     /\ rtRamp' = [state |-> "live", target |-> target]
     /\ rtStage' = SentTo(rtStage, target)
     /\ UNCHANGED rtShort
  \/ /\ ~ok \/ (Commands(target) /\ rtRate = 0)
     /\ rtRamp' = [state |-> "broken", target |-> target]
     /\ UNCHANGED <<rtStage, rtShort>>

\* start_ramp(): a new generator in the place of the old, and its first step.
StartRotation(target, ok) ==
  /\ GeneratorStep(target, ok)
  /\ rtFrozen' = FALSE
  /\ UNCHANGED rtRate

\* advance_ramp(): a generator that raised is found exhausted by the next tick.
AdvanceRotation(ok) ==
  /\ \/ rtRamp.state = "live" /\ GeneratorStep(rtRamp.target, ok)
     \/ /\ rtRamp.state = "broken"
        /\ rtRamp' = [rtRamp EXCEPT !.state = "exhausted"]
        /\ rtShort' = TRUE
        /\ UNCHANGED rtStage
  /\ UNCHANGED <<rtRate, rtFrozen>>

RotationStatus ==
  CASE rtRamp.state = "none" -> "IDLE"
    [] rtRamp.state = "exhausted" /\ Holds(rtStage) -> "TARGET_REACHED"
    [] OTHER -> "RAMPING"

\* (A slip of StoppedStage.)
StoppedStageMoving(stage) == stage

\* What stop_ramp() makes of the stage: it would move on to its setpoint by itself.
StoppedStage(stage) == Frozen(stage)

\* stop_ramp(), and standby(): the generator goes first, so that a hold() that raises
\* leaves none, and a stage that moves on.
StopRotation(ok) ==
  /\ rtRamp' = [rtRamp EXCEPT !.state = "none"]
  /\ rtStage' = IF ok THEN StoppedStage(rtStage) ELSE rtStage
  /\ rtFrozen' = ok
  /\ rtShort' = FALSE
  /\ UNCHANGED rtRate

\* set_rate_sample_angle(): the VI keeps the rate also when the driver refuses it.
SetRotationRate(rate) ==
  /\ rtRate' = rate
  /\ UNCHANGED <<rtStage, rtRamp, rtShort, rtFrozen>>

RotatorNext ==
  \/ StageMoves
  \/ \E target \in Angles, ok \in BOOLEAN : StartRotation(target, ok)
  \/ \E ok \in BOOLEAN : AdvanceRotation(ok) \/ StopRotation(ok)
  \/ \E rate \in {0, 1} : SetRotationRate(rate)

RotatorSpec == RotatorInit /\ [][RotatorNext]_rtVars

-----------------------------------------------------------------------------
\* A ramp that reports TARGET_REACHED stands at its target, also when it replaced another
\* while the stage moved; unless its generator raised, or met the target on the way to
\* the one before.
ReachedIsThere ==
  RotationStatus = "TARGET_REACHED" => rtShort \/ rtStage.position = rtRamp.target

\* A stop that was heard holds the stage until the next ramp, whatever was on its way.
StopFreezes == rtFrozen => Holds(rtStage) /\ rtStage.setpoint = rtStage.position

\* A stage that moves is not sent elsewhere: a new target waits until it holds.
MovingIsLeftAlone == ~Holds(rtStage) => rtStage'.setpoint \in {rtStage.setpoint, rtStage'.position}

\* What the ramp reports and what the stage does belong together, behind every change of
\* target, every stop and every tick.
RotationIsSound == [][ReachedIsThere' /\ StopFreezes' /\ MovingIsLeftAlone]_rtVars
=============================================================================
