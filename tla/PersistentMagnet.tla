--------------------------- MODULE PersistentMagnet ---------------------------
(***************************************************************************)
(* The superconducting magnet with a persistent-mode switch heater:        *)
(* SuperconductingMagnetPersistentVI on its power supply (PSU).            *)
(*                                                                         *)
(* A ramp is a Python generator that one tick advances to its next yield.  *)
(* The stages below are the stretches of code between two yields; each     *)
(* takes the magnet before and returns the magnet after, so that a step    *)
(* that falls through several stages is their composition.  Between two    *)
(* ticks the PSU moves on its own, the switch warms, the operator calls.   *)
(*                                                                         *)
(* Currents are counted in units larger than every tolerance of the code,  *)
(* so that "within 0.01 A" is equality.  Where two forms of a definition   *)
(* stand together the first is a plausible mistake, used by no other       *)
(* definition: it is there to see that the properties notice it.           *)
(***************************************************************************)
EXTENDS Integers, FiniteSetsExt

CONSTANTS
  MaxCurrent,   \* the current limit, both ways
  Segments,     \* upper ends of the ramp segments
  Fields,       \* the targets a caller asks for
  Calls,        \* the calls the operator and the Orchestrator may make
  Spontaneous,  \* whether the magnet may quench by itself
  Budget        \* bound on the number of calls

ASSUME MagnetAssumption ==
  /\ MaxCurrent \in Nat \ {0}
  /\ Segments \subseteq 1 .. MaxCurrent
  /\ MaxCurrent \in Segments
  /\ Fields \subseteq Int
  /\ Calls \subseteq {"ramp", "stop", "standby", "enable", "disable", "on", "off", "restart"}
  /\ Spontaneous \in BOOLEAN
  /\ Budget \in Nat

Currents == (-MaxCurrent) .. MaxCurrent
\* The rate of a segment is named by its upper end, the default rate by 0.
DefaultRate == 0

VARIABLES
  m,       \* the magnet: its PSU, its switch and the state of its VI
  calls,   \* calls made so far
  byHand   \* somebody worked the heater or the toggle, or the magnet quenched by itself

magnetVars == <<m, calls, byHand>>

Magnet ==
  [current  : Currents,                           \* PSU output
   setpoint : Currents,
   status   : {"HOLD", "RAMPING", "QUENCH"},
   rate     : Segments \cup {DefaultRate},
   heater   : BOOLEAN,                            \* switch heater, as the driver drives it
   hot      : BOOLEAN,                            \* the switch is warm
   coil     : Currents,                           \* current frozen in the coil
   toggle   : BOOLEAN,                            \* _persistent_mode_enabled
   gen      : {"none", "normal", "manual", "park", "unload"},  \* the ramp generator
   at       : {"matching", "warmup", "ramping", "settling", "done"},
   target   : Currents,
   match    : Currents,                           \* coil_A, read when matching began
   tracked  : BOOLEAN,                            \* SwitchHeater._is_on
   ready    : BOOLEAN]                            \* its warm-up time has passed

TypeOK == m \in Magnet /\ calls \in 0 .. Budget /\ byHand \in BOOLEAN

MagnetInit ==
  /\ m = [current |-> 0, setpoint |-> 0, status |-> "HOLD", rate |-> DefaultRate,
          heater |-> FALSE, hot |-> FALSE, coil |-> 0, toggle |-> FALSE, gen |-> "none",
          at |-> "done", target |-> 0, match |-> 0, tracked |-> FALSE, ready |-> FALSE]
  /\ calls = 0 /\ byHand = FALSE

-----------------------------------------------------------------------------
(* The power supply.                                                        *)

\* With the heater on the coil follows the PSU.
CoilCurrent(x) == IF x.heater THEN x.current ELSE x.coil

\* A quenched PSU takes no setpoint.
SetSetpoint(x, current) ==
  IF x.status = "QUENCH" THEN x
  ELSE [x EXCEPT !.setpoint = current,
                 !.status = IF current # x.current THEN "RAMPING" ELSE @]

Hold(x) ==
  IF x.status = "QUENCH" THEN x ELSE [x EXCEPT !.setpoint = x.current, !.status = "HOLD"]

Quenched(x) ==
  [x EXCEPT !.status = "QUENCH", !.current = 0, !.coil = 0, !.setpoint = 0,
            !.heater = FALSE, !.hot = FALSE]

\* Heating the switch across a mismatch of PSU and coil quenches the magnet.
HeaterDrivenOn(x) ==
  IF x.heater THEN x
  ELSE IF x.current # x.coil THEN Quenched(x)
  ELSE [x EXCEPT !.heater = TRUE]

HeaterDrivenOff(x) ==
  IF x.heater THEN [x EXCEPT !.coil = x.current, !.heater = FALSE, !.hot = FALSE] ELSE x

-----------------------------------------------------------------------------
(* The helpers of the VI.                                                   *)

\* The clock of the SwitchHeater starts when it is turned on, not when it is on.
Energised(x) == [HeaterDrivenOn(x) EXCEPT !.tracked = TRUE]

Deenergised(x) == [HeaterDrivenOff(x) EXCEPT !.tracked = FALSE, !.ready = FALSE]

Abs(i) == IF i < 0 THEN -i ELSE i
ClampAbove(i) == IF i > MaxCurrent THEN i ELSE IF i < -MaxCurrent THEN -MaxCurrent ELSE i
Clamp(i) == IF i > MaxCurrent THEN MaxCurrent ELSE IF i < -MaxCurrent THEN -MaxCurrent ELSE i

\* A ramp stops where a segment ends, on either side of zero, to change its rate.
Ends == Segments \cup {-b : b \in Segments}
NextSetpointDirect(from, to) == to
NextSetpoint(from, to) ==
  IF from < to
  THEN Min({to} \cup {b \in Ends : from < b /\ b < to})
  ELSE Max({to} \cup {b \in Ends : to < b /\ b < from})

\* The segment in which a PSU at i moves when it moves by d.
SegmentRate(i, d) == Min({b \in Segments : Abs(i) <= b /\ Abs(i + d) <= b})

-----------------------------------------------------------------------------
(* The stages of the ramp generators.                                       *)

At(x, place) == [x EXCEPT !.at = place]

\* Behind the last setpoint: a full park ends with the switch cold.
Finished(x) ==
  IF x.gen = "unload" /\ x.status # "QUENCH" THEN At(Deenergised(x), "done") ELSE At(x, "done")

SettleStage(x) == IF x.status = "RAMPING" THEN At(x, "settling") ELSE Finished(x)

RampStageUnguarded(x) ==
  IF x.current = x.target THEN SettleStage(x)
  ELSE IF x.status = "RAMPING" THEN At(x, "ramping")
  ELSE LET step == IF x.target > x.current THEN 1 ELSE -1
       IN At(SetSetpoint([x EXCEPT !.rate = SegmentRate(x.current, step)],
                         NextSetpoint(x.current, x.target)),
             "ramping")

\* _ramp_generator(): the next setpoint is sent when the PSU has come to rest.
RampStage(x) ==
  IF x.current = x.target \/ x.status = "QUENCH" THEN SettleStage(x)
  ELSE IF x.status = "RAMPING" THEN At(x, "ramping")
  ELSE LET step == IF x.target > x.current THEN 1 ELSE -1
       IN At(SetSetpoint([x EXCEPT !.rate = SegmentRate(x.current, step)],
                         NextSetpoint(x.current, x.target)),
             "ramping")

WarmStageUnwaited(x) == RampStage(x)
WarmStage(x) ==
  IF x.ready THEN RampStage(x)
  ELSE IF x.status = "QUENCH" THEN At(x, "done")
  ELSE At(x, "warmup")

MatchStage(x) ==
  IF x.status # "RAMPING" /\ x.current = x.match THEN WarmStage(Energised(x))
  ELSE IF x.status = "QUENCH" THEN At(x, "done")
  ELSE At(x, "matching")

\* The heater is off: the PSU is brought to the coil current first.
StartMatchingBlind(x) == WarmStage(Energised(x))
StartMatching(x) ==
  IF x.current = x.coil THEN WarmStage(Energised(x))
  ELSE MatchStage(SetSetpoint([x EXCEPT !.match = x.coil, !.rate = DefaultRate], x.coil))

\* The first next() of a generator.
FirstUnadopted(x) ==
  CASE x.gen = "normal" -> IF x.heater THEN WarmStage(x) ELSE StartMatching(x)
    [] x.gen = "unload" -> IF x.heater THEN RampStage(x) ELSE StartMatching(x)
    [] x.gen \in {"manual", "park"} -> RampStage(x)

\* Normal mode adopts a heater it finds energised, whoever energised it.
First(x) ==
  CASE x.gen = "normal" ->
         IF x.heater THEN WarmStage([x EXCEPT !.tracked = TRUE]) ELSE StartMatching(x)
    [] x.gen = "unload" -> IF x.heater THEN RampStage(x) ELSE StartMatching(x)
    [] x.gen \in {"manual", "park"} -> RampStage(x)

Resumed(x) ==
  CASE x.at = "matching" -> MatchStage(x)
    [] x.at = "warmup" -> WarmStage(x)
    [] x.at = "ramping" -> RampStage(x)
    [] x.at = "settling" -> SettleStage(x)

\* _standby_generator(): an unheated switch is left alone when no field is trapped.
StandbyKindAlways(x) == "unload"
StandbyKind(x) == IF ~x.heater /\ CoilCurrent(x) = 0 THEN "park" ELSE "unload"

-----------------------------------------------------------------------------
(* The calls.                                                               *)

Call(name, after) ==
  /\ name \in Calls
  /\ calls < Budget
  /\ calls' = calls + 1
  /\ byHand' = (byHand \/ name \in {"enable", "disable", "on", "off"})
  /\ m' = after

StartRamp(field) ==
  Call("ramp", First([m EXCEPT !.target = Clamp(field),
                               !.gen = IF m.toggle THEN "manual" ELSE "normal"]))

Standby == Call("standby", First([m EXCEPT !.target = 0, !.gen = StandbyKind(m)]))

StopRamp == Call("stop", Hold([m EXCEPT !.gen = "none", !.at = "done", !.target = 0]))

EnablePersistentMode == Call("enable", [m EXCEPT !.toggle = TRUE])

DisablePersistentModeAlways == Call("disable", [m EXCEPT !.toggle = FALSE])
DisablePersistentMode == m.heater /\ Call("disable", [m EXCEPT !.toggle = FALSE])

SwitchHeaterOn == m.toggle /\ m.current = CoilCurrent(m) /\ Call("on", Energised(m))

SwitchHeaterOff == m.toggle /\ Call("off", Deenergised(m))

\* The VI is rebuilt (application restart, retry of a disconnected instrument); the
\* instrument goes on as it was.
Restart ==
  Call("restart", [m EXCEPT !.toggle = FALSE, !.gen = "none", !.at = "done", !.target = 0,
                            !.match = 0, !.tracked = FALSE, !.ready = FALSE])

\* advance_ramp(), once per tick.
Advance ==
  /\ m.gen # "none" /\ m.at # "done"
  /\ m' = Resumed(m)
  /\ UNCHANGED <<calls, byHand>>

-----------------------------------------------------------------------------
(* What happens by itself.                                                  *)

PsuMoves ==
  /\ m.status = "RAMPING"
  /\ LET next == m.current + (IF m.setpoint > m.current THEN 1 ELSE -1)
     IN m' = [m EXCEPT !.current = next,
                       !.status = IF next = m.setpoint THEN "HOLD" ELSE @]
  /\ UNCHANGED <<calls, byHand>>

\* The warm-up time has passed, for the switch and for the clock of the VI.
Warm ==
  /\ \/ m.heater /\ ~m.hot
     \/ m.tracked /\ ~m.ready
  /\ m' = [m EXCEPT !.hot = m.heater, !.ready = m.tracked]
  /\ UNCHANGED <<calls, byHand>>

Quench ==
  /\ Spontaneous
  /\ m.status # "QUENCH"
  /\ m' = Quenched(m)
  /\ byHand' = TRUE /\ UNCHANGED calls

\* The PSU is reset by hand.
ResetQuench ==
  /\ m.status = "QUENCH"
  /\ m' = [m EXCEPT !.status = "HOLD", !.setpoint = m.current]
  /\ UNCHANGED <<calls, byHand>>

Operator ==
  \/ \E field \in Fields : StartRamp(field)
  \/ Standby \/ StopRamp \/ EnablePersistentMode \/ DisablePersistentMode
  \/ SwitchHeaterOn \/ SwitchHeaterOff \/ Restart

MagnetNext == Operator \/ Advance \/ PsuMoves \/ Warm \/ Quench \/ ResetQuench

MagnetSpec == MagnetInit /\ [][MagnetNext]_magnetVars

\* Every tick of a state that advances ramps reaches a ramping VI, the PSU reaches
\* its setpoint, and time passes.
MagnetFairness == WF_magnetVars(Advance) /\ WF_magnetVars(PsuMoves) /\ WF_magnetVars(Warm)

-----------------------------------------------------------------------------
(* Properties.                                                              *)

\* The ramp sequence never quenches the magnet: however calls and ticks interleave,
\* the heater is energised only with the PSU at the coil current, also when the
\* operator works the heater while a generator waits (_energize_heater()).
NeverQuenches == [][(m.status # "QUENCH" /\ m'.status = "QUENCH") => Quench]_magnetVars

\* A normal ramp never comes to drive the PSU with the heater off, unless persistent
\* mode is enabled or a quench, which the VI does not see, has turned it off: the
\* guard of disable_persistent_mode() keeps a ramp begun in one mode from going on
\* in the other with the switch cold.
Unheated ==
  m.gen = "normal" /\ m.at \in {"ramping", "settling"} /\ ~m.toggle /\ ~m.heater
BelievedHeated == m.tracked /\ ~m.heater
NormalRampsHeated == [][Unheated' => Unheated \/ BelievedHeated \/ Quench]_magnetVars

\* standby() does not energise a heater when there is no trapped field to bring down,
\* whatever the persistent-mode toggle says and whatever ramp it interrupts; only the
\* operator's own call turns it on then.
StandbyLeavesColdHeaterOff ==
  [][(m'.gen \in {"park", "unload"} /\ ~m.heater /\ m'.heater)
       => m.coil # 0 \/ SwitchHeaterOn]_magnetVars

\* The field is driven at the rate of the segment it is in, or not at all: no stop,
\* retarget or change of mode carries the rate of one segment into another.
RateRespected ==
  [][(m.heater /\ m'.current # m.current /\ m'.status # "QUENCH")
       => m.rate = SegmentRate(m.current, m'.current - m.current)]_magnetVars

\* A normal ramp drives the coil only through a warm switch, while nobody works the
\* heater behind its back.
WarmBeforeRamp ==
  [][(m.gen = "normal" /\ m.at = "ramping" /\ m'.current # m.current /\ m'.status # "QUENCH")
       => m.hot \/ byHand]_magnetVars

\* The first tick behind a quench ends the generator, wherever it waits, and sends the
\* PSU nothing: behind the manual reset no ramp goes on by itself.
QuenchStopsRamp ==
  [][(Advance /\ m.status = "QUENCH") => m'.at = "done" /\ m'.setpoint = m.setpoint]_magnetVars

\* A ramp or a standby comes to its end, also behind a restart of the VI, which has
\* to adopt a heater it finds on; unless somebody works the heater, or the magnet
\* quenches, under it.
RampEnds == (m.gen # "none") ~> (m.gen = "none" \/ m.at = "done" \/ byHand)

\* The switch heater, the ramp, its rate and the trapped field never work against each
\* other: what a ramp, a standby, a change of mode and a quench may do to them, together.
HeaterDiscipline ==
  /\ []TypeOK
  /\ NormalRampsHeated
  /\ StandbyLeavesColdHeaterOff
  /\ WarmBeforeRamp
  /\ QuenchStopsRamp
  /\ RateRespected
=============================================================================
