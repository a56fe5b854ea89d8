-------------------------- MODULE TemperatureController --------------------------
(***************************************************************************)
(* The temperature controllers: VTITemperatureControllerVI, which is       *)
(* SampleTemperatureControllerVI with a needle valve, on the simulated     *)
(* ITC 503.  A ramp is a generator that derives the setpoint from the time *)
(* since it began; ticks advance it, any time may pass between two of      *)
(* them, and any command may raise and end what it is part of.             *)
(* Temperatures are counted in tolerances, time in steps of the ramp rate. *)
(***************************************************************************)
EXTENDS Integers, Sequences

CONSTANT TopTemperature    \* the limit of set_temperature(), and the reach of the heater

ASSUME TemperatureAssumption == TopTemperature \in Nat \ {0}

VARIABLES
  tcTemperature,
  tcDevice,      \* setpoint, mode, output, valveMode, valve of the ITC 503
  tcRamp,        \* the generator [state, from, target, elapsed]; broken: it has raised
  tcSetBy,       \* who wrote the setpoint last: a ramp, a call, or somebody before the last standby
  tcAutoBy,      \* who switched the heater to AUTO
  tcStood        \* standby() has returned, and nobody has set heater or valve since

tcVars == <<tcTemperature, tcDevice, tcRamp, tcSetBy, tcAutoBy, tcStood>>

Temperatures == 0 .. TopTemperature
NoRamp == [state |-> "none", from |-> 0, target |-> 0, elapsed |-> 0]

-----------------------------------------------------------------------------
(* Commands to the driver.                                                  *)

\* The device when the first n of the commands have reached it.
DeviceAfter(commands, n) ==
  LET written(field) == {i \in 1 .. n : commands[i][1] = field}
  IN [field \in DOMAIN tcDevice |->
        IF written(field) = {} THEN tcDevice[field]
        ELSE LET last == CHOOSE i \in written(field) : \A j \in written(field) : j <= i
             IN commands[last][2]]

-----------------------------------------------------------------------------
(* The ramp.                                                                *)

\* (A slip of SetpointOf.)
SetpointOfUnclamped(ramp) ==
  IF ramp.target > ramp.from THEN ramp.from + ramp.elapsed ELSE ramp.from - ramp.elapsed

\* _ramp_generator(): the rate times the time since it began, never beyond the target.
SetpointOf(ramp) ==
  IF ramp.target > ramp.from
  THEN IF ramp.from + ramp.elapsed < ramp.target THEN ramp.from + ramp.elapsed ELSE ramp.target
  ELSE IF ramp.from - ramp.elapsed > ramp.target THEN ramp.from - ramp.elapsed ELSE ramp.target

\* One step of the generator: it writes its setpoint and ends at the target; a command
\* that raises has ended it before its owner knows.
StepOf(ramp, ok) ==
  /\ tcDevice' = IF ok THEN [tcDevice EXCEPT !.setpoint = SetpointOf(ramp)] ELSE tcDevice
  /\ tcSetBy' = IF ok THEN "ramp" ELSE tcSetBy
  /\ tcRamp' = [ramp EXCEPT !.state = IF ~ok THEN "broken"
                                      ELSE IF SetpointOf(ramp) = ramp.target THEN "spent" ELSE "live"]

\* start_ramp(), within the limits of set_temperature(); the first step is part of it.
StartTemperatureRamp(target, ok) ==
  /\ StepOf([state |-> "live", from |-> tcTemperature, target |-> target, elapsed |-> 0], ok)
  /\ UNCHANGED <<tcTemperature, tcAutoBy, tcStood>>

RampStatus ==
  CASE tcRamp.state = "none" -> "IDLE"
    [] tcRamp.state \in {"live", "broken"} -> "RAMPING"
    [] tcRamp.state = "spent" -> IF tcTemperature = tcRamp.target THEN "TARGET_REACHED" ELSE "RAMPING"

\* advance_ramp(), of a controller that is ramping.
AdvanceTemperatureRamp(ok) ==
  /\ RampStatus = "RAMPING" /\ tcRamp.state # "spent"
  /\ IF tcRamp.state = "live" THEN StepOf(tcRamp, ok)
     ELSE tcRamp' = [tcRamp EXCEPT !.state = "spent"] /\ UNCHANGED <<tcDevice, tcSetBy>>
  /\ UNCHANGED <<tcTemperature, tcAutoBy, tcStood>>

\* stop_ramp(): the ramp is forgotten first, then the setpoint goes to where it is.
StopTemperatureRamp(ok) ==
  /\ tcRamp' = NoRamp
  /\ tcDevice' = IF ok THEN [tcDevice EXCEPT !.setpoint = tcTemperature] ELSE tcDevice
  /\ tcSetBy' = IF ok THEN "call" ELSE tcSetBy
  /\ UNCHANGED <<tcTemperature, tcAutoBy, tcStood>>

-----------------------------------------------------------------------------
(* Initiate, standby and the panel.                                         *)

\* (A slip of InitiateCommands.)
InitiateCommandsAutoFirst == <<<<"mode", "AUTO">>, <<"setpoint", tcTemperature>>>>

\* initiate(): the setpoint is pinned here before the loop is closed.
InitiateCommands == <<<<"setpoint", tcTemperature>>, <<"mode", "AUTO">>>>

InitiateTemperature(n) ==
  LET sent(field) == \E i \in 1 .. n : InitiateCommands[i][1] = field
  IN /\ tcDevice' = DeviceAfter(InitiateCommands, n)
     /\ tcSetBy' = IF sent("setpoint") THEN "call" ELSE tcSetBy
     /\ tcAutoBy' = IF sent("mode") THEN "initiate" ELSE tcAutoBy
     /\ tcStood' = (tcStood /\ ~sent("mode"))
     /\ UNCHANGED <<tcTemperature, tcRamp>>

\* (A slip of StandbyCommands.)
StandbyCommandsModeOnly == <<<<"mode", "MANUAL">>, <<"valveMode", "MANUAL">>, <<"valve", 0>>>>

\* standby(), of the heater and then of the needle valve; a ramp goes on.
StandbyCommands ==
  <<<<"mode", "MANUAL">>, <<"output", 0>>, <<"valveMode", "MANUAL">>, <<"valve", 0>>>>

StandbyTemperature(n) ==
  /\ tcDevice' = DeviceAfter(StandbyCommands, n)
  /\ tcStood' = (tcStood \/ n = Len(StandbyCommands))
  /\ tcSetBy' = IF n = Len(StandbyCommands) THEN "before" ELSE tcSetBy
  /\ UNCHANGED <<tcTemperature, tcRamp, tcAutoBy>>

SetHeaterMode(mode) ==
  /\ tcDevice' = [tcDevice EXCEPT !.mode = mode]
  /\ tcAutoBy' = IF mode = "AUTO" THEN "operator" ELSE tcAutoBy
  /\ tcStood' = FALSE
  /\ UNCHANGED <<tcTemperature, tcRamp, tcSetBy>>

\* Refused while the loop is closed.
SetHeaterOutput(output) ==
  /\ tcDevice.mode = "MANUAL"
  /\ tcDevice' = [tcDevice EXCEPT !.output = output]
  /\ tcStood' = FALSE
  /\ UNCHANGED <<tcTemperature, tcRamp, tcSetBy, tcAutoBy>>

SetNeedleValveMode(mode) ==
  /\ tcDevice' = [tcDevice EXCEPT !.valveMode = mode]
  /\ tcStood' = FALSE
  /\ UNCHANGED <<tcTemperature, tcRamp, tcSetBy, tcAutoBy>>

\* Refused while the instrument drives the valve.
SetNeedleValve(position) ==
  /\ tcDevice.valveMode = "MANUAL"
  /\ tcDevice' = [tcDevice EXCEPT !.valve = position]
  /\ tcStood' = FALSE
  /\ UNCHANGED <<tcTemperature, tcRamp, tcSetBy, tcAutoBy>>

\* The temperature follows the setpoint, or the heater; the clock goes on.
TimePasses ==
  /\ LET goal == IF tcDevice.mode = "AUTO" THEN tcDevice.setpoint ELSE tcDevice.output * TopTemperature
     IN tcTemperature' = CASE tcTemperature < goal -> tcTemperature + 1
                           [] tcTemperature > goal -> tcTemperature - 1
                           [] OTHER -> tcTemperature
  /\ tcRamp' = [tcRamp EXCEPT !.elapsed =
                  IF tcRamp.state = "live" /\ @ < TopTemperature THEN @ + 1 ELSE @]
  /\ UNCHANGED <<tcDevice, tcSetBy, tcAutoBy, tcStood>>

TemperatureInit ==
  /\ tcTemperature \in Temperatures
  /\ tcDevice \in [setpoint : Temperatures, mode : {"AUTO", "MANUAL"}, output : {0, 1},
                   valveMode : {"AUTO", "MANUAL"}, valve : {0, 1}]
  /\ tcRamp = NoRamp /\ tcSetBy = "before" /\ tcAutoBy = "operator" /\ tcStood = FALSE

TemperatureNext ==
  \/ TimePasses
  \/ \E target \in Temperatures, ok \in BOOLEAN : StartTemperatureRamp(target, ok)
  \/ \E ok \in BOOLEAN : AdvanceTemperatureRamp(ok) \/ StopTemperatureRamp(ok)
  \/ \E n \in 0 .. Len(InitiateCommands) : InitiateTemperature(n)
  \/ \E n \in 0 .. Len(StandbyCommands) : StandbyTemperature(n)
  \/ \E mode \in {"AUTO", "MANUAL"} : SetHeaterMode(mode) \/ SetNeedleValveMode(mode)
  \/ \E level \in {0, 1} : SetHeaterOutput(level) \/ SetNeedleValve(level)

TemperatureSpec == TemperatureInit /\ [][TemperatureNext]_tcVars

-----------------------------------------------------------------------------
\* Behind a standby() that returned no ramp that goes on, starts or is stopped heats or
\* opens the valve, whatever was set by hand before.
StandbyIsCold ==
  tcStood => tcDevice.mode = "MANUAL" /\ tcDevice.output = 0
             /\ tcDevice.valveMode = "MANUAL" /\ tcDevice.valve = 0

\* initiate() never closes the loop on a setpoint from before the last standby, also when
\* one of its commands raises.
NoStaleHeating ==
  tcDevice.mode = "AUTO" /\ tcAutoBy = "initiate" => tcSetBy # "before"

\* What a ramp commands lies between its start and its target, and no further than its
\* rate allows, however long the ticks were away.
SetpointOnItsWay ==
  tcSetBy = "ramp" /\ tcRamp.state = "live" =>
    /\ tcDevice.setpoint \in (tcRamp.from .. tcRamp.target) \cup (tcRamp.target .. tcRamp.from)
    /\ tcDevice.setpoint \in (tcRamp.from - tcRamp.elapsed) .. (tcRamp.from + tcRamp.elapsed)

\* Ramps, standby, initiate() and hands on the panel never heat towards anything but the
\* setpoint that the last of them stands for.
HeatingIsBounded ==
  /\ StandbyIsCold
  /\ NoStaleHeating
  /\ SetpointOnItsWay
=============================================================================
