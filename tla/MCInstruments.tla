----------------------------- MODULE MCInstruments -----------------------------
(***************************************************************************)
(* The instruments for TLC.  They share no state: a behaviour is one of a  *)
(* single instrument, chosen in the initial state, and a state of the      *)
(* others is their first.                                                  *)
(***************************************************************************)
EXTENDS MCPersistentMagnet, SwitchMatrix, CurrentSource, Tensormeter, TemperatureController,
        Rotator, LevelMeter, TLC

VARIABLE subject

instrumentVars == <<subject, magnetVars, swVars, msVars, tmVars, tcVars, rtVars, lmVars>>

\* A card with four channels of one pole, three of two and two of four.
MCLastChannel == (1 :> 4) @@ (2 :> 3) @@ (4 :> 2)
MCRouteSpecs == ("A" :> <<1>>) @@ ("B" :> <<2, 3>>)

\* Three methods on one source.
MCKind == ("dcm" :> "dc") @@ ("del" :> "delta") @@ ("sep" :> "separate")
MCSourceOf == [method \in Methods |-> "k1"]

InstrumentsInit ==
  /\ subject \in {"magnet", "switch", "source", "tensormeter", "temperature", "rotator", "level"}
  /\ MagnetInit /\ SwitchInit /\ SourceInit
  /\ TensormeterInit
  /\ subject # "tensormeter" =>
       /\ tmExternal = FALSE /\ tmDevice = (CHOOSE s \in Settings : TRUE)
       /\ tmRequest = 1 /\ tmAveraging = 1
  /\ TemperatureInit
  /\ subject # "temperature" =>
       /\ tcTemperature = 0
       /\ tcDevice = [setpoint |-> 0, mode |-> "AUTO", output |-> 0, valveMode |-> "AUTO", valve |-> 0]
  /\ RotatorInit /\ LevelMeterInit

InstrumentsNext ==
  \/ subject = "magnet" /\ MagnetNext /\ UNCHANGED <<subject, swVars, msVars, tmVars, tcVars, rtVars, lmVars>>
  \/ subject = "switch" /\ SwitchNext /\ UNCHANGED <<subject, magnetVars, msVars, tmVars, tcVars, rtVars, lmVars>>
  \/ subject = "source" /\ SourceNext /\ UNCHANGED <<subject, magnetVars, swVars, tmVars, tcVars, rtVars, lmVars>>
  \/ subject = "tensormeter" /\ TensormeterNext /\ UNCHANGED <<subject, magnetVars, swVars, msVars, tcVars, rtVars, lmVars>>
  \/ subject = "temperature" /\ TemperatureNext /\ UNCHANGED <<subject, magnetVars, swVars, msVars, tmVars, rtVars, lmVars>>
  \/ subject = "rotator" /\ RotatorNext /\ UNCHANGED <<subject, magnetVars, swVars, msVars, tmVars, tcVars, lmVars>>
  \/ subject = "level" /\ LevelMeterNext /\ UNCHANGED <<subject, magnetVars, swVars, msVars, tmVars, tcVars, rtVars>>

\* The magnet is at rest in the behaviours of the others: nothing is asked of them.
InstrumentsSpec == InstrumentsInit /\ [][InstrumentsNext]_instrumentVars /\ MagnetFairness
=============================================================================
