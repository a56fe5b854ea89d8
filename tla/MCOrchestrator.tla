--------------------------- MODULE MCOrchestrator ---------------------------
(***************************************************************************)
(* Instances of Orchestrator for TLC: one magnet that ramps and is          *)
(* concerned by helium_low, one temperature controller that is not, one     *)
(* procedure and one operation.  Each .cfg chooses which of the tables      *)
(* below a run uses and which parts of the environment may misbehave.       *)
(***************************************************************************)
EXTENDS Orchestrator

CONSTANTS mag, vti, sweep, series, fill

MCVIOrder == <<mag, vti>>

\* "sweep" ramps the magnet and claims everything, "series" sends no target and
\* claims nothing, "fill" claims the magnet and parks it.
Table(forSweep, forSeries, forFill) ==
  [r \in Procedures \cup Operations |->
     CASE r = sweep -> forSweep
       [] r = series -> forSeries
       [] r = fill -> forFill]

MCClaims == Table(Everything, {}, {mag})
MCInitTargets == Table({mag}, {}, {})
MCInitStandby == Table({}, {}, {mag})
MCStepTargets == Table({mag}, {}, {})
MCStandbyTargets == Table({mag}, {}, {})
MCNoTargets == Table({}, {}, {})

\* The end of a sweep commands the magnet's own standby(), or sends it a target.
MCParks == [p \in Procedures |-> IF p = sweep THEN {mag} ELSE {}]
MCNoParks == [p \in Procedures |-> {}]

\* An operation that ramps what it claims (sample access) instead of parking it.
MCWarmInitTargets == Table({mag}, {}, {vti})
MCWarmInitStandby == Table({}, {}, {})
MCWarmClaims == Table(Everything, {}, {vti})

MCTolerates == [o \in Operations |-> {"helium_low"}]
=============================================================================
