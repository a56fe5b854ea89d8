------------------------- MODULE OrchestratorClaims -------------------------
(***************************************************************************)
(* Statements the comments and docstrings of the repository make about the  *)
(* Orchestrator and that its code does not keep.  Each is refuted by a run. *)
(***************************************************************************)
EXTENDS MCOrchestrator

\* Station.advance_ramps(): "every tick must reach this method, in whatever state"
\* but PAUSED, or a VI "commanded to a setpoint" sits still.  A ramp under way in
\* EMERGENCY then comes to its end.
AdvancingSpec == FairSpec /\ SF_vars(Machine /\ ramping' = {})
EmergencyRampsArrive ==
  (st = "EMERGENCY" /\ ramping # {}) ~> (ramping = {} \/ st # "EMERGENCY")

\* resume_procedure(): a resume "restarts the held ramps" and "the run picks up where
\* it was held".  A procedure that parks a magnet at its end is then done with the
\* magnet at standby, also if it was paused on the way there.
DoneRunIsParked ==
  [][(run \in Procedures /\ pc = "machine" /\ run' = NoRun /\ outcome' = "done")
       => StandbyParks[run] \subseteq parked']_vars
=============================================================================
