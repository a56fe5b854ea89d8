-------------------------- MODULE MCPersistentMagnet --------------------------
(***************************************************************************)
(* Instances of PersistentMagnet for TLC, and the statements of its        *)
(* docstrings that a run refutes.                                          *)
(***************************************************************************)
EXTENDS PersistentMagnet

\* A segment that ends at 1 and one that goes on to the limit 2; the targets lie on
\* both sides of zero, inside, at the end of and beyond a segment.
MCFields == {-2, 0, 1, 3}

\* SuperconductingMagnetPersistentVI.standby(): "In every case standby ends with the
\* heater OFF and the PSU at zero".
StandbyEndsParked ==
  (m.gen \in {"park", "unload"} /\ m.at = "done" /\ m.status = "HOLD")
    => ~m.heater /\ m.current = 0
=============================================================================
