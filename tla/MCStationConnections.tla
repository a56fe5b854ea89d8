------------------------- MODULE MCStationConnections -------------------------
(***************************************************************************)
(* An instance of StationConnections for TLC: two VIs that share a source, *)
(* one of them with a meter of its own, and a switch on its own driver.    *)
(***************************************************************************)
EXTENDS StationConnections

CONSTANTS dc, delta, switch, source, meter, scan

MCNeeds ==
  [v \in {dc, delta, switch} |->
     CASE v = dc -> {source, meter}
       [] v = delta -> {source}
       [] v = switch -> {scan}]
MCPolled == MCNeeds
MCClaims == {{}, {dc}, {dc, delta, switch}}
=============================================================================
