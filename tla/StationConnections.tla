-------------------------- MODULE StationConnections --------------------------
(***************************************************************************)
(* The two registries of cryosoft/core/station.py: the live virtual        *)
(* instruments (VIs), the offline ones, and the driver sessions they share *)
(* by configuration.  A VI object keeps the driver objects it was built    *)
(* with; connecting, disconnecting and rebuilding one VI close and open    *)
(* sessions that another VI may hold.                                      *)
(*                                                                         *)
(* Outside the program an instrument may stop answering and answer again,  *)
(* and the session open to it may break, which only a new one repairs.     *)
(*                                                                         *)
(* Where two forms of a definition stand together the first is a plausible *)
(* mistake, used by no other definition: it is there to see that the       *)
(* properties notice it.                                                   *)
(***************************************************************************)
EXTENDS Naturals

CONSTANTS
  VIs,        \* the configured VIs
  Drivers,    \* the driver aliases of the configuration
  Needs,      \* the drivers in the recipe of each VI
  Polled,     \* the drivers its get_state() talks to
  Switches,   \* VIs of type "switch"
  NoScanner,  \* stands for self._scanner_vi_name is None
  Claims,     \* the sets of VIs that runs claim
  MaxErrors   \* max_vi_errors: missed polls that make a VI "disconnected"

\* A VI class of the repository polls all its drivers or, like the measurement VIs
\* that share a source, none; every configured driver has a user.
ASSUME RecipeAssumption ==
  /\ Needs \in [VIs -> (SUBSET Drivers) \ {{}}]
  /\ Polled \in [VIs -> SUBSET Drivers]
  /\ \A v \in VIs : Polled[v] \in {{}, Needs[v]}
  /\ \A d \in Drivers : \E v \in VIs : d \in Needs[v]
  /\ Switches \subseteq VIs
  /\ NoScanner \notin VIs
  /\ Claims \subseteq SUBSET VIs
  /\ MaxErrors \in Nat \ {0}

VARIABLES
  live,      \* _virtual_instruments; the other VIs are in _offline_vis
  tags,      \* tags of the offline record of each VI
  open,      \* _drivers: aliases with an open session
  held,      \* the drivers whose current session the object of a live VI holds
  count,     \* _error_counts, counted up to MaxErrors
  kind,      \* kind of the comm condition of each VI, "ok" if none
  scanner,   \* _scanner_vi_name of the Orchestrator
  idle,      \* the Orchestrator is in IDLE
  claims,    \* the VIs the active run claims
  off,       \* instruments that do not answer
  dead       \* open sessions that are broken

registryVars == <<live, tags, scanner>>
sessionVars == <<open, held, dead>>
faultVars == <<count, kind>>
runVars == <<idle, claims>>
vars == <<registryVars, sessionVars, faultVars, runVars, off>>

Tags == {"connect_failed", "operator"}

\* Every configured VI is in one registry: live, or offline with a reason.
TypeOK ==
  /\ live \in SUBSET VIs
  /\ tags \in [VIs -> SUBSET Tags]
  /\ \A v \in VIs : v \in live <=> tags[v] = {}
  /\ open \in SUBSET Drivers
  /\ held \in [VIs -> SUBSET Drivers]
  /\ \A v \in VIs : held[v] \subseteq Needs[v] \cap open
  /\ count \in [VIs -> 0 .. MaxErrors]
  /\ kind \in [VIs -> {"ok", "stale", "disconnected"}]
  /\ \A v \in VIs \ live : held[v] = {} /\ kind[v] = "ok"
  /\ scanner \in (live \cap Switches) \cup {NoScanner}
  /\ idle \in BOOLEAN
  /\ claims \in SUBSET VIs
  /\ idle => claims = {}
  /\ off \in SUBSET Drivers
  /\ dead \in SUBSET open

-----------------------------------------------------------------------------
(* Sessions.                                                                *)

\* _exclusive_aliases(): the drivers of v that no other VI of users needs.
ExclusiveAll(v, users) == Needs[v]
Exclusive(v, users) == {d \in Needs[v] : \A u \in users \ {v} : d \notin Needs[u]}

\* The drivers an attempt to open the missing ones brings up: the first that fails
\* ends the attempt, and only an instrument that does not answer may fail.
Openings(missing) ==
  {opened \in SUBSET missing : opened # missing => (missing \ opened) \cap off # {}}

\* ping(): every driver answers an identity query over the session it has now.
Identified(v, broken) == Needs[v] \cap (off \cup broken) = {}

\* The sessions of closed are gone, whoever held them.
Without(closed) == [u \in VIs |-> held[u] \ closed]

\* register_vi() and the adoption of a switch as the scanner.
AdoptScanner ==
  IF scanner = NoScanner /\ live' \cap Switches # {}
  THEN scanner' \in live' \cap Switches
  ELSE UNCHANGED scanner

-----------------------------------------------------------------------------
(* build_station(): what is reachable is live, the rest is offline, and the *)
(* sessions that could be opened stay open either way.                      *)

Init ==
  /\ off \in SUBSET Drivers
  /\ open \in {o \in SUBSET Drivers : Drivers \ off \subseteq o}
  /\ live = {v \in VIs : Needs[v] \cap off = {}}
  /\ tags = [v \in VIs |-> IF v \in live THEN {} ELSE {"connect_failed"}]
  /\ held = [v \in VIs |-> IF v \in live THEN Needs[v] ELSE {}]
  /\ count = [v \in VIs |-> 0]
  /\ kind = [v \in VIs |-> "ok"]
  /\ IF live \cap Switches = {} THEN scanner = NoScanner ELSE scanner \in live \cap Switches
  /\ idle = TRUE
  /\ claims = {}
  /\ dead = {}

-----------------------------------------------------------------------------
(* Connect and disconnect, in IDLE only.                                    *)

ConnectFails(v) == tags' = [tags EXCEPT ![v] = @ \cup {"connect_failed"}]

\* A driver cannot be opened, or the VI cannot be built on an instrument that does
\* not answer: what was opened stays open.
ConnectBreaksOff(v) ==
  /\ idle
  /\ v \notin live
  /\ Needs[v] \cap off # {}
  /\ \E opened \in Openings(Needs[v] \ open) : open' = open \cup opened
  /\ ConnectFails(v)
  /\ UNCHANGED <<live, scanner, held, dead, faultVars, runVars, off>>

ConnectUnidentifiedKeeps(v) ==
  /\ idle
  /\ v \notin live
  /\ ~Identified(v, dead)
  /\ open' = open \cup Needs[v]
  /\ ConnectFails(v)
  /\ UNCHANGED <<live, scanner, held, dead, faultVars, runVars, off>>

\* The identity check fails: the sessions no other configured VI names are closed.
ConnectUnidentified(v) ==
  /\ idle
  /\ v \notin live
  /\ ~Identified(v, dead)
  /\ LET closed == Exclusive(v, VIs)
     IN /\ open' = (open \cup Needs[v]) \ closed
        /\ held' = Without(closed)
        /\ dead' = dead \ closed
  /\ ConnectFails(v)
  /\ UNCHANGED <<live, scanner, faultVars, runVars, off>>

ConnectSucceeds(v) ==
  /\ idle
  /\ v \notin live
  /\ Identified(v, dead)
  /\ open' = open \cup Needs[v]
  /\ held' = [held EXCEPT ![v] = Needs[v]]
  /\ live' = live \cup {v}
  /\ tags' = [tags EXCEPT ![v] = {}]
  /\ count' = [count EXCEPT ![v] = 0]
  /\ AdoptScanner
  /\ UNCHANGED <<dead, kind, runVars, off>>

Connect(v) == ConnectBreaksOff(v) \/ ConnectUnidentified(v) \/ ConnectSucceeds(v)

DisconnectSharedKept(v) ==
  /\ idle
  /\ v \in live
  /\ LET closed == Exclusive(v, VIs)
     IN /\ open' = open \ closed
        /\ held' = [Without(closed) EXCEPT ![v] = {}]
        /\ dead' = dead \ closed
  /\ live' = live \ {v}
  /\ tags' = [tags EXCEPT ![v] = {"operator"}]
  /\ count' = [count EXCEPT ![v] = 0]
  /\ kind' = [kind EXCEPT ![v] = "ok"]
  /\ scanner' = IF scanner = v THEN NoScanner ELSE scanner
  /\ UNCHANGED <<runVars, off>>

DisconnectUnrecorded(v) ==
  /\ idle
  /\ v \in live
  /\ LET closed == Exclusive(v, live)
     IN /\ open' = open \ closed
        /\ held' = [Without(closed) EXCEPT ![v] = {}]
        /\ dead' = dead \ closed
  /\ live' = live \ {v}
  /\ count' = [count EXCEPT ![v] = 0]
  /\ kind' = [kind EXCEPT ![v] = "ok"]
  /\ scanner' = IF scanner = v THEN NoScanner ELSE scanner
  /\ UNCHANGED <<tags, runVars, off>>

\* disconnect_instrument(): the fault goes with the VI, and so do the sessions it was
\* the last live user of.
Disconnect(v) ==
  /\ idle
  /\ v \in live
  /\ LET closed == Exclusive(v, live)
     IN /\ open' = open \ closed
        /\ held' = [Without(closed) EXCEPT ![v] = {}]
        /\ dead' = dead \ closed
  /\ live' = live \ {v}
  /\ tags' = [tags EXCEPT ![v] = {"operator"}]
  /\ count' = [count EXCEPT ![v] = 0]
  /\ kind' = [kind EXCEPT ![v] = "ok"]
  /\ scanner' = IF scanner = v THEN NoScanner ELSE scanner
  /\ UNCHANGED <<runVars, off>>

-----------------------------------------------------------------------------
(* Polling and faults.                                                      *)

\* The polled drivers of v answer over the sessions its object holds.
Answers(v) == Polled[v] \subseteq held[v] \ (off \cup dead)

Missed(v) == IF count[v] < MaxErrors THEN count[v] + 1 ELSE MaxErrors
FaultKind(missed) == IF missed >= MaxErrors THEN "disconnected" ELSE "stale"

\* One tick: get_state() polls the live VIs in turn.  An error that is no
\* communication error ends the round and the tick; ERROR is not IDLE.
Poll ==
  /\ \E reached \in SUBSET live :
       /\ \E missed \in SUBSET {v \in reached : Polled[v] # {}} :
            /\ {v \in reached : ~Answers(v)} \subseteq missed
            /\ count' = [v \in VIs |-> IF v \in missed THEN Missed(v)
                                       ELSE IF v \in reached THEN 0 ELSE count[v]]
            /\ kind' = [v \in VIs |-> IF v \in missed THEN FaultKind(Missed(v))
                                      ELSE IF v \in reached THEN "ok" ELSE kind[v]]
       /\ IF reached = live
          THEN UNCHANGED runVars
          ELSE idle' = FALSE /\ claims' = {}
  /\ UNCHANGED <<registryVars, sessionVars, off>>

\* What a single poll of v brings, as after a retry: it answers, it is missed again,
\* or it raises what the caller does not catch.
PolledOnce(v, answers) ==
  \/ /\ answers
     /\ count' = [count EXCEPT ![v] = 0]
     /\ kind' = [kind EXCEPT ![v] = "ok"]
  \/ /\ Polled[v] # {}
     /\ count' = [count EXCEPT ![v] = 1]
     /\ kind' = [kind EXCEPT ![v] = "stale"]
  \/ /\ Polled[v] # {}
     /\ count' = [count EXCEPT ![v] = 0]
     /\ UNCHANGED kind

\* retry_fault() below the threshold: the count restarts, the session stays.
RetryPoll(v) ==
  /\ v \in live
  /\ kind[v] # "disconnected"
  /\ PolledOnce(v, Answers(v))
  /\ UNCHANGED <<registryVars, sessionVars, runVars, off>>

RebuildAllowedAlways(v) == v \in live /\ kind[v] = "disconnected"
\* Orchestrator.retry_fault(): no rebuild under a run that claims the VI.
RebuildAllowed(v) == v \in live /\ kind[v] = "disconnected" /\ v \notin claims

RebuildFails(v) ==
  /\ count' = [count EXCEPT ![v] = MaxErrors]
  /\ UNCHANGED kind

\* _retry_disconnected(): the sessions only v uses are closed and opened again.  Until
\* the new object is identified the old one stays, with what is left of its sessions.
RebuildBreaksOff(v) ==
  /\ RebuildAllowed(v)
  /\ Needs[v] \cap off # {}
  /\ LET closed == Exclusive(v, live)
     IN /\ \E opened \in Openings(Needs[v] \ (open \ closed)) :
             open' = (open \ closed) \cup opened
        /\ held' = Without(closed)
        /\ dead' = dead \ closed
  /\ RebuildFails(v)
  /\ UNCHANGED <<registryVars, runVars, off>>

RebuildUnidentified(v) ==
  /\ RebuildAllowed(v)
  /\ LET closed == Exclusive(v, live)
         dropped == Exclusive(v, VIs)
     IN /\ ~Identified(v, dead \ closed)
        /\ open' = (open \cup Needs[v]) \ dropped
        /\ held' = Without(closed \cup dropped)
        /\ dead' = dead \ (closed \cup dropped)
  /\ RebuildFails(v)
  /\ UNCHANGED <<registryVars, runVars, off>>

RebuildSucceeds(v) ==
  /\ RebuildAllowed(v)
  /\ LET closed == Exclusive(v, live)
     IN /\ Identified(v, dead \ closed)
        /\ held' = [Without(closed) EXCEPT ![v] = Needs[v]]
        /\ dead' = dead \ closed
  /\ open' = open \cup Needs[v]
  /\ PolledOnce(v, TRUE)
  /\ UNCHANGED <<registryVars, runVars, off>>

RetryFault(v) ==
  RetryPoll(v) \/ RebuildBreaksOff(v) \/ RebuildUnidentified(v) \/ RebuildSucceeds(v)

-----------------------------------------------------------------------------
(* The Orchestrator and the instruments.                                    *)

\* A run starts, from IDLE or not, and ends, in IDLE or not; a manual ramp, an error
\* and an emergency leave IDLE without a run.
Busy(claimed) == claims = {} /\ claims' = claimed /\ idle' = FALSE

RunStateChanges ==
  /\ \/ \E claimed \in Claims : Busy(claimed)
     \/ claims' = {} /\ idle' \in BOOLEAN
  /\ UNCHANGED <<registryVars, sessionVars, faultVars, off>>

\* An instrument stops answering; an open session to it may be broken for good.
StopsAnswering(d) ==
  /\ off' = off \cup {d}
  /\ dead' \in {dead, dead \cup ({d} \cap open)}
  /\ UNCHANGED <<registryVars, open, held, faultVars, runVars>>

AnswersAgain(d) ==
  /\ off' = off \ {d}
  /\ UNCHANGED <<registryVars, sessionVars, faultVars, runVars>>

Next ==
  \/ \E v \in VIs : Connect(v) \/ Disconnect(v) \/ RetryFault(v)
  \/ Poll
  \/ RunStateChanges
  \/ \E d \in Drivers : StopsAnswering(d) \/ AnswersAgain(d)

Spec == Init /\ [][Next]_vars

\* An operator who keeps pressing Connect.
Persistent == \A v \in VIs : SF_vars(Connect(v))
FairSpec == Spec /\ Persistent

-----------------------------------------------------------------------------
(* Properties.                                                              *)

\* A live VI that no fault names as disconnected holds the sessions the station has
\* now: connecting, disconnecting or rebuilding one VI never closes or replaces a
\* session under another that shares the driver (_exclusive_aliases()), and a failed
\* rebuild never passes for a working instrument.
LiveSessionsCurrent ==
  \A v \in live : kind[v] # "disconnected" => held[v] = Needs[v]

\* An instrument the operator has released is free for its front panel: an open
\* session has a live user, or one whose connection failed half-way.
ReleasedIsFree ==
  \A d \in open : \E v \in VIs :
    d \in Needs[v] /\ (v \in live \/ "connect_failed" \in tags[v])

\* A run that claims a VI keeps the object and the sessions it was started with, or
\* the faulted ones it has: nobody connects, releases or rebuilds them under it.
ClaimedVIKept ==
  [][\A v \in claims \cap claims' :
       /\ v \in live <=> v \in live'
       /\ held'[v] = held[v]
       /\ v \in live => dead \cap held[v] \subseteq dead']_vars

\* A VI that shares no driver can be brought back by pressing Connect, whatever broke,
\* once its instruments answer for good and the station returns to IDLE: the failed
\* attempt closes the broken session and the next one opens a new one.
ConnectRecovers ==
  \A v \in VIs : Exclusive(v, VIs) = Needs[v] =>
    (<>[](Needs[v] \cap off = {}) /\ []<>idle => []<>(v \in live))
=============================================================================
