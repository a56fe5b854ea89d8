---------------------------- MODULE StationProofs ----------------------------
(***************************************************************************)
(* Proofs about StationConnections for every configuration: any VIs, any    *)
(* drivers, any way they share them, any instrument that fails.             *)
(***************************************************************************)
EXTENDS StationConnections, TLAPS

\* Types, by the variables that change together.
RegistryType == /\ live \in SUBSET VIs
                /\ tags \in [VIs -> SUBSET Tags]
                /\ \A v \in VIs : v \in live <=> tags[v] = {}
                /\ scanner \in (live \cap Switches) \cup {NoScanner}
SessionType == /\ open \in SUBSET Drivers
               /\ held \in [VIs -> SUBSET Drivers]
               /\ \A v \in VIs : held[v] \subseteq Needs[v] \cap open
               /\ \A v \in VIs \ live : held[v] = {}
               /\ dead \in SUBSET open
FaultType == /\ count \in [VIs -> 0 .. MaxErrors]
             /\ kind \in [VIs -> {"ok", "stale", "disconnected"}]
             /\ \A v \in VIs \ live : kind[v] = "ok"
RunType == /\ idle \in BOOLEAN
           /\ claims \in SUBSET VIs
           /\ idle => claims = {}

LEMMA TypeGroups ==
  /\ TypeOK <=> RegistryType /\ SessionType /\ FaultType /\ RunType /\ off \in SUBSET Drivers
  /\ TypeOK' <=> RegistryType' /\ SessionType' /\ FaultType' /\ RunType' /\ off' \in SUBSET Drivers
  BY DEF TypeOK, RegistryType, SessionType, FaultType, RunType

LEMMA NeedsType == \A v \in VIs : Needs[v] \subseteq Drivers /\ Needs[v] # {}
  BY RecipeAssumption

LEMMA InitType == Init => TypeOK
<1> SUFFICES ASSUME Init PROVE TypeOK
  OBVIOUS
<1>1. RegistryType
  BY DEF Init, RegistryType, Tags
<1>2. SessionType
  <2>1. \A v \in VIs : Needs[v] \cap off = {} => Needs[v] \subseteq open
    BY NeedsType DEF Init
  <2> QED
    BY <2>1, NeedsType DEF Init, SessionType
<1>3. FaultType
  BY RecipeAssumption DEF Init, FaultType
<1>4. RunType /\ off \in SUBSET Drivers
  BY DEF Init, RunType
<1> QED
  BY <1>1, <1>2, <1>3, <1>4, TypeGroups

\* A live VI keeps the sessions it needs when those of another VI are closed that no
\* other live VI needs.
LEMMA ExclusiveSpares ==
  ASSUME SessionType, NEW v \in VIs, NEW u \in VIs, u # v
  PROVE  /\ u \in live => held[u] \ Exclusive(v, live) = held[u]
         /\ held[u] \ Exclusive(v, live) = held[u]
         /\ held[u] \ Exclusive(v, VIs) = held[u]
         /\ Exclusive(v, VIs) \cap Needs[u] = {}
  BY DEF SessionType, Exclusive

LEMMA ExclusiveWider ==
  ASSUME live \in SUBSET VIs, NEW v \in VIs
  PROVE  /\ Exclusive(v, VIs) \subseteq Exclusive(v, live)
         /\ Exclusive(v, live) \subseteq Needs[v]
  BY DEF Exclusive

-----------------------------------------------------------------------------
(* Types under each action.                                                 *)

LEMMA ConnectType == ASSUME TypeOK, NEW v \in VIs, Connect(v) PROVE TypeOK'
<1> USE DEF registryVars, sessionVars, faultVars, runVars
<1>0. RegistryType /\ SessionType /\ FaultType /\ RunType /\ off \in SUBSET Drivers
  BY TypeGroups
<1>1. CASE ConnectBreaksOff(v)
  <2>1. RegistryType'
    BY <1>0, <1>1 DEF ConnectBreaksOff, ConnectFails, RegistryType, Tags
  <2>2. SessionType'
    BY <1>0, <1>1, NeedsType DEF ConnectBreaksOff, Openings, SessionType
  <2> QED
    BY <1>0, <1>1, <2>1, <2>2, TypeGroups DEF ConnectBreaksOff, FaultType, RunType
<1>2. CASE ConnectUnidentified(v)
  <2>1. RegistryType'
    BY <1>0, <1>2 DEF ConnectUnidentified, ConnectFails, RegistryType, Tags
  <2>2. SessionType'
    BY <1>0, <1>2, NeedsType DEF ConnectUnidentified, Without, SessionType
  <2> QED
    BY <1>0, <1>2, <2>1, <2>2, TypeGroups DEF ConnectUnidentified, FaultType, RunType
<1>3. CASE ConnectSucceeds(v)
  <2>1. RegistryType'
    BY <1>0, <1>3 DEF ConnectSucceeds, AdoptScanner, RegistryType, Tags
  <2>2. SessionType'
    BY <1>0, <1>3, NeedsType DEF ConnectSucceeds, SessionType
  <2>3. FaultType'
    BY <1>0, <1>3, RecipeAssumption DEF ConnectSucceeds, FaultType
  <2> QED
    BY <1>0, <1>3, <2>1, <2>2, <2>3, TypeGroups DEF ConnectSucceeds, RunType
<1> QED
  BY <1>1, <1>2, <1>3 DEF Connect

LEMMA DisconnectType == ASSUME TypeOK, NEW v \in VIs, Disconnect(v) PROVE TypeOK'
<1> USE DEF runVars
<1>0. RegistryType /\ SessionType /\ FaultType /\ RunType /\ off \in SUBSET Drivers
  BY TypeGroups
<1>1. RegistryType'
  BY <1>0 DEF Disconnect, RegistryType, Tags
<1>2. SessionType'
  BY <1>0 DEF Disconnect, Without, SessionType
<1>3. FaultType'
  BY <1>0, RecipeAssumption DEF Disconnect, FaultType
<1> QED
  BY <1>0, <1>1, <1>2, <1>3, TypeGroups DEF Disconnect, RunType

LEMMA PollType == ASSUME TypeOK, Poll PROVE TypeOK'
<1> USE DEF registryVars, sessionVars, runVars
<1>0. RegistryType /\ SessionType /\ FaultType /\ RunType /\ off \in SUBSET Drivers
  BY TypeGroups
<1>1. MaxErrors \in Nat /\ MaxErrors > 0
  BY RecipeAssumption
<1>2. ASSUME NEW v \in VIs PROVE Missed(v) \in 0 .. MaxErrors
  <2>1. count[v] \in 0 .. MaxErrors
    BY <1>0 DEF FaultType
  <2>2. count[v] \in Nat /\ count[v] <= MaxErrors
    BY <1>1, <2>1
  <2> QED
    BY <1>1, <2>2 DEF Missed
<1>3. FaultType'
  BY <1>0, <1>1, <1>2 DEF Poll, FaultKind, FaultType
<1>4. RunType'
  BY <1>0 DEF Poll, RunType
<1>5. RegistryType' /\ SessionType' /\ off' \in SUBSET Drivers
  BY <1>0 DEF Poll, RegistryType, SessionType
<1> QED
  BY <1>3, <1>4, <1>5, TypeGroups

LEMMA PolledOnceType ==
  ASSUME FaultType, NEW v \in VIs, v \in live, UNCHANGED live, NEW answers,
         PolledOnce(v, answers)
  PROVE  FaultType'
<1>1. 0 \in 0 .. MaxErrors /\ 1 \in 0 .. MaxErrors
  BY RecipeAssumption
<1> QED
  BY <1>1 DEF PolledOnce, FaultType

LEMMA RetryType == ASSUME TypeOK, NEW v \in VIs, RetryFault(v) PROVE TypeOK'
<1> USE DEF registryVars, sessionVars, runVars
<1>0. RegistryType /\ SessionType /\ FaultType /\ RunType /\ off \in SUBSET Drivers
  BY TypeGroups
<1>1. CASE RetryPoll(v)
  <2>1. FaultType'
    BY <1>0, <1>1, PolledOnceType DEF RetryPoll
  <2> QED
    BY <1>0, <1>1, <2>1, TypeGroups DEF RetryPoll, RegistryType, SessionType, RunType
<1>2. ASSUME RebuildFails(v), UNCHANGED live PROVE FaultType'
  BY <1>0, <1>2, RecipeAssumption DEF RebuildFails, FaultType
<1>3. CASE RebuildBreaksOff(v)
  <2>1. SessionType'
    BY <1>0, <1>3, NeedsType DEF RebuildBreaksOff, Without, Openings, SessionType
  <2>2. FaultType'
    BY <1>2, <1>3 DEF RebuildBreaksOff
  <2> QED
    BY <1>0, <1>3, <2>1, <2>2, TypeGroups DEF RebuildBreaksOff, RegistryType, RunType
<1>4. CASE RebuildUnidentified(v)
  <2>1. SessionType'
    <3>1. Exclusive(v, VIs) \subseteq Exclusive(v, live)
      BY <1>0, ExclusiveWider DEF RegistryType
    <3>2. /\ open' = (open \cup Needs[v]) \ Exclusive(v, VIs)
          /\ held' = [u \in VIs |-> held[u] \ (Exclusive(v, live) \cup Exclusive(v, VIs))]
          /\ dead' = dead \ (Exclusive(v, live) \cup Exclusive(v, VIs))
          /\ live' = live
      BY <1>4 DEF RebuildUnidentified, Without
    <3> QED
      BY <1>0, <3>1, <3>2, NeedsType DEF SessionType
  <2>2. FaultType'
    BY <1>2, <1>4 DEF RebuildUnidentified
  <2> QED
    BY <1>0, <1>4, <2>1, <2>2, TypeGroups DEF RebuildUnidentified, RegistryType, RunType
<1>5. CASE RebuildSucceeds(v)
  <2>0. v \in live /\ live' = live
    BY <1>5 DEF RebuildSucceeds, RebuildAllowed
  <2>1. SessionType'
    BY <1>0, <1>5, <2>0, NeedsType DEF RebuildSucceeds, Without, SessionType
  <2>2. FaultType'
    BY <1>0, <1>5, <2>0, PolledOnceType DEF RebuildSucceeds
  <2> QED
    BY <1>0, <1>5, <2>1, <2>2, TypeGroups DEF RebuildSucceeds, RegistryType, RunType
<1> QED
  BY <1>1, <1>3, <1>4, <1>5 DEF RetryFault

LEMMA NextType == TypeOK /\ [Next]_vars => TypeOK'
<1> SUFFICES ASSUME TypeOK, [Next]_vars PROVE TypeOK'
  OBVIOUS
<1> USE DEF registryVars, sessionVars, faultVars, runVars
<1>0. RegistryType /\ SessionType /\ FaultType /\ RunType /\ off \in SUBSET Drivers
  BY TypeGroups
<1>1. CASE RunStateChanges
  <2>1. RunType'
    BY <1>0, <1>1, RecipeAssumption DEF RunStateChanges, Busy, RunType
  <2> QED
    BY <1>0, <1>1, <2>1, TypeGroups DEF RunStateChanges, RegistryType, SessionType, FaultType
<1>2. ASSUME NEW d \in Drivers, StopsAnswering(d) \/ AnswersAgain(d) PROVE TypeOK'
  <2>1. SessionType' /\ off' \in SUBSET Drivers
    BY <1>0, <1>2 DEF StopsAnswering, AnswersAgain, SessionType
  <2> QED
    BY <1>0, <1>2, <2>1, TypeGroups
       DEF StopsAnswering, AnswersAgain, RegistryType, FaultType, RunType
<1>3. CASE UNCHANGED vars
  BY <1>3 DEF vars, TypeOK
<1> QED
  BY <1>1, <1>2, <1>3, ConnectType, DisconnectType, PollType, RetryType DEF Next

\* Every VI is in one registry, with sessions and faults that fit it.
THEOREM StationTypeCorrect == Spec => []TypeOK
<1> QED
  BY InitType, NextType, PTL DEF Spec
-----------------------------------------------------------------------------
(* Live instruments hold current sessions.                                  *)

\* LiveSessionsCurrent is not inductive: a poll that is missed may turn a VI with lost
\* sessions from "disconnected" to "stale", unless its count stands at the threshold;
\* and one that is never polled would pass for working, unless it never has a fault.
Whole(v) == held[v] = Needs[v]
Given(v) == kind[v] = "disconnected" /\ count[v] = MaxErrors
Sessions ==
  /\ \A v \in live : Whole(v) \/ Given(v)
  /\ \A v \in VIs : Polled[v] = {} => kind[v] = "ok"

LEMMA InitSessions == Init => Sessions
  BY DEF Init, Sessions, Whole

LEMMA SessionsLive == Sessions => LiveSessionsCurrent
  BY DEF Sessions, Whole, Given, LiveSessionsCurrent

\* Closing what only v needs leaves every other live VI whole, or as it was.
LEMMA OthersKeep ==
  ASSUME TypeOK, Sessions, NEW v \in VIs, NEW closed,
         closed \subseteq Exclusive(v, live), NEW u \in live \ {v},
         held'[u] = held[u] \ closed, kind'[u] = kind[u], count'[u] = count[u]
  PROVE  (Whole(u) \/ Given(u))'
<1>1. Whole(u) \/ Given(u)
  BY DEF Sessions
<1>2. held[u] \ closed = held[u]
  BY DEF TypeOK, Exclusive
<1> QED
  BY <1>1, <1>2 DEF Whole, Given

LEMMA ConnectSessions == ASSUME TypeOK, Sessions, NEW v \in VIs, Connect(v) PROVE Sessions'
<1> USE DEF faultVars
<1>1. CASE ConnectBreaksOff(v)
  BY <1>1 DEF ConnectBreaksOff, Sessions, Whole, Given
<1>2. CASE ConnectUnidentified(v)
  <2>1. /\ live' = live /\ kind' = kind /\ count' = count /\ v \notin live
        /\ \A u \in VIs : held'[u] = held[u] \ Exclusive(v, VIs)
    BY <1>2 DEF ConnectUnidentified, Without
  <2>2. Exclusive(v, VIs) \subseteq Exclusive(v, live)
    BY ExclusiveWider DEF TypeOK
  <2>3. ASSUME NEW u \in live' PROVE (Whole(u) \/ Given(u))'
    BY <2>1, <2>2, <2>3, OthersKeep DEF TypeOK
  <2> QED
    BY <2>1, <2>3 DEF Sessions
<1>3. CASE ConnectSucceeds(v)
  <2>1. /\ live' = live \cup {v} /\ kind' = kind
        /\ held' = [held EXCEPT ![v] = Needs[v]] /\ count' = [count EXCEPT ![v] = 0]
    BY <1>3 DEF ConnectSucceeds
  <2> QED
    BY <2>1 DEF TypeOK, Sessions, Whole, Given
<1> QED
  BY <1>1, <1>2, <1>3 DEF Connect

LEMMA DisconnectSessions ==
  ASSUME TypeOK, Sessions, NEW v \in VIs, Disconnect(v)
  PROVE  Sessions'
<1>1. /\ live' = live \ {v}
      /\ \A u \in VIs \ {v} : /\ held'[u] = held[u] \ Exclusive(v, live)
                              /\ kind'[u] = kind[u] /\ count'[u] = count[u]
      /\ kind'[v] = "ok"
  BY DEF Disconnect, Without, TypeOK
<1>2. ASSUME NEW u \in live' PROVE (Whole(u) \/ Given(u))'
  BY <1>1, <1>2, OthersKeep DEF TypeOK
<1>3. \A u \in VIs : Polled[u] = {} => kind'[u] = "ok"
  BY <1>1 DEF Sessions
<1> QED
  BY <1>2, <1>3 DEF Sessions

\* A VI with lost sessions does not answer, and its missed poll keeps the fault.
LEMMA PollSessions == ASSUME TypeOK, Sessions, Poll PROVE Sessions'
<1> USE DEF registryVars, sessionVars
<1>1. PICK reached \in SUBSET live :
        \E missed \in SUBSET {v \in reached : Polled[v] # {}} :
          /\ {v \in reached : ~Answers(v)} \subseteq missed
          /\ count' = [v \in VIs |-> IF v \in missed THEN Missed(v)
                                     ELSE IF v \in reached THEN 0 ELSE count[v]]
          /\ kind' = [v \in VIs |-> IF v \in missed THEN FaultKind(Missed(v))
                                    ELSE IF v \in reached THEN "ok" ELSE kind[v]]
  BY DEF Poll
<1>2. PICK missed \in SUBSET {v \in reached : Polled[v] # {}} :
        /\ {v \in reached : ~Answers(v)} \subseteq missed
        /\ count' = [v \in VIs |-> IF v \in missed THEN Missed(v)
                                   ELSE IF v \in reached THEN 0 ELSE count[v]]
        /\ kind' = [v \in VIs |-> IF v \in missed THEN FaultKind(Missed(v))
                                  ELSE IF v \in reached THEN "ok" ELSE kind[v]]
  BY <1>1
<1>3. live' = live /\ held' = held
  BY DEF Poll
<1>4. \A v \in VIs : Polled[v] = {} => kind'[v] = "ok"
  BY <1>2 DEF Sessions
<1>5. ASSUME NEW v \in live PROVE (Whole(v) \/ Given(v))'
  <2>0. v \in VIs /\ MaxErrors \in Nat
    BY RecipeAssumption DEF TypeOK
  <2>1. CASE Whole(v)
    BY <1>3, <2>1 DEF Whole
  <2>2. CASE ~Whole(v)
    <3>1. Given(v) /\ held[v] # Needs[v] /\ held[v] \subseteq Needs[v] /\ Polled[v] # {}
      BY <2>0, <2>2 DEF Sessions, Whole, Given, TypeOK
    <3>2. ~Answers(v)
      BY <2>0, <3>1, RecipeAssumption DEF Answers
    <3>3. CASE v \in reached
      <4>1. v \in missed
        BY <1>2, <3>2, <3>3
      <4>2. Missed(v) = MaxErrors
        BY <2>0, <3>1 DEF Missed, Given
      <4>3. FaultKind(Missed(v)) = "disconnected"
        BY <2>0, <4>2 DEF FaultKind
      <4> QED
        BY <1>2, <2>0, <4>1, <4>2, <4>3 DEF Given
    <3>4. CASE v \notin reached
      BY <1>2, <2>0, <3>1, <3>4 DEF Given
    <3> QED
      BY <3>3, <3>4
  <2> QED
    BY <2>1, <2>2
<1> QED
  BY <1>3, <1>4, <1>5 DEF Sessions

LEMMA RetrySessions == ASSUME TypeOK, Sessions, NEW v \in VIs, RetryFault(v) PROVE Sessions'
<1> USE DEF registryVars, sessionVars
<1>1. ASSUME NEW answers, PolledOnce(v, answers)
      PROVE  /\ \A u \in VIs \ {v} : kind'[u] = kind[u] /\ count'[u] = count[u]
             /\ \A u \in VIs : Polled[u] = {} => kind'[u] = "ok"
  BY <1>1 DEF PolledOnce, Sessions, TypeOK
<1>2. CASE RetryPoll(v)
  <2>1. v \in live /\ kind[v] # "disconnected" /\ live' = live /\ held' = held
    BY <1>2 DEF RetryPoll
  <2>2. Whole(v)
    BY <2>1 DEF Sessions, Given
  <2>3. PolledOnce(v, Answers(v))
    BY <1>2 DEF RetryPoll
  <2>4. ASSUME NEW u \in live PROVE (Whole(u) \/ Given(u))'
    BY <1>1, <2>1, <2>2, <2>3 DEF Sessions, Whole, Given, TypeOK
  <2> QED
    BY <1>1, <2>1, <2>3, <2>4 DEF Sessions
<1>3. ASSUME NEW closed, closed \subseteq Exclusive(v, live), live' = live, v \in live,
             kind[v] = "disconnected", held' = Without(closed), RebuildFails(v)
      PROVE  Sessions'
  <2>1. /\ kind' = kind /\ count'[v] = MaxErrors
        /\ \A u \in VIs \ {v} : count'[u] = count[u]
        /\ \A u \in VIs : held'[u] = held[u] \ closed
    BY <1>3 DEF RebuildFails, Without, TypeOK
  <2>2. ASSUME NEW u \in live PROVE (Whole(u) \/ Given(u))'
    <3>1. CASE u = v
      BY <1>3, <2>1, <3>1 DEF Given
    <3>2. CASE u # v
      BY <1>3, <2>1, <3>2, OthersKeep DEF TypeOK
    <3> QED
      BY <3>1, <3>2
  <2> QED
    BY <1>3, <2>1, <2>2 DEF Sessions
<1>4. CASE RebuildBreaksOff(v)
  BY <1>3, <1>4 DEF RebuildBreaksOff, RebuildAllowed
<1>5. CASE RebuildUnidentified(v)
  <2>1. Exclusive(v, live) \cup Exclusive(v, VIs) \subseteq Exclusive(v, live)
    BY ExclusiveWider DEF TypeOK
  <2> QED
    BY <1>3, <1>5, <2>1 DEF RebuildUnidentified, RebuildAllowed
<1>6. CASE RebuildSucceeds(v)
  <2>1. /\ v \in live /\ live' = live /\ PolledOnce(v, TRUE)
        /\ held' = [Without(Exclusive(v, live)) EXCEPT ![v] = Needs[v]]
    BY <1>6 DEF RebuildSucceeds, RebuildAllowed
  <2>2. /\ held'[v] = Needs[v]
        /\ \A u \in VIs \ {v} : held'[u] = held[u] \ Exclusive(v, live)
    BY <2>1 DEF Without
  <2>3. ASSUME NEW u \in live PROVE (Whole(u) \/ Given(u))'
    <3>1. CASE u = v
      BY <2>2, <3>1 DEF Whole
    <3>2. CASE u # v
      <4>1. u \in VIs \ {v} /\ u \in live \ {v}
        BY <3>2 DEF TypeOK
      <4>2. kind'[u] = kind[u] /\ count'[u] = count[u]
        BY <1>1, <2>1, <4>1
      <4>3. held'[u] = held[u] \ Exclusive(v, live)
        BY <2>2, <4>1
      <4> QED
        BY <4>1, <4>2, <4>3, OthersKeep
    <3> QED
      BY <3>1, <3>2
  <2> QED
    BY <1>1, <2>1, <2>3 DEF Sessions
<1> QED
  BY <1>2, <1>4, <1>5, <1>6 DEF RetryFault

LEMMA NextSessions == TypeOK /\ Sessions /\ [Next]_vars => Sessions'
<1> SUFFICES ASSUME TypeOK, Sessions, [Next]_vars PROVE Sessions'
  OBVIOUS
<1>1. ASSUME UNCHANGED <<live, held, faultVars>> PROVE Sessions'
  BY <1>1 DEF faultVars, Sessions, Whole, Given
<1>2. CASE RunStateChanges
  BY <1>1, <1>2 DEF RunStateChanges, registryVars, sessionVars
<1>3. ASSUME NEW d \in Drivers, StopsAnswering(d) \/ AnswersAgain(d) PROVE Sessions'
  BY <1>1, <1>3 DEF StopsAnswering, AnswersAgain, registryVars, sessionVars
<1>4. CASE UNCHANGED vars
  BY <1>1, <1>4 DEF vars, registryVars, sessionVars
<1> QED
  BY <1>2, <1>3, <1>4, ConnectSessions, DisconnectSessions, PollSessions, RetrySessions
     DEF Next

\* Connecting, disconnecting or rebuilding one VI never closes a session under another,
\* and no VI with a lost session passes for working, however drivers are shared.
THEOREM LiveSessionsCurrentHolds == Spec => []LiveSessionsCurrent
<1>1. Init => TypeOK /\ Sessions
  BY InitType, InitSessions
<1>2. (TypeOK /\ Sessions) /\ [Next]_vars => (TypeOK /\ Sessions)'
  BY NextType, NextSessions
<1> QED
  BY <1>1, <1>2, SessionsLive, PTL DEF Spec

-----------------------------------------------------------------------------
(* Released instruments are free.                                           *)

LEMMA InitReleased == Init => ReleasedIsFree
<1> SUFFICES ASSUME Init, NEW d \in open
             PROVE  \E v \in VIs : d \in Needs[v] /\ (v \in live \/ "connect_failed" \in tags[v])
  BY DEF ReleasedIsFree
<1>1. PICK v \in VIs : d \in Needs[v]
  BY RecipeAssumption DEF Init
<1> QED
  BY <1>1 DEF Init

\* A step that opens only sessions of a user, and takes no user away.
LEMMA UsersStay ==
  ASSUME ReleasedIsFree, NEW v \in VIs, open' \subseteq open \cup Needs[v],
         v \in live' \/ "connect_failed" \in tags'[v],
         \A u \in VIs \ {v} : /\ u \in live => u \in live'
                              /\ tags'[u] = tags[u]
  PROVE  ReleasedIsFree'
  BY DEF ReleasedIsFree

LEMMA NextReleased == TypeOK /\ ReleasedIsFree /\ [Next]_vars => ReleasedIsFree'
<1> SUFFICES ASSUME TypeOK, ReleasedIsFree, [Next]_vars PROVE ReleasedIsFree'
  OBVIOUS
<1> USE DEF registryVars, sessionVars
<1>1. ASSUME UNCHANGED <<live, tags, open>> PROVE ReleasedIsFree'
  BY <1>1 DEF ReleasedIsFree
<1>2. ASSUME NEW v \in VIs, Connect(v) PROVE ReleasedIsFree'
  <2>1. open' \subseteq open \cup Needs[v]
    BY <1>2 DEF Connect, ConnectBreaksOff, ConnectUnidentified, ConnectSucceeds, Openings
  <2>2. v \in live' \/ "connect_failed" \in tags'[v]
    BY <1>2 DEF Connect, ConnectBreaksOff, ConnectUnidentified, ConnectSucceeds, ConnectFails,
                TypeOK
  <2>3. \A u \in VIs \ {v} : (u \in live => u \in live') /\ tags'[u] = tags[u]
    BY <1>2 DEF Connect, ConnectBreaksOff, ConnectUnidentified, ConnectSucceeds, ConnectFails,
                TypeOK
  <2> QED
    BY <2>1, <2>2, <2>3, UsersStay
<1>3. ASSUME NEW v \in VIs, Disconnect(v) PROVE ReleasedIsFree'
  <2>1. /\ open' = open \ Exclusive(v, live) /\ live' = live \ {v}
        /\ \A u \in VIs \ {v} : tags'[u] = tags[u]
    BY <1>3 DEF Disconnect, TypeOK
  <2>2. ASSUME NEW d \in open'
        PROVE  \E u \in VIs \ {v} : d \in Needs[u] /\ (u \in live \/ "connect_failed" \in tags[u])
    <3>1. PICK u \in VIs : d \in Needs[u] /\ (u \in live \/ "connect_failed" \in tags[u])
      BY <2>1, <2>2 DEF ReleasedIsFree
    <3>2. CASE u = v
      BY <2>1, <2>2, <3>1, <3>2 DEF Exclusive, TypeOK
    <3>3. CASE u # v
      BY <3>1, <3>3
    <3> QED
      BY <3>2, <3>3
  <2> QED
    BY <2>1, <2>2 DEF ReleasedIsFree
<1>4. ASSUME NEW v \in VIs, RetryFault(v) PROVE ReleasedIsFree'
  <2>1. v \in live /\ live' = live /\ tags' = tags
    BY <1>4 DEF RetryFault, RetryPoll, RebuildBreaksOff, RebuildUnidentified, RebuildSucceeds,
                RebuildAllowed
  <2>2. open' \subseteq open \cup Needs[v]
    BY <1>4 DEF RetryFault, RetryPoll, RebuildBreaksOff, RebuildUnidentified, RebuildSucceeds,
                Openings
  <2> QED
    BY <2>1, <2>2, UsersStay
<1>5. CASE Poll \/ RunStateChanges
  BY <1>1, <1>5 DEF Poll, RunStateChanges
<1>6. ASSUME NEW d \in Drivers, StopsAnswering(d) \/ AnswersAgain(d) PROVE ReleasedIsFree'
  BY <1>1, <1>6 DEF StopsAnswering, AnswersAgain
<1>7. CASE UNCHANGED vars
  BY <1>1, <1>7 DEF vars
<1> QED
  BY <1>2, <1>3, <1>4, <1>5, <1>6, <1>7 DEF Next

\* No session stays open to an instrument the operator has released, unless a live VI
\* shares it or a connection to it failed half-way.
THEOREM ReleasedIsFreeHolds == Spec => []ReleasedIsFree
<1>1. Init => TypeOK /\ ReleasedIsFree
  BY InitType, InitReleased
<1>2. (TypeOK /\ ReleasedIsFree) /\ [Next]_vars => (TypeOK /\ ReleasedIsFree)'
  BY NextType, NextReleased
<1> QED
  BY <1>1, <1>2, PTL DEF Spec

-----------------------------------------------------------------------------
(* A run keeps its instruments.                                             *)

ClaimKept(v) ==
  /\ v \in live <=> v \in live'
  /\ held'[v] = held[v]
  /\ v \in live => dead \cap held[v] \subseteq dead'

\* A rebuild of another VI closes nothing that v needs.
LEMMA RebuildSpares ==
  ASSUME TypeOK, NEW v \in VIs, NEW w \in VIs \ {v}, RetryFault(w)
  PROVE  ClaimKept(v)
<1> USE DEF registryVars, sessionVars
<1>1. held[v] \cap Exclusive(w, live) = {}
  BY DEF TypeOK, Exclusive
<1>2. Exclusive(w, VIs) \subseteq Exclusive(w, live)
  BY ExclusiveWider DEF TypeOK
<1>3. CASE RetryPoll(w)
  BY <1>3 DEF RetryPoll, ClaimKept
<1>4. CASE RebuildBreaksOff(w)
  BY <1>1, <1>4 DEF RebuildBreaksOff, Without, ClaimKept
<1>5. CASE RebuildUnidentified(w)
  <2>1. /\ live' = live
        /\ held'[v] = held[v] \ (Exclusive(w, live) \cup Exclusive(w, VIs))
        /\ dead' = dead \ (Exclusive(w, live) \cup Exclusive(w, VIs))
    BY <1>5 DEF RebuildUnidentified, Without
  <2> QED
    BY <1>1, <1>2, <2>1 DEF ClaimKept
<1>6. CASE RebuildSucceeds(w)
  BY <1>1, <1>6 DEF RebuildSucceeds, Without, ClaimKept
<1> QED
  BY <1>3, <1>4, <1>5, <1>6 DEF RetryFault

LEMMA NextClaimKept ==
  ASSUME TypeOK, Next, NEW v \in claims \cap claims'
  PROVE  ClaimKept(v)
<1> USE DEF registryVars, sessionVars
<1>0. v \in VIs /\ ~idle
  BY DEF TypeOK
<1>1. ASSUME NEW w \in VIs, Connect(w) \/ Disconnect(w) PROVE FALSE
  BY <1>0, <1>1 DEF Connect, ConnectBreaksOff, ConnectUnidentified, ConnectSucceeds, Disconnect
<1>2. ASSUME NEW w \in VIs, RetryFault(w) PROVE ClaimKept(v)
  <2>1. CASE w # v
    BY <1>0, <1>2, <2>1, RebuildSpares
  <2>2. CASE w = v
    <3>1. RetryPoll(v)
      BY <1>2, <2>2 DEF RetryFault, RebuildBreaksOff, RebuildUnidentified, RebuildSucceeds,
                        RebuildAllowed
    <3> QED
      BY <3>1 DEF RetryPoll, ClaimKept
  <2> QED
    BY <2>1, <2>2
<1>3. CASE Poll \/ RunStateChanges
  BY <1>3 DEF Poll, RunStateChanges, ClaimKept
<1>4. ASSUME NEW d \in Drivers, StopsAnswering(d) \/ AnswersAgain(d) PROVE ClaimKept(v)
  BY <1>4 DEF StopsAnswering, AnswersAgain, ClaimKept
<1> QED
  BY <1>1, <1>2, <1>3, <1>4 DEF Next

\* While a run claims a VI, nothing connects, releases or rebuilds it.
THEOREM ClaimedVIKeptHolds == Spec => ClaimedVIKept
<1>1. TypeOK /\ [Next]_vars =>
        [\A v \in claims \cap claims' :
           /\ v \in live <=> v \in live'
           /\ held'[v] = held[v]
           /\ v \in live => dead \cap held[v] \subseteq dead']_vars
  BY NextClaimKept DEF ClaimKept
<1> QED
  BY <1>1, StationTypeCorrect, PTL DEF Spec, ClaimedVIKept
=============================================================================
