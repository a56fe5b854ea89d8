---------------------------- MODULE RunLifecycle ----------------------------
(***************************************************************************)
(* What the Orchestrator promises about a run, without its ticks, ramps,    *)
(* gates and queues: at most one run is open; it is opened when its setup   *)
(* has been sent and closed exactly once, with the status of the way it     *)
(* ended; where the machine stands afterwards depends on that way only.     *)
(***************************************************************************)
CONSTANTS Procedures, Operations, NoRun

VARIABLES
  phase,     \* "idle", "active", "paused", "error" or "emergency"
  owner,     \* the open run, or NoRun
  verdict    \* status of the last run that was closed

vars == <<phase, owner, verdict>>

Open == phase \in {"active", "paused"}

Init == phase = "idle" /\ owner = NoRun /\ verdict = "none"

\* A procedure starts from idle only, an operation also out of an emergency.
Begin(r) ==
  /\ phase = "idle" \/ (phase = "emergency" /\ r \in Operations)
  /\ phase' = "active"
  /\ owner' = r
  /\ UNCHANGED verdict

Close(status, next) ==
  /\ Open
  /\ owner' = NoRun
  /\ verdict' = status
  /\ phase' = next

\* Only an operation may hand the station back to the emergency it found.
Done ==
  /\ phase = "active"
  /\ \/ Close("done", "idle")
     \/ owner \in Operations /\ Close("done", "emergency")

Abort == Close("aborted", "idle")

\* A fault of one instrument ends a run that is moving, never a paused one.
FaultEndsRun == phase = "active" /\ Close("failed", "idle")

Pause == phase = "active" /\ phase' = "paused" /\ UNCHANGED <<owner, verdict>>
Resume == phase = "paused" /\ phase' = "active" /\ UNCHANGED <<owner, verdict>>

\* An internal error and a critical condition are reached from everywhere.
Fail(next) == Close("failed", next) \/ (~Open /\ phase' = next /\ UNCHANGED <<owner, verdict>>)

BackToIdle == phase \in {"error", "emergency"} /\ phase' = "idle" /\ UNCHANGED <<owner, verdict>>

Next ==
  \/ \E r \in Procedures \cup Operations : Begin(r)
  \/ Done \/ Abort \/ FaultEndsRun \/ Pause \/ Resume
  \/ Fail("error") \/ Fail("emergency")
  \/ BackToIdle

Spec == Init /\ [][Next]_vars
=============================================================================
