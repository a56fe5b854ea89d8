---------------------------- MODULE Orchestrator ----------------------------
(***************************************************************************)
(* The Orchestrator of cryosoft/core/orchestrator.py: the tick-driven      *)
(* state machine that runs procedures and operations on a cryostat, holds  *)
(* unsafe instruments at standby, enters EMERGENCY, and arbitrates between *)
(* the active run, the two run queues and the operator's front panel.      *)
(*                                                                         *)
(* The program is one Qt thread.  Between two events (a tick of the timer  *)
(* or a call of the GUI) pc is "loop" and any public method may be called; *)
(* an event that has begun is finished before the next one starts.  A tick *)
(* is the sequence Poll, verdict, drain, machine; a method that ends by    *)
(* calling run_queue() or _start_run() goes through pc "queue" or "start"  *)
(* before the loop is reached again.                                       *)
(*                                                                         *)
(* Where two forms of a definition stand together the first is a plausible *)
(* mistake, used by no other definition: it is there to see that the       *)
(* properties notice it.                                                   *)
(***************************************************************************)
EXTENDS Naturals, Sequences, FiniteSets

CONSTANTS
  VIs,             \* the rampable system VIs of the station
  VIOrder,         \* their registration order, the order a global action fans out in
  Concerned,       \* the VIs whose safety_concerns() name "helium_low"
  Procedures,      \* runs of scope "measurement"
  Operations,      \* runs of scope "operation"
  NoRun,           \* stands for self._procedure is None
  AnyVI,           \* a name no VI has: the claim of a run that claims everything
  Claims,          \* claimed_vi_names() of a run: a set of VIs, or Everything
  InitTargets,     \* VIs the plan of initiate() sends a Target to
  InitStandby,     \* VIs the plan of initiate() commands to standby()
  StepTargets,     \* VIs a plan of change_sweep_step() sends a Target to
  StandbyTargets,  \* VIs the plan of standby() sends a Target to
  StandbyParks,    \* VIs a procedure's plan of standby() commands to standby()
  InitGated,       \* runs whose initiation_gates() is not empty
  ReadGated,       \* runs whose reading_gates() is not empty
  Stepped,         \* operations that may set skip_ramp_requested
  Tolerates,       \* tolerated_safety_flags of an operation
  EnvFlags,        \* safety flags the environment may trip
  CommVIs,         \* VIs whose link may fail
  Raisers,         \* VIs whose driver may raise inside a ramp command
  Drifters,        \* VIs whose ramp_status() compares the live reading with the target
  MayRaise,        \* whether a run's own code may raise
  HasEnvelope,     \* whether a session envelope is installed
  PersistentVIs,   \* magnets that have a persistent mode
  Manual,          \* methods the front panel may call
  QueueBound,      \* bound on each run queue
  GuiBound         \* bound on the queue of manual actions

Flags == {"helium_low", "quench"}
CommKinds == {"ok", "stale", "disconnected"}
\* _active_claims is None
Everything == {AnyVI}
Runs == Procedures \cup Operations
States == {"IDLE", "INITIATING", "RAMPING", "INITIATION_GATE", "READING_GATE",
           "MEASURING", "SWEEPING", "STANDBY", "PAUSED", "ERROR", "EMERGENCY"}
GateStates == {"INITIATION_GATE", "READING_GATE"}
Request == [vi : VIs, act : {"ramp", "standby", "initiate", "persist"}]

ASSUME RunsAssumption ==
  /\ Procedures \cap Operations = {}
  /\ NoRun \notin Runs
  /\ AnyVI \notin VIs
  /\ Claims \in [Runs -> (SUBSET VIs) \cup {Everything}]
  /\ InitTargets \in [Runs -> SUBSET VIs]
  /\ InitStandby \in [Runs -> SUBSET VIs]
  /\ StepTargets \in [Runs -> SUBSET VIs]
  /\ StandbyTargets \in [Runs -> SUBSET VIs]
  /\ StandbyParks \in [Procedures -> SUBSET VIs]
  /\ \A p \in Procedures : StandbyTargets[p] \cup StandbyParks[p] \subseteq InitTargets[p]
  /\ Tolerates \in [Operations -> SUBSET Flags]
ASSUME StationAssumption ==
  /\ VIOrder \in Seq(VIs)
  /\ Concerned \subseteq VIs
  /\ CommVIs \subseteq VIs
  /\ Raisers \subseteq VIs
  /\ Drifters \subseteq VIs
  /\ PersistentVIs \subseteq VIs
  /\ EnvFlags \subseteq Flags
  /\ MayRaise \in BOOLEAN
  /\ HasEnvelope \in BOOLEAN
  /\ Manual \subseteq {"ramp", "standby", "initiate", "persist"}
  /\ QueueBound \in Nat
  /\ GuiBound \in Nat

VARIABLES
  st,                 \* OrchestratorState
  pc,                 \* where the thread stands inside the current event
  monitoring,         \* _monitoring
  run,                \* _procedure
  claims,             \* _active_claims
  activeVis,          \* _active_system_vis, the ramp scope of the run
  standbyDispatched,  \* _standby_dispatched
  waitStarted,        \* _wait_started
  firstMeasurement,   \* _first_measurement
  gates,              \* _pending_gates is not empty
  pauseRequested,     \* _pause_requested
  prePause,           \* _pre_pause_state
  fromEmergency,      \* _operation_started_from_emergency
  lastTargets,        \* the VIs of _last_system_targets
  finishRequested,    \* finish_requested of the active operation
  skipRamp,           \* skip_ramp_requested of the active operation
  opQueue,            \* _operation_queue
  procQueue,          \* _procedure_queue
  guiQueue,           \* _gui_action_queue
  comm,               \* kind of the comm condition of each VI, "ok" if none
  tripped,            \* safety flags of the last polled state
  cond,               \* safety conditions registered by update_conditions()
  envBad,             \* the polled state violates the session envelope
  ramping,            \* VIs whose ramp_status() is RAMPING
  settled,            \* drifters whose finished ramp is still compared with its target
  parked,             \* VIs whose _standby_commanded bit is set
  persistent,         \* magnets whose persistent_mode_enabled() is true
  emOverride,         \* now < _emergency_override_until
  holdOverride,       \* keys of _hold_override_until that have not expired
  limited,            \* VIs whose last enforcement attempt is too recent to retry
  manifest,           \* the run _active_run_manifest describes
  outcome             \* status of the last run_finished signal

runVars == <<run, claims, activeVis, standbyDispatched, waitStarted,
             firstMeasurement, gates, pauseRequested, prePause, fromEmergency,
             lastTargets, finishRequested, skipRamp>>
queueVars == <<opQueue, procQueue, guiQueue>>
pollVars == <<comm, tripped, cond, envBad>>
hwVars == <<ramping, settled, parked, persistent>>
overrideVars == <<emOverride, holdOverride, limited>>
recordVars == <<manifest, outcome>>
vars == <<st, pc, monitoring, runVars, queueVars, pollVars, hwVars,
          overrideVars, recordVars>>

TypeOK ==
  /\ st \in States
  /\ pc \in {"loop", "verdict", "drain", "machine", "queue", "start"}
  /\ monitoring \in BOOLEAN
  /\ run \in Runs \cup {NoRun}
  /\ claims \in (SUBSET VIs) \cup {Everything}
  /\ activeVis \in SUBSET VIs
  /\ standbyDispatched \in BOOLEAN
  /\ waitStarted \in BOOLEAN
  /\ firstMeasurement \in BOOLEAN
  /\ gates \in BOOLEAN
  /\ pauseRequested \in BOOLEAN
  /\ prePause \in States
  /\ fromEmergency \in BOOLEAN
  /\ lastTargets \in SUBSET VIs
  /\ finishRequested \in BOOLEAN
  /\ skipRamp \in BOOLEAN
  /\ opQueue \in Seq(Operations)
  /\ procQueue \in Seq(Procedures)
  /\ guiQueue \in Seq(Request)
  /\ comm \in [VIs -> CommKinds]
  /\ tripped \in SUBSET Flags
  /\ cond \in SUBSET Flags
  /\ envBad \in BOOLEAN
  /\ ramping \in SUBSET VIs
  /\ settled \in SUBSET VIs
  /\ parked \in SUBSET VIs
  /\ persistent \in SUBSET VIs
  /\ emOverride \in BOOLEAN
  /\ holdOverride \in SUBSET (VIs \cup Flags)
  /\ limited \in SUBSET VIs
  /\ manifest \in Runs \cup {NoRun}
  /\ outcome \in {"none", "done", "aborted", "failed"}

Init ==
  /\ st = "IDLE"
  /\ pc = "loop"
  /\ monitoring = FALSE
  /\ run = NoRun
  /\ claims = Everything
  /\ activeVis = {}
  /\ standbyDispatched = FALSE
  /\ waitStarted = FALSE
  /\ firstMeasurement = TRUE
  /\ gates = FALSE
  /\ pauseRequested = FALSE
  /\ prePause = "IDLE"
  /\ fromEmergency = FALSE
  /\ lastTargets = {}
  /\ finishRequested = FALSE
  /\ skipRamp = FALSE
  /\ opQueue = <<>>
  /\ procQueue = <<>>
  /\ guiQueue = <<>>
  /\ comm = [v \in VIs |-> "ok"]
  /\ tripped = {}
  /\ cond = {}
  /\ envBad = FALSE
  /\ ramping = {}
  /\ settled = {}
  /\ parked = {}
  /\ persistent = {}
  /\ emOverride = FALSE
  /\ holdOverride = {}
  /\ limited = {}
  /\ manifest = NoRun
  /\ outcome = "none"

-----------------------------------------------------------------------------
(* What the code reads: conditions, holds, overrides, admissibility.        *)

ManualRampAnyOwner == st = "RAMPING"
ManualRamp == st = "RAMPING" /\ run = NoRun
OperationActive == run \in Operations
RunActiveOnceMoving == st \notin {"IDLE", "INITIATING", "PAUSED", "ERROR", "EMERGENCY"}
RunActive == st \notin {"IDLE", "PAUSED", "ERROR", "EMERGENCY"}
RunRampScopeStation == VIs
RunRampScope == IF run = NoRun THEN VIs ELSE activeVis

\* The severity of "quench" is critical; a violated session envelope is one too,
\* except while the EMERGENCY it caused lasts.
Emergency == "quench" \in cond \/ (envBad /\ st # "EMERGENCY")

Held(v) == comm[v] # "ok" \/ ("helium_low" \in cond /\ v \in Concerned)
HeldVIs == {v \in VIs : Held(v)}
\* decide() keeps the first condition in key order: "comm:..." before "safety:...".
HoldKeyByKind(v) == IF comm[v] # "ok" THEN comm[v] ELSE "helium_low"
HoldKey(v) == IF comm[v] # "ok" THEN v ELSE "helium_low"
HoldOverridden(v) == Held(v) /\ HoldKey(v) \in holdOverride

Claimed(v) == run # NoRun /\ (claims = Everything \/ v \in claims)
Watched == activeVis \cup (IF claims = Everything THEN {} ELSE claims)

Admissible(v) ==
  \/ /\ Held(v)
     /\ comm[v] = "ok"
     /\ \/ emOverride
        \/ HoldOverridden(v) /\ st \notin {"EMERGENCY", "ERROR"}
  \/ /\ ~Held(v)
     /\ \/ st = "IDLE"
        \/ ManualRamp
        \/ st = "EMERGENCY" /\ emOverride
        \/ st \notin {"EMERGENCY", "ERROR"} /\ run # NoRun /\ ~Claimed(v)

PersistentMagnets == persistent # {}
EnvelopeReadings == IF HasEnvelope THEN BOOLEAN ELSE {FALSE}

-----------------------------------------------------------------------------
(* What a ramp command does to the VIs.                                     *)

\* start_ramp() on vs: the standby provenance is gone; a ramp may finish at once.
StartRamps(vs) ==
  /\ \E moving \in SUBSET vs :
       /\ ramping' = (ramping \ vs) \cup moving
       /\ settled' = (settled \ vs) \cup ((vs \ moving) \cap Drifters)
  /\ parked' = parked \ vs

\* stop_ramp() on vs drops the ramp before it talks to the driver, so that a
\* driver that raises does not leave the VI ramping.
StopRamps(vs, still) ==
  /\ ramping' = still \ vs
  /\ settled' = settled \ vs
  /\ parked' = parked \ vs

\* standby() on vs.  It fails on the VIs of fail, of which lost were parked before.
Standby(vs, still, wasParked, fail) ==
  \E moving \in SUBSET vs, lost \in SUBSET (fail \cap wasParked) :
    /\ ramping' = (still \ vs) \cup moving
    /\ settled' = settled \ moving
    /\ parked' = (wasParked \ lost) \cup (vs \ fail)

\* advance_ramps(): every ramping VI advances, those of arrived reach their target.
Advance(arrived) ==
  /\ ramping' = ramping \ arrived
  /\ settled' = settled \cup (arrived \cap Drifters)
  /\ UNCHANGED <<parked, persistent>>

-----------------------------------------------------------------------------
(* How a run ends.                                                          *)

ClearRun ==
  /\ run' = NoRun
  /\ claims' = Everything
  /\ activeVis' = {}
  /\ standbyDispatched' = FALSE
  /\ pauseRequested' = FALSE
  /\ fromEmergency' = FALSE
  /\ finishRequested' = FALSE
  /\ skipRamp' = FALSE
  /\ UNCHANGED prePause

EmitRunFinishedKeepsRecord(status) ==
  /\ manifest' = manifest
  /\ outcome' = IF manifest = NoRun THEN outcome ELSE status

EmitRunFinished(status) ==
  /\ manifest' = NoRun
  /\ outcome' = IF manifest = NoRun THEN outcome ELSE status

\* _abort_active_procedure() and the run_finished signal every caller emits next;
\* the ramps it stops are those of the callers' StopRamps(RunRampScope, ...).
AbortActive(status) ==
  /\ ClearRun
  /\ waitStarted' = FALSE
  /\ firstMeasurement' = TRUE
  /\ gates' = FALSE
  /\ lastTargets' = {}
  /\ EmitRunFinished(status)

FailToErrorKeepsRun(scope, still) ==
  /\ StopRamps(scope, still)
  /\ st' = "ERROR"
  /\ pc' = "loop"
  /\ UNCHANGED <<runVars, recordVars, persistent>>

\* _fail_to_error(): what raised may have let some ramps arrive before.
FailToError(scope, still) ==
  /\ StopRamps(scope, still)
  /\ AbortActive("failed")
  /\ st' = "ERROR"
  /\ pc' = "loop"
  /\ UNCHANGED persistent

-----------------------------------------------------------------------------
(* Starting a run.                                                          *)

\* The common tail of run_procedure() and run_operation(): a manual ramp is
\* cancelled on every VI, monitoring is forced on, _start_run() comes next.
BeginRun(r, started) ==
  /\ IF ManualRamp THEN StopRamps(VIs, ramping) ELSE UNCHANGED <<ramping, settled, parked>>
  /\ monitoring' = TRUE
  /\ fromEmergency' = started
  /\ run' = r
  /\ pc' = "start"
  /\ UNCHANGED <<st, claims, activeVis, standbyDispatched, waitStarted, firstMeasurement,
                 gates, pauseRequested, prePause, lastTargets, finishRequested, skipRamp,
                 pollVars, persistent, overrideVars, recordVars>>

\* An action_blocked verdict: nothing but the queue that was popped changes.
Blocked ==
  /\ pc' = "loop"
  /\ UNCHANGED <<st, monitoring, runVars, pollVars, hwVars, overrideVars, recordVars>>

RunProcedure(p) ==
  /\ pc = "loop"
  /\ IF PersistentMagnets
     THEN Blocked /\ UNCHANGED queueVars
     ELSE \/ /\ st = "IDLE" \/ ManualRamp
             /\ BeginRun(p, FALSE)
             /\ UNCHANGED queueVars
          \/ /\ st # "IDLE" /\ ~ManualRamp
             /\ Len(procQueue) < QueueBound
             /\ procQueue' = Append(procQueue, p)
             /\ UNCHANGED <<opQueue, guiQueue>>
             /\ Blocked

RunOperation(o) ==
  /\ pc = "loop"
  /\ \/ st = "EMERGENCY" /\ tripped \subseteq Tolerates[o] /\ BeginRun(o, TRUE)
     \/ (st = "IDLE" \/ ManualRamp) /\ BeginRun(o, FALSE)
  /\ UNCHANGED queueVars

QueueProcedure(p) ==
  /\ pc = "loop"
  /\ Len(procQueue) < QueueBound
  /\ procQueue' = Append(procQueue, p)
  /\ UNCHANGED <<opQueue, guiQueue>>
  /\ Blocked

QueueOperation(o) ==
  /\ pc = "loop"
  /\ Len(opQueue) < QueueBound
  /\ opQueue' = Append(opQueue, o)
  /\ UNCHANGED <<procQueue, guiQueue>>
  /\ Blocked

\* run_queue(): called from the panel at any time, and by the code that ends a
\* run with the queue enabled (pc "queue").  An operation goes first.
RunQueue ==
  /\ pc = "queue" \/ (pc = "loop" /\ st = "IDLE" /\ Len(opQueue) + Len(procQueue) > 0)
  /\ UNCHANGED guiQueue
  /\ \/ /\ opQueue # <<>>
        /\ opQueue' = Tail(opQueue)
        /\ UNCHANGED procQueue
        /\ BeginRun(Head(opQueue), FALSE)
     \/ /\ opQueue = <<>> /\ procQueue # <<>>
        /\ procQueue' = Tail(procQueue)
        /\ UNCHANGED opQueue
        /\ IF PersistentMagnets THEN Blocked ELSE BeginRun(Head(procQueue), FALSE)
     \/ /\ opQueue = <<>> /\ procQueue = <<>>
        /\ UNCHANGED <<opQueue, procQueue>>
        /\ Blocked

\* _start_run() when nothing raises.
StartRun ==
  /\ pc = "start"
  /\ claims' = Claims[run]
  /\ activeVis' = InitTargets[run]
  /\ lastTargets' = InitTargets[run]
  /\ standbyDispatched' = FALSE
  /\ waitStarted' = FALSE
  /\ firstMeasurement' = TRUE
  /\ gates' = FALSE
  /\ pauseRequested' = FALSE
  /\ \E moving \in SUBSET (InitTargets[run] \cup InitStandby[run]) :
       /\ ramping' = (ramping \ (InitTargets[run] \cup InitStandby[run])) \cup moving
       /\ settled' = (settled \ (moving \cup InitTargets[run]))
                       \cup ((InitTargets[run] \ moving) \cap Drifters)
  /\ parked' = (parked \ InitTargets[run]) \cup InitStandby[run]
  /\ st' = "INITIATING"
  /\ manifest' = run
  /\ pc' = "loop"
  /\ UNCHANGED <<monitoring, run, prePause, fromEmergency, finishRequested, skipRamp,
                 queueVars, pollVars, persistent, overrideVars, outcome>>

\* initiate() raises: _active_system_vis still names the VIs of the last run,
\* which every end of a run has emptied.
StartRunRaises ==
  /\ pc = "start"
  /\ MayRaise
  /\ FailToError(activeVis, ramping)
  /\ UNCHANGED <<monitoring, queueVars, pollVars, overrideVars>>

\* A command or a target is refused or raises after the run's scope is known.
StartRunRefused ==
  /\ pc = "start"
  /\ MayRaise \/ HasEnvelope \/ InitTargets[run] \cap Raisers # {}
  /\ \E sent \in SUBSET InitStandby[run] :
       \E moving \in SUBSET sent :
         /\ ramping' = ((ramping \ sent) \cup moving) \ InitTargets[run]
         /\ settled' = (settled \ moving) \ InitTargets[run]
         /\ parked' = (parked \cup sent) \ InitTargets[run]
  /\ AbortActive("failed")
  /\ st' = "ERROR"
  /\ pc' = "loop"
  /\ UNCHANGED <<persistent, monitoring, queueVars, pollVars, overrideVars>>

-----------------------------------------------------------------------------
(* Controlling the run.                                                     *)

StartMonitoring ==
  /\ pc = "loop"
  /\ monitoring' = TRUE
  /\ UNCHANGED <<st, pc, runVars, queueVars, pollVars, hwVars, overrideVars, recordVars>>

StopMonitoringAnytime ==
  /\ pc = "loop"
  /\ monitoring' = FALSE
  /\ UNCHANGED <<st, pc, runVars, queueVars, pollVars, hwVars, overrideVars, recordVars>>

StopMonitoring ==
  /\ pc = "loop"
  /\ st \in {"IDLE", "ERROR"}
  /\ monitoring' = FALSE
  /\ UNCHANGED <<st, pc, runVars, queueVars, pollVars, hwVars, overrideVars, recordVars>>

EnterPausedStillPending ==
  /\ UNCHANGED pauseRequested
  /\ prePause' = st
  /\ st' = "PAUSED"

EnterPaused ==
  /\ pauseRequested' = FALSE
  /\ prePause' = st
  /\ st' = "PAUSED"

PauseProcedure ==
  /\ pc = "loop"
  /\ run # NoRun
  /\ \/ /\ st = "MEASURING"
        /\ pauseRequested' = TRUE
        /\ UNCHANGED <<st, prePause, hwVars>>
     \/ /\ st \in {"INITIATING", "RAMPING", "SWEEPING", "STANDBY"} \cup GateStates
        /\ EnterPaused
        /\ StopRamps(RunRampScope, ramping)
        /\ UNCHANGED persistent
  /\ UNCHANGED <<pc, monitoring, run, claims, activeVis, standbyDispatched, waitStarted,
                 firstMeasurement, gates, fromEmergency, lastTargets, finishRequested, skipRamp,
                 queueVars, pollVars, overrideVars, recordVars>>

Redispatches == prePause \in {"INITIATING", "RAMPING", "STANDBY"} /\ lastTargets # {}

ResumeProcedure ==
  /\ pc = "loop"
  /\ \/ /\ st # "PAUSED"
        /\ pauseRequested
        /\ pauseRequested' = FALSE
        /\ UNCHANGED <<st, hwVars>>
     \/ /\ st = "PAUSED"
        /\ IF Redispatches
           THEN StartRamps(lastTargets) /\ UNCHANGED persistent
           ELSE UNCHANGED hwVars
        /\ st' = prePause
        /\ UNCHANGED pauseRequested
  /\ UNCHANGED <<pc, monitoring, run, claims, activeVis, standbyDispatched, waitStarted,
                 firstMeasurement, gates, prePause, fromEmergency, lastTargets,
                 finishRequested, skipRamp, queueVars, pollVars, overrideVars, recordVars>>

\* process_system_targets() raises part-way: the exception leaves through the
\* caller's slot, the run stays PAUSED, the targets sent before are ramping.
ResumeRaises ==
  /\ pc = "loop"
  /\ st = "PAUSED"
  /\ Redispatches
  /\ \E sent \in SUBSET lastTargets : sent \cap Raisers # {} /\ StartRamps(sent)
  /\ UNCHANGED <<st, pc, monitoring, runVars, queueVars, pollVars, persistent, overrideVars,
                 recordVars>>

\* abort_procedure(), also without a run: then every ramp of the station stops.
Abort ==
  /\ StopRamps(RunRampScope, ramping)
  /\ AbortActive("aborted")
  /\ st' = "IDLE"
  /\ pc' = "queue"
  /\ UNCHANGED <<monitoring, pollVars, persistent, overrideVars>>

AbortProcedure ==
  /\ pc = "loop"
  /\ st # "EMERGENCY"
  /\ Abort
  /\ UNCHANGED queueVars

FinishOperation ==
  /\ pc = "loop"
  /\ OperationActive
  /\ finishRequested' = TRUE
  /\ UNCHANGED <<st, pc, monitoring, run, claims, activeVis, standbyDispatched, waitStarted,
                 firstMeasurement, gates, pauseRequested, prePause, fromEmergency, lastTargets,
                 skipRamp, queueVars, pollVars, hwVars, overrideVars, recordVars>>

\* skip_operation_step() of a step whose ramp is still to come or under way.
SkipOperationStep ==
  /\ pc = "loop"
  /\ run \in Stepped
  /\ skipRamp' = TRUE
  /\ UNCHANGED <<st, pc, monitoring, run, claims, activeVis, standbyDispatched, waitStarted,
                 firstMeasurement, gates, pauseRequested, prePause, fromEmergency, lastTargets,
                 finishRequested, queueVars, pollVars, hwVars, overrideVars, recordVars>>

RecoverFromError ==
  /\ pc = "loop"
  /\ st = "ERROR"
  /\ st' = "IDLE"
  /\ UNCHANGED <<pc, monitoring, runVars, queueVars, pollVars, hwVars, overrideVars, recordVars>>

CauseActiveNever == FALSE
\* The critical conditions registered, and the envelope read against the last poll.
CauseActive == "quench" \in cond \/ envBad

Acknowledge ==
  /\ pc = "loop"
  /\ \/ /\ st = "EMERGENCY"
        /\ IF CauseActive
           THEN emOverride' = TRUE /\ st' = st
           ELSE emOverride' = FALSE /\ st' = "IDLE"
        /\ UNCHANGED holdOverride
     \/ /\ st # "EMERGENCY"
        /\ HeldVIs # {}
        /\ holdOverride' = holdOverride \cup {HoldKey(v) : v \in HeldVIs}
        /\ UNCHANGED <<st, emOverride>>
  /\ UNCHANGED <<pc, monitoring, runVars, queueVars, pollVars, hwVars, limited, recordVars>>

\* The override windows and the enforcement interval run out with time.
Expire ==
  /\ pc = "loop"
  /\ \/ emOverride /\ emOverride' = FALSE /\ UNCHANGED <<holdOverride, limited>>
     \/ /\ \E key \in holdOverride : holdOverride' = holdOverride \ {key}
        /\ UNCHANGED <<emOverride, limited>>
     \/ /\ \E v \in limited : limited' = limited \ {v}
        /\ UNCHANGED <<emOverride, holdOverride>>
  /\ UNCHANGED <<st, pc, monitoring, runVars, queueVars, pollVars, hwVars, recordVars>>

-----------------------------------------------------------------------------
(* The front panel.                                                         *)

SubmitViAction(v, act) ==
  /\ pc = "loop"
  /\ Admissible(v)
  /\ act = "persist" => v \in PersistentVIs
  /\ Len(guiQueue) < GuiBound
  /\ guiQueue' = Append(guiQueue, [vi |-> v, act |-> act])
  /\ UNCHANGED <<st, pc, monitoring, runVars, opQueue, procQueue, pollVars, hwVars,
                 overrideVars, recordVars>>

\* "Standby all" aborts the run first; "Initiate all" does not.  Every VI gets a
\* request, each of which is admitted or refused when the tick drains it.
SubmitGlobalAction(act) ==
  /\ pc = "loop"
  /\ Len(guiQueue) + Len(VIOrder) <= GuiBound
  /\ guiQueue' = guiQueue \o [i \in DOMAIN VIOrder |-> [vi |-> VIOrder[i], act |-> act]]
  /\ UNCHANGED <<opQueue, procQueue>>
  /\ IF act = "standby" /\ st \notin {"IDLE", "ERROR", "EMERGENCY"}
     THEN Abort
     ELSE UNCHANGED <<st, pc, monitoring, runVars, pollVars, hwVars, overrideVars, recordVars>>

StopRamp(v) ==
  /\ pc = "loop"
  /\ Admissible(v)
  /\ StopRamps({v}, ramping)
  /\ UNCHANGED <<st, pc, monitoring, runVars, queueVars, pollVars, persistent, overrideVars,
                 recordVars>>

\* A rebuild is refused while the run claims the VI.
RetryAllowed(v) == comm[v] = "disconnected" => ~Claimed(v)

\* retry_fault().  A "disconnected" VI is rebuilt from its recipe, unless the run
\* claims it: the new object knows nothing of ramps, standby or persistent mode.
\* Any other VI is polled once.
RetryFault(v) ==
  /\ pc = "loop"
  /\ v \in CommVIs
  /\ RetryAllowed(v)
  /\ \E answer \in {"ok", "stale"} :
       /\ comm' = [comm EXCEPT ![v] = answer]
       /\ IF answer = "ok"
          THEN tripped' \in SUBSET EnvFlags /\ envBad' \in EnvelopeReadings
          ELSE UNCHANGED <<tripped, envBad>>
  /\ IF comm[v] = "disconnected"
     THEN /\ ramping' = ramping \ {v}
          /\ settled' = settled \ {v}
          /\ parked' = parked \ {v}
          /\ persistent' = persistent \ {v}
     ELSE UNCHANGED hwVars
  /\ UNCHANGED <<st, pc, monitoring, runVars, queueVars, cond, overrideVars, recordVars>>

-----------------------------------------------------------------------------
(* The tick, first part: poll, then act on the verdict.                     *)

\* One unanswered poll makes a VI stale, further ones disconnected; any answer
\* clears the fault.
NextComm(kind) ==
  CASE kind = "ok" -> {"ok", "stale"}
    [] kind = "stale" -> CommKinds
    [] kind = "disconnected" -> {"ok", "disconnected"}

ToleratedFlags == IF OperationActive THEN Tolerates[run] ELSE {}

\* Critical flags are registered whatever a run tolerates; the hold only if some
\* VI is concerned and the active operation does not tolerate it.
Registered(flags) ==
  (flags \cap {"quench"})
    \cup (IF Concerned = {} THEN {} ELSE (flags \cap {"helium_low"}) \ ToleratedFlags)

Poll ==
  /\ pc = "loop"
  /\ monitoring
  /\ comm' \in [VIs -> CommKinds]
  /\ \A v \in VIs : comm'[v] \in (IF v \in CommVIs THEN NextComm(comm[v]) ELSE {comm[v]})
  /\ tripped' \in SUBSET EnvFlags
  /\ envBad' \in EnvelopeReadings
  /\ cond' = Registered(tripped')
  /\ \E drift \in SUBSET settled :
       ramping' = ramping \cup drift /\ settled' = settled \ drift
  /\ pc' = "verdict"
  /\ UNCHANGED <<st, monitoring, runVars, queueVars, parked, persistent, overrideVars,
                 recordVars>>

\* get_state() lets through what is not a communication error; in EMERGENCY the
\* tick swallows it, and no condition is evaluated on that tick.
PollRaises ==
  /\ pc = "loop"
  /\ monitoring
  /\ MayRaise
  /\ st # "EMERGENCY"
  /\ FailToError(RunRampScope, ramping)
  /\ UNCHANGED <<monitoring, queueVars, pollVars, overrideVars>>

TickUnmonitoredSleeps == pc = "loop" /\ ~monitoring /\ UNCHANGED vars

TickUnmonitored ==
  /\ pc = "loop"
  /\ ~monitoring
  /\ pc' = "drain"
  /\ UNCHANGED <<st, monitoring, runVars, queueVars, pollVars, hwVars, overrideVars, recordVars>>

EnterEmergency ==
  /\ pc = "verdict"
  /\ Emergency
  /\ st # "EMERGENCY"
  /\ emOverride' = FALSE
  /\ holdOverride' = {}
  /\ AbortActive("failed")
  /\ st' = "EMERGENCY"
  /\ \E fail \in SUBSET Raisers :
       Standby(VIs, ramping \ RunRampScope, parked \ RunRampScope, fail)
  /\ pc' = "loop"
  /\ UNCHANGED <<monitoring, queueVars, pollVars, persistent, limited>>

\* _enforce_safety_holds(): a held VI without an override that is away from standby
\* is driven there, at most once per interval.  standby_status() counts as away
\* when it raises (blind); the VIs of fail raise in standby().  The ramps of
\* stopped are stopped later in the same tick.
EnforceableSafetyOnly == {v \in HeldVIs : comm[v] = "ok" /\ ~HoldOverridden(v)}
Enforceable == {v \in HeldVIs : ~HoldOverridden(v)}
Unreliable == Raisers \cup {v \in VIs : comm[v] # "ok"}

EnforceSafetyHolds(stopped) ==
  \E blind \in SUBSET (Enforceable \cap parked \cap Unreliable) :
    LET away == Enforceable \ (parked \ blind)
        due == away \ limited
    IN \E fail \in SUBSET (due \cap Unreliable), moving \in SUBSET due :
         /\ limited' = due \cup {v \in limited : v \in away \/ HoldOverridden(v)}
         /\ ramping' = ((ramping \ due) \cup moving) \ stopped
         /\ settled' = (settled \ moving) \ stopped
         /\ \E lost \in SUBSET (fail \cap parked) :
              parked' = ((parked \ lost) \cup (due \ fail)) \ stopped

FailsRun == RunActive /\ Watched \cap HeldVIs # {}

EnforceHolds ==
  /\ pc = "verdict"
  /\ ~(Emergency /\ st # "EMERGENCY")
  /\ ~FailsRun
  /\ EnforceSafetyHolds({})
  /\ pc' = "drain"
  /\ UNCHANGED <<st, monitoring, runVars, queueVars, pollVars, persistent, emOverride,
                 holdOverride, recordVars>>

FailRunForFaultAndContinue ==
  /\ pc = "verdict"
  /\ ~(Emergency /\ st # "EMERGENCY")
  /\ FailsRun
  /\ EnforceSafetyHolds(RunRampScope)
  /\ AbortActive("failed")
  /\ st' = "IDLE"
  /\ pc' = "queue"
  /\ UNCHANGED <<monitoring, queueVars, pollVars, persistent, emOverride, holdOverride>>

\* _fail_run_for_fault(): the run ends, the station does not stop, the queues wait.
FailRunForFault ==
  /\ pc = "verdict"
  /\ ~(Emergency /\ st # "EMERGENCY")
  /\ FailsRun
  /\ EnforceSafetyHolds(RunRampScope)
  /\ AbortActive("failed")
  /\ st' = "IDLE"
  /\ pc' = "loop"
  /\ UNCHANGED <<monitoring, queueVars, pollVars, persistent, emOverride, holdOverride>>

-----------------------------------------------------------------------------
(* The tick, second part: the manual actions, each re-checked.              *)

\* An action that raises is reported as failed and the next one is drained.
Execute(v, act) ==
  \/ act = "ramp" /\ StartRamps({v}) /\ UNCHANGED persistent
  \/ /\ act = "standby"
     /\ \E fail \in SUBSET ({v} \cap Unreliable) : Standby({v}, ramping, parked, fail)
     /\ UNCHANGED persistent
  \/ /\ act = "persist"
     /\ persistent' = (persistent \ {v}) \cup ({v} \ persistent)
     /\ UNCHANGED <<ramping, settled, parked>>
  \/ act = "initiate" /\ UNCHANGED hwVars

DrainOneUnchecked ==
  /\ pc = "drain"
  /\ guiQueue # <<>>
  /\ guiQueue' = Tail(guiQueue)
  /\ Execute(Head(guiQueue).vi, Head(guiQueue).act)
  /\ UNCHANGED <<st, pc, monitoring, runVars, opQueue, procQueue, pollVars, overrideVars,
                 recordVars>>

DrainOne ==
  /\ pc = "drain"
  /\ guiQueue # <<>>
  /\ guiQueue' = Tail(guiQueue)
  /\ LET request == Head(guiQueue)
     IN IF Admissible(request.vi)
        THEN Execute(request.vi, request.act)
        ELSE UNCHANGED hwVars
  /\ UNCHANGED <<st, pc, monitoring, runVars, opQueue, procQueue, pollVars, overrideVars,
                 recordVars>>

Drained ==
  /\ pc = "drain"
  /\ guiQueue = <<>>
  /\ pc' = "machine"
  /\ UNCHANGED <<st, monitoring, runVars, queueVars, pollVars, hwVars, overrideVars, recordVars>>

-----------------------------------------------------------------------------
(* The tick, last part: one step of the state machine.                      *)

\* What no branch of the state machine touches.
MachineStep ==
  /\ pc = "machine"
  /\ UNCHANGED <<monitoring, queueVars, overrideVars>>

\* A branch that only moves from state to state.
StayInRun ==
  /\ pc' = "loop"
  /\ UNCHANGED <<run, claims, activeVis, standbyDispatched, pauseRequested, prePause,
                 fromEmergency, lastTargets, finishRequested, pollVars, recordVars>>

Keep == UNCHANGED <<waitStarted, firstMeasurement, gates, skipRamp>>

AdvancingStates == {"IDLE", "RAMPING", "MEASURING", "SWEEPING"} \cup GateStates

\* A branch raises after the ramps of arrived have advanced: a driver in
\* ramp_status() or advance_ramp(), the run's own code, or a refused park target.
MachineRaises ==
  /\ MachineStep
  /\ \/ /\ st \in AdvancingStates \/ (st = "STANDBY" /\ ~OperationActive)
        /\ (ramping \cup settled) \cap Raisers # {}
     \/ MayRaise /\ run # NoRun /\ st \in (AdvancingStates \ {"IDLE"}) \cup {"STANDBY"}
     \/ /\ st = "STANDBY" /\ StandbyTargets[run] # {}
        /\ HasEnvelope \/ StandbyTargets[run] \cap Raisers # {}
     \/ st = "STANDBY" /\ run \in Procedures /\ StandbyParks[run] \cap Raisers # {}
  /\ \E arrived \in SUBSET ramping :
       FailToError(RunRampScope, ramping \ arrived)
  /\ UNCHANGED pollVars

\* The target of the next point is refused or raises: the new VIs were added to
\* the scope before, so they are stopped too.
StepRefused ==
  /\ MachineStep
  /\ st = "SWEEPING"
  /\ ~pauseRequested
  /\ HasEnvelope \/ StepTargets[run] \cap Raisers # {}
  /\ \E arrived \in SUBSET ramping :
       FailToError(RunRampScope \cup StepTargets[run], ramping \ arrived)
  /\ UNCHANGED pollVars

\* IDLE: a ramp found running makes the state RAMPING, whose branch then runs in
\* the same tick and advances the ramps a second time.
Idle ==
  /\ MachineStep
  /\ st = "IDLE"
  /\ \E first \in SUBSET ramping :
       \E second \in SUBSET (ramping \ first) :
         /\ Advance(first \cup second)
         /\ st' = IF ramping \ first = {} THEN "IDLE" ELSE "RAMPING"
  /\ Keep
  /\ StayInRun

Initiating ==
  /\ MachineStep
  /\ st = "INITIATING"
  /\ st' = "RAMPING"
  /\ Keep
  /\ StayInRun
  /\ UNCHANGED hwVars

\* What the RAMPING branch checks: skip_ramp_requested stops the run's ramps first.
Unskipped == IF skipRamp THEN ramping \ activeVis ELSE ramping

RampingBranch ==
  /\ MachineStep
  /\ st = "RAMPING"
  /\ skipRamp' = FALSE
  /\ \E arrived \in SUBSET Unskipped :
       /\ ramping' = Unskipped \ arrived
       /\ settled' = (IF skipRamp THEN settled \ activeVis ELSE settled)
                       \cup (arrived \cap Drifters)
  /\ parked' = IF skipRamp THEN parked \ activeVis ELSE parked
  /\ UNCHANGED persistent

ScopeArrivedStation == Unskipped = {}
ScopeArrived == Unskipped \cap RunRampScope = {}
HasGates == run \in (IF firstMeasurement THEN InitGated ELSE ReadGated)

RampInProgress ==
  /\ RampingBranch
  /\ ~ScopeArrived
  /\ UNCHANGED <<st, waitStarted, firstMeasurement, gates>>
  /\ StayInRun

ManualRampDone ==
  /\ RampingBranch
  /\ ScopeArrived /\ run = NoRun
  /\ st' = "IDLE"
  /\ UNCHANGED <<waitStarted, firstMeasurement, gates>>
  /\ StayInRun

EnterGate ==
  /\ RampingBranch
  /\ ScopeArrived /\ run # NoRun /\ HasGates
  /\ gates' = TRUE
  /\ st' = IF firstMeasurement THEN "INITIATION_GATE" ELSE "READING_GATE"
  /\ UNCHANGED <<waitStarted, firstMeasurement>>
  /\ StayInRun

WaitAtSetpoint ==
  /\ RampingBranch
  /\ ScopeArrived /\ run # NoRun /\ ~HasGates
  /\ waitStarted' = TRUE
  /\ UNCHANGED <<st, firstMeasurement, gates>>
  /\ StayInRun

WaitOver ==
  /\ RampingBranch
  /\ ScopeArrived /\ run # NoRun /\ ~HasGates
  /\ waitStarted' = FALSE
  /\ firstMeasurement' = FALSE
  /\ st' = "MEASURING"
  /\ UNCHANGED gates
  /\ StayInRun

AskedToFinishIgnored == FALSE
AskedToFinish == OperationActive /\ finishRequested

AdvanceSome == \E arrived \in SUBSET ramping : Advance(arrived)

GateStep ==
  /\ MachineStep
  /\ st \in GateStates
  /\ AdvanceSome
  /\ UNCHANGED <<waitStarted, skipRamp>>
  /\ StayInRun

GateCutKeepsGates ==
  /\ GateStep
  /\ AskedToFinish
  /\ st' = "STANDBY"
  /\ UNCHANGED <<gates, firstMeasurement>>

GateCut ==
  /\ GateStep
  /\ AskedToFinish
  /\ gates' = FALSE
  /\ st' = "STANDBY"
  /\ UNCHANGED firstMeasurement

GatePending ==
  /\ GateStep
  /\ ~AskedToFinish
  /\ gates
  /\ UNCHANGED <<st, gates, firstMeasurement>>

GatesPass ==
  /\ GateStep
  /\ ~AskedToFinish
  /\ gates' = FALSE
  /\ firstMeasurement' = FALSE
  /\ st' = "MEASURING"

Measure ==
  /\ MachineStep
  /\ st = "MEASURING"
  /\ AdvanceSome
  /\ st' = "SWEEPING"
  /\ Keep
  /\ StayInRun

Sweep ==
  /\ MachineStep
  /\ st = "SWEEPING"
  /\ pc' = "loop"
  /\ UNCHANGED <<run, claims, standbyDispatched, fromEmergency, finishRequested, pollVars,
                 persistent, recordVars>>
  /\ Keep

PauseAfterPoint ==
  /\ Sweep
  /\ pauseRequested
  /\ \E arrived \in SUBSET ramping : StopRamps(RunRampScope, ramping \ arrived)
  /\ EnterPaused
  /\ UNCHANGED <<activeVis, lastTargets>>

\* change_sweep_step() returns a plan; an operation asked to finish returns none.
NextPoint ==
  /\ Sweep
  /\ ~pauseRequested
  /\ ~AskedToFinish
  /\ activeVis' = activeVis \cup StepTargets[run]
  /\ lastTargets' = StepTargets[run]
  /\ \E arrived \in SUBSET (ramping \ StepTargets[run]), moving \in SUBSET StepTargets[run] :
       /\ ramping' = (ramping \ (arrived \cup StepTargets[run])) \cup moving
       /\ settled' = (settled \ StepTargets[run])
                       \cup ((arrived \cup (StepTargets[run] \ moving)) \cap Drifters)
  /\ parked' = parked \ StepTargets[run]
  /\ st' = "RAMPING"
  /\ UNCHANGED <<pauseRequested, prePause>>

LastPoint ==
  /\ Sweep
  /\ ~pauseRequested
  /\ st' = "STANDBY"
  /\ AdvanceSome
  /\ UNCHANGED <<activeVis, lastTargets, pauseRequested, prePause>>

ScopeRamping == ramping \cap RunRampScope # {}

\* STANDBY of a procedure: its ramps first, then its standby() plan, then the end.
StandbyRamping ==
  /\ MachineStep
  /\ st = "STANDBY" /\ ~OperationActive /\ ScopeRamping
  /\ AdvanceSome
  /\ UNCHANGED st
  /\ Keep
  /\ StayInRun

DispatchStandby ==
  /\ MachineStep
  /\ st = "STANDBY" /\ ~OperationActive /\ ~ScopeRamping /\ ~standbyDispatched
  /\ \E arrived \in SUBSET ramping, moving \in SUBSET (StandbyTargets[run] \cup StandbyParks[run]) :
       /\ ramping' = (ramping \ arrived) \cup moving
       /\ settled' = (settled \ (moving \cup StandbyTargets[run]))
                       \cup ((arrived \cup (StandbyTargets[run] \ moving)) \cap Drifters)
  /\ parked' = (parked \ StandbyTargets[run]) \cup StandbyParks[run]
  /\ lastTargets' = StandbyTargets[run]
  /\ standbyDispatched' = TRUE
  /\ pc' = "loop"
  /\ UNCHANGED <<st, run, claims, activeVis, pauseRequested, prePause, fromEmergency,
                 finishRequested, pollVars, persistent, recordVars>>
  /\ Keep

\* _finish_run(): the run is over, its end state decides whether the queue goes on.
OperationEndState ==
  IF OperationActive /\ (fromEmergency \/ "quench" \in cond) THEN "EMERGENCY" ELSE "IDLE"

FinishRun ==
  /\ EmitRunFinished("done")
  /\ ClearRun
  /\ st' = OperationEndState
  /\ pc' = IF OperationEndState = "IDLE" THEN "queue" ELSE "loop"
  /\ UNCHANGED <<waitStarted, firstMeasurement, gates>>

FinishProcedure ==
  /\ MachineStep
  /\ st = "STANDBY" /\ ~OperationActive /\ ~ScopeRamping /\ standbyDispatched
  /\ AdvanceSome
  /\ FinishRun
  /\ UNCHANGED <<lastTargets, pollVars>>

\* _standby_operation_immediate(): the standby() plan is sent, the station polled
\* once more for the postconditions, and the operation ends on the same tick.
\* The poll changes what was read, not the registered safety conditions.
FinishOperationNow ==
  /\ MachineStep
  /\ st = "STANDBY" /\ OperationActive
  /\ \/ StartRamps(StandbyTargets[run]) /\ lastTargets' = StandbyTargets[run]
     \/ MayRaise /\ UNCHANGED <<ramping, settled, parked, lastTargets>>
  /\ comm' \in [VIs -> CommKinds]
  /\ \A v \in VIs : comm'[v] \in (IF v \in CommVIs THEN NextComm(comm[v]) ELSE {comm[v]})
  /\ tripped' \in SUBSET EnvFlags
  /\ envBad' \in EnvelopeReadings
  /\ FinishRun
  /\ UNCHANGED <<cond, persistent>>

\* PAUSED, ERROR and EMERGENCY advance nothing.
Rest ==
  /\ MachineStep
  /\ st \in {"PAUSED", "ERROR", "EMERGENCY"}
  /\ pc' = "loop"
  /\ UNCHANGED <<st, runVars, pollVars, hwVars, recordVars>>

-----------------------------------------------------------------------------
Panel ==
  \/ StartMonitoring \/ StopMonitoring
  \/ \E p \in Procedures : RunProcedure(p) \/ QueueProcedure(p)
  \/ \E o \in Operations : RunOperation(o) \/ QueueOperation(o)
  \/ PauseProcedure \/ ResumeProcedure \/ ResumeRaises \/ AbortProcedure
  \/ FinishOperation \/ SkipOperationStep \/ RecoverFromError \/ Acknowledge
  \/ \E v \in VIs, act \in Manual : SubmitViAction(v, act)
  \/ \E act \in Manual \cap {"initiate", "standby"} : SubmitGlobalAction(act)
  \/ \E v \in VIs : StopRamp(v) \/ RetryFault(v)

Machine ==
  \/ MachineRaises \/ StepRefused \/ Idle \/ Initiating
  \/ RampInProgress \/ ManualRampDone \/ EnterGate \/ WaitAtSetpoint \/ WaitOver
  \/ GateCut \/ GatePending \/ GatesPass \/ Measure
  \/ PauseAfterPoint \/ NextPoint \/ LastPoint
  \/ StandbyRamping \/ DispatchStandby \/ FinishProcedure \/ FinishOperationNow
  \/ Rest

TickStart == Poll \/ PollRaises \/ TickUnmonitored
\* What the thread does before it returns to the event loop.
Continue ==
  \/ RunQueue /\ pc # "loop"
  \/ StartRun \/ StartRunRaises \/ StartRunRefused
  \/ EnterEmergency \/ EnforceHolds \/ FailRunForFault
  \/ DrainOne \/ Drained \/ Machine

Next == Panel \/ (RunQueue /\ pc = "loop") \/ Expire \/ TickStart \/ Continue

Spec == Init /\ [][Next]_vars

-----------------------------------------------------------------------------
(* What must always hold.                                                   *)

\* The state a pause will return to counts as the state of a paused run.
Phase == IF st = "PAUSED" THEN prePause ELSE st

RunStates == {"INITIATING", "RAMPING", "MEASURING", "SWEEPING", "STANDBY"} \cup GateStates

\* Between two events a run exists exactly while the state machine is in a state of
\* a run, and its manifest is open exactly as long: no exit of the tick, no
\* failure and no panel call leaves one behind without the others (run_procedure,
\* _fail_run_for_fault, _finish_run, _enter_emergency).
RunMatchesState ==
  pc = "loop" =>
    /\ manifest = run
    /\ run # NoRun => Phase \in RunStates
    /\ run = NoRun => st \in {"IDLE", "RAMPING", "ERROR", "EMERGENCY"}

\* A run is never without monitoring, and neither is an EMERGENCY: the promise the
\* comment at the head of _tick_body() makes of stop_monitoring().
RunIsMonitored == (run # NoRun \/ st = "EMERGENCY") => monitoring

\* What a run remembers agrees with the phase it is in, also across a pause: gates
\* are pending exactly in a gate state, the initiation gates only before the first
\* measurement, the settle timer runs only at a setpoint, and the targets a resume
\* would send again are ramps the run owns.
RunMemory ==
  (pc = "loop" /\ run # NoRun) =>
    /\ gates <=> Phase \in GateStates
    /\ Phase \in {"INITIATING", "INITIATION_GATE"} => firstMeasurement
    /\ Phase \in {"READING_GATE", "MEASURING", "SWEEPING"} => ~firstMeasurement
    /\ waitStarted => Phase = "RAMPING"
    /\ standbyDispatched => Phase = "STANDBY"
    /\ lastTargets \subseteq activeVis

\* A pause request never outlives the point it was made for: it is pending only in
\* MEASURING or in the SWEEPING state that follows (the pause boundary).
PauseAtBoundary == (pc = "loop" /\ pauseRequested) => st \in {"MEASURING", "SWEEPING"}

\* Behind the verdict of a tick nothing runs that the verdict forbids: no run takes
\* a step while a critical condition is registered or the envelope is violated, nor
\* while one of its targets or explicit claims is held.
NoStepUnderVerdict ==
  (pc \in {"drain", "machine"} /\ run # NoRun) =>
    /\ "quench" \notin cond /\ ~envBad
    /\ st # "PAUSED" => Watched \cap HeldVIs = {}

\* Behind the verdict every held VI is at standby, or an override or the rate limit
\* speaks for it; only an EMERGENCY override lets the drain move one away again.
HoldsEnforced ==
  (pc \in {"drain", "machine"} /\ monitoring) =>
    \A v \in HeldVIs : HoldOverridden(v) \/ v \in parked \/ v \in limited \/ emOverride

-----------------------------------------------------------------------------
(* What a step may never do.                                                *)

\* A manual action queued while the panel admitted it, and executed after a run
\* claimed its VI, does not touch that VI (the re-check of the drain); neither does
\* a panel call on one VI.  A hold the operator acknowledged reaches through a claim.
ClaimedVIUntouched ==
  [][\A v \in VIs :
       /\ Claimed(v) /\ ~Held(v)
       /\ pc = "drain" \/ (pc = "loop" /\ pc' = "loop" /\ st' = st /\ st # "PAUSED")
       => (v \in ramping <=> v \in ramping') /\ (v \in parked <=> v \in parked')]_vars

\* Pausing, failing or aborting a run stops the ramps it started and no other: a VI
\* outside its scope keeps its ramp and its standby (the ramp-scope standard).
RampScopeRespected ==
  [][(/\ run # NoRun /\ pc # "start" /\ st' # "EMERGENCY"
      /\ \/ run' = NoRun /\ outcome' # "done"
         \/ st' = "PAUSED" /\ st # "PAUSED") =>
       /\ ramping' \cap activeVis = {}
       /\ pc = "loop" => /\ ramping \ activeVis = ramping' \ activeVis
                         /\ parked \ activeVis = parked' \ activeVis]_vars

\* The tick lets the queue go on only behind a run that was done: no failure starts
\* the next run by itself.
QueueWaitsAfterFailure == [][(pc # "loop" /\ pc' = "queue") => outcome' = "done"]_vars

\* EMERGENCY is left only towards IDLE without a critical condition, or by starting
\* an operation that tolerates every tripped flag.
LeavesEmergencySafely ==
  [][(st = "EMERGENCY" /\ st' # "EMERGENCY") =>
       \/ st' = "IDLE" /\ "quench" \notin cond /\ ~envBad
       \/ run \in Operations /\ fromEmergency]_vars

-----------------------------------------------------------------------------
(* What a run is for everyone outside: the abstract life of a run.          *)

LifecyclePhase ==
  CASE st = "PAUSED" -> "paused"
    [] st = "ERROR" -> "error"
    [] st = "EMERGENCY" -> "emergency"
    [] st \notin {"PAUSED", "ERROR", "EMERGENCY"} /\ manifest # NoRun -> "active"
    [] st \notin {"PAUSED", "ERROR", "EMERGENCY"} /\ manifest = NoRun -> "idle"

Lifecycle == INSTANCE RunLifecycle
               WITH phase <- LifecyclePhase, owner <- manifest, verdict <- outcome

\* The run_started and run_finished signals of the Orchestrator follow the life of
\* a run: every record that is opened is closed once, whatever ends the run.
LifecycleSpec == Lifecycle!Spec

-----------------------------------------------------------------------------
(* What must eventually happen.                                             *)

\* The physical ramps of a run arrive and its settle time passes; the timer fires and
\* the thread finishes what it began.
ScopeArrives == (RampInProgress \/ StandbyRamping) /\ ramping' \cap activeVis = {}

Fairness ==
  /\ WF_vars(Continue)
  /\ SF_vars(TickStart)
  /\ SF_vars(ScopeArrives)
  /\ SF_vars(WaitOver)

FairSpec == Spec /\ Fairness

\* The gates of a procedure pass in the end and its sweep has a last point; an
\* operation may wait at its gates, or sample, for as long as nobody ends it.
SweepSpec ==
  /\ FairSpec
  /\ SF_vars(GatesPass /\ run \in Procedures)
  /\ SF_vars(LastPoint /\ run \in Procedures)

\* An operation asked to finish ends, whatever its gates say, unless it is paused.
FinishEndsOperation == (OperationActive /\ finishRequested) ~> (run = NoRun \/ st = "PAUSED")

\* A procedure comes to an end, or to a pause.
RunEnds == run \in Procedures ~> (run = NoRun \/ st = "PAUSED")

\* Every queued manual action gets its verdict.
ActionsDrained == guiQueue # <<>> ~> guiQueue = <<>>
=============================================================================
