# Verification of CryoSoft

TLA+ models of the parts of CryoSoft that decide what a cryostat does, TLC runs that check them
on small instances, and TLAPS proofs of the properties that must hold for every station.
`file:line` references are to `src/cryosoft/`; `orchestrator`, `station`, `persistent` and
`magnet` stand for `core/orchestrator.py`, `core/station.py` and
`virtual_instruments/magnet/superconducting_magnet_persistent.py` and `superconducting_magnet.py`.

- [1. The system](#1-the-system)
- [2. Modules and how they correspond to the code](#2-modules-and-how-they-correspond-to-the-code)
- [3. What the runs check](#3-what-the-runs-check)
- [4. Fairness](#4-fairness)
- [5. What is proved](#5-what-is-proved)
- [6. Where code and text disagree](#6-where-code-and-text-disagree)
- [7. What is not modelled](#7-what-is-not-modelled)
- [8. Plan](#8-plan)

## 1. The system

CryoSoft drives a cryostat: superconducting magnets, temperature controllers, a rotator, level
meters, measurement electronics and a switch matrix. Nearly everything happens on one Qt thread.
A timer tick polls every instrument, evaluates safety conditions, executes queued manual
actions, and moves the state machine of the active run one step. Between two ticks the GUI may
call any public method. So there are no data races to model. What is hard is the sequence:
panel calls between ticks, several early exits inside a tick, exceptions half-way through a
handler, wall-clock overrides, and instruments that move, fail and recover on their own.

### Components

| Component | State | Operations | Talks to | What is hard | What makes it correct |
|---|---|---|---|---|---|
| **Orchestrator** `core/orchestrator.py` | machine state, active run with its claims, scope, targets and pending flags, two run queues, manual-action queue, overrides, enforcement intervals | `_tick_body`, run/queue/pause/resume/abort/finish/skip, acknowledge, submit actions, retry, connect/disconnect | Station (calls), runs (calls), GUI (signals) | a dozen ways out of a run from eleven states; a verdict in the middle of the tick; requests that land ticks later | a run leaves nothing behind; held instruments are parked before anything moves; EMERGENCY is sticky; failure never starts the next run |
| **Station** `core/station.py`, `availability.py` | live and offline registries, driver sessions, error counts, condition registry, last known state | `build_station`, connect, disconnect, poll, retry, rebuild, target dispatch, ramp advance/stop, standby | VIs and drivers (calls) | driver sessions shared by configuration; attempts that fail half-way; sessions that break for good | no session is closed under a user; a released instrument is free; a broken one can be recovered |
| **Conditions, gates** `core/conditions.py`, `gates.py` | none (pure) | `decide`, gate evaluation | Orchestrator | precedence of conditions | verdict agrees with what is registered |
| **Magnet VI** `virtual_instruments/magnet/` | ramp generator, target, persistent-mode toggle, warm-up clock | start/stop/advance ramp, standby, toggle, switch heater on/off | PSU driver | a generator spread over many ticks, interleaved with calls, a moving PSU and quenches | never heat the switch across a mismatch; never drive through a cold switch; right rate per segment |
| **VI base** `virtual_instruments/base.py`, `rampable.py` | `_standby_commanded` bit, limits | ping, get_state, standby wrapper | drivers | the bit must follow every ramp and standby | "parked" means parked |
| **Plans and procedures** `core/plan.py`, `sweep_builder.py`, `procedure.py`, `procedures/` | sweep and its position, loop and scanner values, the instruments armed | checks of targets, parameters and points; initiate, measure, change_sweep_step, standby, abort | Orchestrator (plans), measurement VIs, data manager | may raise anywhere; one value is checked in the form, in the procedure and in the Orchestrator | the file holds the points that were asked for, labelled rightly; sources are off before the scanner opens |
| **Operations** `core/operation.py`, `procedures/operations/` | steps, recording, finish and skip requests, gates | initiate, sample, confirm, skip, finish, abort, standby | Orchestrator, level meter, magnets | open-ended, the operator acts at any point, may start out of EMERGENCY | ends when asked; the record says what was done; the meter is slow again afterwards |
| **Temperature, rotator, level VIs** | generator, setpoint, debounce buffer | ramp, stop, standby, initiate, status, safety flags | drivers | commands that raise inside a generator, hands on the front panel, one snapshot judged twice | no heating behind standby; TARGET_REACHED means there; flags debounce |
| **Measurement VIs, Tensormeter, switch matrix** `virtual_instruments/measurement/`, `switch/` | armed, current, session, active route | initiate, set, read, standby, attach, release, select route | drivers that several of them share | lost commands, commands that raise half-way, another user of the instrument, writes that break off | nobody measures with a current that is not there, or leaves one on; channels never joined or all open |
| **Drivers, simulated drivers** | instrument protocol | read/write | hardware | | parts of the modules of their VIs |
| **Data manager** `core/data_manager.py` | the HDF5 file | allocate, save, close | procedures | shapes decided in two places | what is validated can be stored |
| **Trends** `core/tiered_trend_logger.py`, `trend_history.py`, `trend_checks.py` | throttled raw tier, open bucket, rotated files, conditions | record, rotate, read a window, run checks | disk, Orchestrator (conditions) | files renamed while windows are read, means of means | an alarm rests on all readings of its window |
| **Experiment records** `session/manager.py`, `store.py`, `models.py` | record, pointer and index on disk, copy in memory, envelope | start, switch, close, resume, run manifests | Orchestrator (envelope), disk | the process ends between two writes, a save fails, a record of a newer version | the three files and the memory tell one story |
| **Servicing log, helium recorder** `session/servicing_log.py` | append-only log, helium record, cached level at a run's start | append, revise, delete, merge of older logs, entries of runs | Orchestrator (signals), disk | appends cut short, recording and entry written apart | no entry lost or doubled |
| **Run queue, experiment form** `gui/` | list of queued runs, data directory | add, move, remove, run, abort, close; open, switch, log in, type | Orchestrator, experiment records | two lists that say what runs next; two slots that write one field | they agree |
| **Ramp records, stall detector, status log, troubleshooting CLI, configuration, other GUI** | per-tick reports | | | | not modelled, see section 7 |

`PROJECT.json` lists each with its sources and how far it is modelled, and under "hazards" the
places where the code is hard to test, each with the properties that watch it.

### How they interact

The GUI calls the Orchestrator. The Orchestrator calls the active run (procedure or operation),
which answers with *plans*: targets and standby commands for named VIs. The Orchestrator gives
those to the Station, which starts the ramp generators of the VIs. Every tick polls all live VIs
through the Station; answers become a snapshot, misses become *communication conditions*, safety
flags become *safety conditions*. A condition is either *critical* (EMERGENCY, run aborted,
everything to standby) or a *hold* (the affected VIs go to standby; a moving run that watches
one of them fails). An operator may override a hold, or EMERGENCY, for a limited time.

Three sets of VIs matter and differ: the *claims* of a run (which VIs the panel may not touch),
its *ramp scope* `_active_system_vis` (which ramps it waits for and stops), and what it *watches*
(scope and explicit claims: whose holds fail it).

## 2. Modules and how they correspond to the code

| Module | What it is |
|---|---|
| `Orchestrator` | the tick, the run and panel methods, holds, EMERGENCY, overrides, queues |
| `RunLifecycle` | abstract life of a run, as the `run_started`/`run_finished` signals show it |
| `MCOrchestrator` | instance: a magnet and a temperature controller, two procedures, an operation |
| `OrchestratorClaims` | two statements of docstrings that the code does not keep |
| `OrchestratorProofs` | theorems about `Orchestrator`: types, control, safety |
| `LifecycleProofs` | theorems about `Orchestrator`: a run's memory, the refinement of `RunLifecycle`, claims, ramp scope |
| `StationConnections`, `MCStationConnections` | the registries and the driver sessions |
| `StationProofs` | theorems about `StationConnections` |
| `PersistentMagnet`, `MCPersistentMagnet` | the persistent-mode magnet on its power supply |
| `MagnetProofs` | theorems about `PersistentMagnet` |
| `SwitchMatrix` | routes and channels of the scanner, as sequences of writes |
| `CurrentSource` | DC, delta and separate methods over shared current sources |
| `Tensormeter` | an instrument shared with an external tool, with and without echo |
| `TemperatureController`, `Rotator` | ramp generators over a controller that heats and a stage that moves |
| `LevelMeter` | the debounce buffer of the low-helium flag behind the Station's polls |
| `InstrumentProofs` | theorems about `Rotator`, `LevelMeter`, `TemperatureController`, `Tensormeter`, `SwitchMatrix`, `CurrentSource` |
| `MCInstruments` | the seven instruments, for TLC |
| `PlanRules` | checks of plans and points, envelopes, sweep arithmetic |
| `SweepProcedure` | the sweep procedures, from the offered form to the closed file |
| `OperationRecords` | steps and recording of an operation: operators that the next two share |
| `HeliumFill`, `SampleAccess` | the operations |
| `RunQueue` | the list of the procedure window against the Orchestrator's |
| `ExperimentRecords` | records of experiments and runs, pointer, index and envelope on disk and in memory |
| `ExperimentForm` | the directory a run is stored in |
| `ServicingLog`, `CryogenicsRecorder` | the servicing log; the helium record and the entries made of runs |
| `TrendHistory` | tiers, rotation, windows, checks |
| `RunProofs` | theorems about `PlanRules`, `SweepProcedure`, `HeliumFill`, `SampleAccess`, `ExperimentForm`, `RunQueue` |
| `RecordProofs` | theorems about `ExperimentRecords`, `CryogenicsRecorder`, `ServicingLog`, `TrendHistory` |
| `Ascending` | the ascending sequence of a set of numbers, for `SwitchMatrix`, `ServicingLog` and `TrendHistory` |
| `Induction` | induction over the numbers and what follows from it for sequences, for the modules of proofs |
| `MCRuns` | the ten parts of a run, for TLC |

In several modules an operator stands next to a second, slightly wrong form of it
(`StopMonitoringAnytime` before `StopMonitoring`). Nothing uses the wrong forms; they are the
mutants of `PROJECT.json`, substituted one at a time to see that a property notices the mistake.

### Orchestrator

`pc` says where the thread stands inside one event. At `"loop"` any public method may run. A tick
goes `loop → verdict → drain → machine → loop`; a method that ends in `run_queue()` or
`_start_run()` passes `"queue"` or `"start"`. Nothing else interleaves inside an event, as in the
code: there is one thread. The steps are separate actions so that properties can speak of
the points between them ("behind the verdict").

| Variables | Code |
|---|---|
| `st`, `monitoring` | `_state`, `_monitoring` |
| `run`, `claims`, `activeVis`, `standbyDispatched`, `waitStarted`, `firstMeasurement`, `gates`, `pauseRequested`, `prePause`, `fromEmergency`, `lastTargets` | the fields of the same meaning of the Orchestrator (each named at its declaration) |
| `finishRequested`, `skipRamp` | fields of the active operation |
| `opQueue`, `procQueue`, `guiQueue` | the three queues |
| `comm`, `cond`, `tripped`, `envBad` | the condition registry and what the last poll read |
| `ramping`, `settled`, `parked`, `persistent` | what the VIs report: `ramp_status()`, a finished ramp that is still compared with a live reading, `_standby_commanded`, `persistent_mode_enabled()` |
| `emOverride`, `holdOverride`, `limited` | wall-clock deadlines, as "has not passed yet" |
| `manifest`, `outcome` | `_active_run_manifest` and the status of the last `run_finished` |

A data value appears only as far as control depends on it: a target is the name of the VI it
goes to; time is an `Expire` action; a run is described by tables of constants (which VIs its plans
name, whether it has gates, what it tolerates). Exceptions are actions of their own (`MachineRaises`,
`StartRunRefused`, `PollRaises`, `ResumeRaises`, `StepRefused`) with the cleanup the handler does.

### PersistentMagnet

The magnet is a record `m`. The ramp generators of `persistent:153–218` and `442–495` are cut at
their `yield`s: each stretch is a *stage*, an operator from the magnet before to the magnet after,
so that a step that falls through several stages within one `next()` is their composition. `at`
is the `yield` the generator waits at. Between ticks the PSU moves one unit, the switch warms, the
operator calls, the magnet quenches or is reset. The power supply is `drivers/sim_oxford_ips120.py`,
the only description of one in the repository. Two facts are kept twice, as in the code: `heater` and
`hot` are the hardware, `tracked` and `ready` what `SwitchHeater` believes.

### StationConnections

`live`/`tags` are the two registries, `open` the alias map `_drivers`, `held[v]` the drivers whose
*current* session the object of `v` holds (an object keeps the driver objects it was built with, so
closing an alias takes it out of every `held`). `off` are instruments that do not answer; `dead` are
open sessions that are broken for good, the case `retry_fault()` describes (`station:1088`). An
attempt to connect or rebuild either breaks off while it opens drivers, fails the identity
check, or succeeds; each leaves the registries and sessions exactly as the code does. `idle` and
`claims` abstract the Orchestrator: a run may start, end or fail at any time.

### The instruments

Each is a module of its own: its variables are the fields of the VI, the state of the simulated
driver under it (the only description of the instrument in the repository), and a few variables of
history that a property needs (`tcSetBy`: who wrote the setpoint last; `lmSeen`: the observations,
once each). Its actions are the methods of the VI, what the instrument does between two calls, and
hands on the front panel or the external tool where the code reckons with them. A method that sends several
commands takes the number of commands that arrive, or an answer, as its parameter: one that
raises has executed a prefix.

- `SwitchMatrix`: `swLast` keeps the states a command passes through, so that "never all open" can be
  said of the middle of a route change. Channels are read back in the instrument's spelling. `swMode` is `_pole_mode`, what the
  VI will set again, beside the mode that the instrument is in.
- `CurrentSource`: a source knows its mode, its current and the method it obeyed last (`srcOwner`). Five kinds of method share it: DC, delta,
  separate, source-measure unit and lock-in. A command of several writes may raise at any of them (`Interrupted`), and a setter
  stores its current before it tells the instrument (`SetMethodCurrentRaises`); `msDoubt` are the methods whose last command raised.
- `Tensormeter`: `initiate_measurement()` is one action per command; each may be lost, with an echo
  that says so or without. Rows accumulate between two readings.
- `TemperatureController`, `Rotator`: a generator is `none`, `live`, ended or `broken`, the last being one that
  has raised without its owner's noticing.
- `LevelMeter`: the identity test of `evaluate_safety()` is `lmFolded`: the Station makes a new
  snapshot on every tick, and only a tick's snapshot carries `_disconnected`.

### What a run is made of

- `PlanRules` has no behaviour: its one variable ranges over the inputs (targets, parameters, points,
  segments), with NaN and infinity beside the integers of `Numbers`, and the invariants compare one check with another.
- `SweepProcedure` contains the form: `Offered` is what `get_param_groups()` shows for a choice of scanner and
  VIs, `Refused` what the constructor rejects. A measurement runs through the grid of loop values in
  one action and may fail at any point of it.
- `HeliumFill` and `SampleAccess` have the Orchestrator as their phase; what it may call in a phase is the
  guard of an action. A finish may be asked for in any of them, the gate included.
- `RunQueue` has both lists, and the Orchestrator as idle, ramping by hand, busy with a run or an operation, in error or in
  EMERGENCY (`oqState`), with the draining of its list at the end of a run. A run may also end without the panel's being told
  (`EndsUntold`), and be refused for a magnet in persistent mode. `qpAstray` is set when the panel marks an entry and the Orchestrator takes
  none: Run Queue or Abort on a machine that is busy otherwise, Run Now behind another run.
- A procedure whose file could be opened but not be filled (`DataManager.__init__` raises) leaves it open: `Left` in
  `SweepProcedure`; nothing closes it and nothing is written to it.

### What a run leaves behind

- `ExperimentRecords`: every file is written whole and renamed; a crash leaves the earlier file or the
  later one. A write that the code does not guard ends the application, since an exception that leaves a slot ends
  a PyQt6 application.
- `ExperimentForm`: the two slots of `experiment_changed` run in the order in which they were connected.
- `ServicingLog`: a line is a revision or junk. Any append, of a new entry, a change or a removal, may be cut short: behind
  the whole record, somewhere in it, or inside a character (`Parts`). The next append is glued to what is there (`Glued`). Where a line
  ends inside a character the file does not decode (`Decodes`): reading then raises, and so do the actions that read first.
- `CryogenicsRecorder`: readings are numbered, so that "the newest" can be said without their values. The helium record has the writer of the
  servicing log: a sample may be cut short (`SampleIsCutShort`), and the one behind it is glued to it; both read as `Unread`.
- `TrendHistory`: likewise "all of the window". A check of a reading that none of the last `PersistedLines` raw lines has is judged
  unknown (`Persisted`); stability compares range and standard deviation with their limits, in squares (`Deviates`).

### Composition

`Orchestrator` composes the machine with station, instruments and runs by their interfaces. The modules of
instruments and of run parts are composed in `MCInstruments` and `MCRuns` as a *choice*: the initial
state picks one part, and the others keep their first state. They share no variable and none of
their properties speaks of two, so every behaviour of their interleaving is, part by part, one of these; the product
would only multiply the states.

## 3. What the runs check

| Run | Checks | Shows |
|---|---|---|
| `Lifecycle` | `RunMatchesState`, `RunMemory`, `PauseAtBoundary`, `LifecycleSpec`, `LeavesEmergencySafely` | Gated sweep and stepped operation with pause, resume, abort, finish, skip, queue, EMERGENCY, drift: a run's memory agrees with its phase, and its signals refine `RunLifecycle` |
| `Holds` | `TypeOK`, `HoldsEnforced`, `NoStepUnderVerdict`, `QueueWaitsAfterFailure` | Helium-low and communication holds, overrides that expire, retries and rebuilds |
| `Faults` | `RunIsMonitored`, `RampScopeRespected` | Drivers and runs that raise anywhere, targets refused by the envelope, quenches, a standby plan that is a command (`RunMatchesState` holds there too, by its theorem) |
| `Manual` | `ClaimedVIUntouched` | Two procedures (one claims all, one nothing) against queued manual and global actions and persistent mode |
| `Live` | `FinishEndsOperation`, `RunEnds`, `ActionsDrained` | Under fairness a procedure ends or is paused, a finish request is obeyed from every state, every manual action gets its verdict |
| `Connections` | `TypeOK`, `LiveSessionsCurrent`, `ReleasedIsFree`, `ClaimedVIKept`, `ConnectRecovers` | Two VIs on one source, one with its own meter, and a switch |
| `Instruments` | `NeverQuenches`, `HeaterDiscipline`, `RampEnds` | Magnet: eight calls in every order with ticks, PSU steps, quenches, resets and restarts |
| | `RoutesAreExclusive` | Switch: a route change, complete or broken off, passes through no state its mode excludes |
| | `SharedSourceIsSound` | Three methods on one source: none relies on what another left, a raise at any write leaves doubt of the current only, readings lose exactly what the bus lost |
| | `TensormeterIsSound` | Lost commands, an external tool, rows of two points |
| | `HeatingIsBounded` | Temperature: no heat behind standby, no loop closed on an old setpoint |
| | `RotationIsSound` | Rotator: TARGET_REACHED is at the target, a stop freezes, a moving stage is left alone |
| | `LevelIsDebounced` | Level: a majority, every observation once; a dead meter trips, a glitch does not |
| `Runs` | `RulesAgree`, `FileIsAsAsked` | What one check admits no later one refuses; a file holds the points asked for, with their labels |
| | `FillIsSound`, `AccessIsRecorded` | The fill ends when it should, the record says what was done |
| | `QueuesAgree` | The list and the Orchestrator agree on order, removals and what is pending; what shows as running was taken, unless the panel met a busy machine |
| | `EnvelopeInForce`, `FormFollows` | Envelope and directory belong to the open experiment |
| | `RecordsAreConsistent`, `LogKeepsEntries`, `RecorderIsConsistent`, `TrendsAreExact` | Files on disk behind crashes, appends that fail or are cut short, rotation |
| `EmergencyRamps`, `ResumeDropsPark`, `StandbyPark`, `ClosingStartsNext` | refute one statement each | see section 6 |

A property with "Is", "Are" or "Agree" in its name is a conjunction; each part is an operator of its own next to
it, with its own comment.

Each run opens the part of the environment its question needs (`EnvFlags`, `CommVIs`, `Raisers`,
`Drifters`, `MayRaise`, `HasEnvelope`, `Manual`) and closes the rest; all of them together would be
out of TLC's reach. Between them every action fires.

**Bounds.**

- *Orchestrator*: two VIs (`mag` concerned by helium, `vti` not) are enough for "inside or outside
  the claims, the scope, the hold". Three runs (one claims everything and ramps, one claims nothing, one
  operation with explicit claims) are the three shapes of `claimed_vi_names()`. `QueueBound` ≤ 1
  is enough for "something is waiting", per queue. `GuiBound` ≤ 2 holds one global action or two
  requests with different fates in one drain. The code's queues are unbounded; the theorems of
  section 5 hold for every bound.
- *Magnet*: two segments and a limit of 2 units give a segment end on either side of zero, a target
  inside, at the end of and beyond a segment (`MCFields`). The unit is larger than every tolerance
  in the code, so `abs(a - b) < 0.01` is equality. `Budget` limits the number of calls (8); four
  calls already suffice to begin a ramp, interrupt it, change the mode and ramp again.
- *Connections*: two VIs that share one driver, of which one has another of its own, and one VI
  that shares nothing: every answer of `_exclusive_aliases()`. `MaxErrors` = 2 separates "stale" from
  "disconnected". Runs claim nothing, one VI, or all.
- *Instruments*: a card of at most four channels with a route of one and one of two; three methods of
  three kinds on one source, `n_readings` of 0 (refused) and 5 (room for three failures in a row with values before and behind); two averaging times and two rows to
  a point; temperatures up to three tolerances and angles up to three steps, so that a ramp has a middle. The level meter has
  the sizes of the configuration (buffer 5) and of the code (3 errors).
- *Runs*: two measurement VIs and a scanner with two routes; sweeps of up to two points; loop texts of at most two entries, of two
  each is blank, out of bounds, greater, smaller or the same (`MCTexts`); three steps of
  an access with the ramp first; recordings bounded by 4 and up to 40 samples (four halvings); three procedures in the queue; three experiments
  (bounded, plain, written by a newer version); two fills and two operations to merge; a helium record halved at 3 samples; raw and hourly files rotated every
  2 and 3 polls within 5. `PersistedLines` = 2 lets a key be forgotten within the window (the code has 500 lines), and `StdLimit` = 0 lets
  readings deviate without leaving the range.

The two large runs have 301 107 (`Instruments`) and 1 166 213 (`Runs`) distinct states.

`CHECK_DEADLOCK FALSE` stands where a model may rest: `Instruments`, `Runs`, `StandbyPark` and `ClosingStartsNext`
(the calls are used up, an input has been judged, the window is closed). `Orchestrator` and `StationConnections` never stop.

## 4. Fairness

- `Orchestrator!Fairness`: weak on `Continue`: the thread finishes an event it began. Strong on
  `TickStart`: the Qt timer fires again and again, though panel calls come between. Strong on
  `ScopeArrives` and `WaitOver`: physical ramps arrive at last and the settle time passes, provided
  ticks reach them. `SweepSpec` adds that a procedure's gates pass in the end and its sweep has a last
  point, which is so for every procedure of the repository; no such assumption is made for an operation,
  which may wait for as long as nobody ends it. No panel call is ever assumed: a run may stay PAUSED.
- `PersistentMagnet!MagnetFairness`: weak on ticks, PSU movement and warming. In `Instruments` it says nothing of the
  behaviours of another instrument, where none of these steps is enabled.
- `StationConnections!FairSpec`: strong on `Connect(v)` as a whole: an operator who keeps pressing
  Connect whenever the station is idle. How an attempt ends is not assumed. `ConnectRecovers` adds, as a
  hypothesis inside the property, that the instruments of the VI answer for good from some point on.

## 5. What is proved

For every value of the constants that satisfies the named assumptions: every set of VIs, runs and tables, every queue
bound and environment (`Orchestrator`); every configuration, every way drivers are shared and every failure
(`StationConnections`); every limit, table, range, threshold and bound of the instruments; every set of experiments,
users, steps and entries, and any length of file, queue or recording (runs and records).

| Module | Theorem | Property |
|---|---|---|
| `OrchestratorProofs` | `ControlCorrect`, `RunMatchesStateHolds` | `RunMatchesState` |
| | `TypeCorrect` | `Orchestrator!TypeOK` |
| | `RunIsMonitoredHolds` | `RunIsMonitored` |
| | `PauseAtBoundaryHolds` | `PauseAtBoundary` |
| | `LeavesEmergencySafelyHolds` | `LeavesEmergencySafely` |
| | `QueueWaitsAfterFailureHolds` | `QueueWaitsAfterFailure` |
| | `NoStepUnderVerdictHolds` | `NoStepUnderVerdict` |
| | `HoldsEnforcedHolds` | `HoldsEnforced` |
| `LifecycleProofs` | `RunMemoryHolds` | `RunMemory` |
| | `ImplementsLifecycle` | the refinement `LifecycleSpec` |
| | `ClaimedVIUntouchedHolds` | `ClaimedVIUntouched` |
| | `RampScopeRespectedHolds` | `RampScopeRespected` |
| `StationProofs` | `StationTypeCorrect` | `StationConnections!TypeOK` |
| | `LiveSessionsCurrentHolds` | `LiveSessionsCurrent` |
| | `ReleasedIsFreeHolds` | `ReleasedIsFree` |
| | `ClaimedVIKeptHolds` | `ClaimedVIKept` |
| `MagnetProofs` | `NeverQuenchesHolds` | `NeverQuenches` |
| | `HeaterDisciplineHolds` | `HeaterDiscipline` |
| `InstrumentProofs` | `RotationIsSoundHolds` | `RotationIsSound` |
| | `LevelIsDebouncedHolds` | `LevelIsDebounced` |
| | `HeatingIsBoundedHolds` | `HeatingIsBounded` |
| | `TensormeterIsSoundHolds` | `TensormeterIsSound` |
| | `RoutesAreExclusiveHolds` | `RoutesAreExclusive` |
| | `SharedSourceIsSoundHolds` | `SharedSourceIsSound` |
| `RunProofs` | `FillIsSoundHolds` | `FillIsSound` |
| | `AccessIsRecordedHolds` | `AccessIsRecorded` |
| | `FormFollowsHolds` | `FormFollows` |
| | `QueuesAgreeHolds` | `QueuesAgree` |
| | `FileIsAsAskedHolds` | `FileIsAsAsked` |
| | `RulesAgreeHolds` | `RulesAgree` |
| `RecordProofs` | `EnvelopeInForceHolds` | `EnvelopeInForce` |
| | `RecordsAreConsistentHolds` | `RecordsAreConsistent` |
| | `RecorderIsConsistentHolds` | `RecorderIsConsistent` |
| | `LogKeepsEntriesHolds` | `LogKeepsEntries` |
| | `TrendsAreExactHolds` | `TrendsAreExact` |

### Assumptions

`RunsAssumption` and `StationAssumption` say what the code's types say (claims, targets and standby lists name VIs of the
station; procedures and operations are different objects), and one thing more: the VIs that a procedure's
standby plan moves, by a target or by a command, are among those its `initiate()` ramped. The first form of this assumption
allowed a standby target that only a sweep point had named. The proof failed there: a run may come to its end before its first
sweep point, and such a target then lies outside the scope. Every procedure of the repository satisfies the narrower one
(`StandbyTargets` and `StandbyParks` are subsets of `InitTargets`).

`RecipeAssumption` says that every VI needs a driver, every driver has a user, and `get_state()` of a VI
talks to all its drivers or to none. The last is so for the VI classes of the repository; a class
that polled some of its drivers could clear its fault after a failed rebuild and work on lost sessions.
`RecordAssumption` and `FormAssumption` say only that placeholders ("no experiment", "torn", an empty field) are
not experiments, runs, records, users or folders. `MagnetAssumption` says that the last segment ends at the current limit, as
the configuration is checked to have it. `SwitchAssumption` says that no route is empty
(`switch_matrix.py:154` refuses one) and that the card has the two-pole mode it starts in. `TrendAssumption` says
that a file has a day at least, that a backup is kept, and that the window of a check is covered by the backups of the raw tier: `pick_tier()` sends
longer windows to the hourly one. `RulesAssumption` says that an axis has a length and a step is positive
(`DataSchema` and `SweepSegment` refuse others). The other assumptions give types: a bound is a number, a buffer has a place, levels are
integers and "no level" is none, the limit of a standard deviation and the lines that are looked through for a key are numbers, a recording has room for a point, `StepOrder` is a sequence of steps, legacy entries are
finite sets of positive times, a loop parameter has a sequence of values of which none stands for "not set".

### The machine

`RunMatchesState` speaks of `pc = "loop"` only, so it is not inductive. `Control`
(in `OrchestratorProofs`) says what holds at every point of an event: which state, run, manifest and
`prePause` go together while a run is being started, judged, drained, stepped or ended. It is
preserved by every action: one lemma per way to end a run, go on with it or begin one, then one step
per action. Types come next; they need `Control`, because `Claims[run]` is typed only where a
run exists and a queue is popped only where it has an element.

The safety properties build on both:

- `Monitored` strengthens `RunIsMonitored` by "a tick at its verdict was monitored", since EMERGENCY
  is entered from there. `BeginRun` forces monitoring on and `StopMonitoring` is refused in states
  of a run, and `Control` excludes a run in IDLE or ERROR between events.
- `PauseBounded` drops the `pc = "loop"` of `PauseAtBoundary`; every way out of MEASURING leads to
  SWEEPING, and every way out of SWEEPING clears or consumes the request.
- `NoStepUnderVerdict` and `HoldsEnforced` are established by the verdict step and preserved through
  the drain: a manual action moves a held VI only when it is overridden (`Behind`), and no drain
  action touches conditions.
- `LeavesEmergencySafely` and `QueueWaitsAfterFailure` are action properties; each is a case split over the
  actions under `Control`.

In `LifecycleProofs` the memory of a run is proved first. `Memory` is `RunMemory` at every point of an event and in two
respects stronger: a settle timer runs only where no gate is left to pass, since otherwise a gate could be entered with
the timer running, and the scope holds all that `initiate()` sent, since otherwise a resume could
send a target outside it. A pause keeps the phase, because `prePause` takes its place. The refinement is then step by step:
`LifecycleStep` says that every step is a step of `RunLifecycle` or leaves its three variables alone. A start opens, a pause or
resume moves, one of the ways to end closes (`PhaseBehindEnd`, `FailureIsAbstract`); a step that changes no record and neither
enters nor leaves PAUSED, ERROR or EMERGENCY stutters (`LifecycleStutters`). That no second verdict is given follows from `Control`, which clears the manifest with the run. `ClaimedVIUntouched` rests on
`Control` and on the admission test, which the drain repeats: a VI that the run claims and no fault holds is admissible for
nobody else. `RampScopeRespected` goes through the ways to leave a run: `ScopeKept` says of each what it stops, and
that a panel call stops nothing else.

### The station

In `StationProofs` the types are inductive as they stand. `LiveSessionsCurrent` is not: a missed poll might
turn a VI that lost its sessions in a failed rebuild from "disconnected" into "stale". `Sessions` says that
such a VI has its error count at the threshold (`_fail_disconnected_retry()` pins it there), and that a
VI whose `get_state()` talks to no driver never has a fault. The heart is `OthersKeep`: closing what
`_exclusive_aliases()` returns leaves every other live VI whole. `ReleasedIsFree` is inductive with the types;
`ClaimedVIKept` follows from them, since connecting needs IDLE, where nothing is claimed.

### Records

In `RecordProofs`, `ExperimentInv` strengthens what the properties say by what keeps them true through a crash:
`MemoryInv` (the open record is open and of one version in memory and on disk, else a save could change a
newer one), `PointerInv` (without an open experiment the pointer is to nothing that can be resumed), `StrayInv` (a
run that a resumable record outside the pointer shows as running was left there; only the record under the pointer is
swept) and `IndexInv` (what the index shows as closed is closed for good). Every way to die goes through
`DeathInv`, every save through `SaveEffect`.

The helium record is `Newest`: the lines stand for the samples from some number on, without a gap, up to the last one begun,
and one that does not read is a torn one or one glued to it (`crTorn`), so appending and halving (with either of them failing or cut short) keep it; `RunInv` ties the cached start level to the run under way.

The servicing log needs most. What is said of its entries is said while the file decodes. A line is typed and its revision number bounded, so that a latest revision exists
(`LatestExists`). `RaggedIsRisked` says that a last line without its end carries no legacy event, and belongs to an entry at
risk: it is the only line an append may destroy. `SaysWhatWasWritten` is the property at every point, by cases of what was
asked last. `LinesBehindAppend` and `AppendKeeps` say what one append changes; after that every action
has a few lines. For the migration, `OrderExists` shows that every finite set of times has an ascending sequence and
`InOrderAscends` that the one chosen names every event, so that two of them over disjoint sets name each event at exactly one
line (`OnceInBoth`); `EventsOnce` keeps that through all later appends.

The trend history is proved with `TrendKept`. It says where the lines of a tier are (`TierKept`: dated files older than the live
one, at most `Backups` of them, lines in the files of their days: `InTheirDays`), what is gone (`RawIsKept`: the
lines that were written are some lost ones, all older than every window to come, and then the lines of the files from the oldest on), and which samples
each bucket stands for (`BucketsAreKept`: the samples fall apart into those the hourly lines sum up and those of the open
bucket). Without the lost lines and the lost samples as witnesses nothing of that is inductive. A rotation renames the live file and
drops the oldest; that it puts nothing out of order is an equation on the lines of all files, one behind the other (`FlattenAppend`,
`FlattenCons`), and that it drops nothing a check still reads is arithmetic: what is behind `Backups` files is older than
`Backups` times the days of a file. `Total` and `SummarizeAggregate` are recursive functions: that `Joined` of two summaries is the summary of both sequences rests
on `TotalOfParts`, an induction over the second. The scan of a window finds a suffix because times rise (`WindowBegins`). For `CrossingFound`
take the first reading below the threshold behind one that is not.

### Runs

- *Rules.* Nothing is remembered, so that each part is a fact about one input. `RatioIsClose` is the arithmetic of a sweep: rounding
  to the nearest, ties to even, and to one at least, leaves two thirds of the steps that were asked for, and all of them where the quotient is whole; `AlongASegment` and `AtTheTurn` say
  what lies between two points of one segment and of two. `HysteresisReturns` reads the loop from behind.
- *Fill.* `StableInv` gives the counter of `sample()` its meaning: it points to a sample (`WindowStart`) from which on all are
  at the target and none drops by more than the noise. Between `sample()` and `step()` the counter lags by one; that is the term
  in `WindowStart`.
- *Access.* `Kept` says of a recording that neighbours lie at most two strides apart and the last point at most a stride
  before the last multiple of it. Halving doubles the stride; `Remainder` is the arithmetic of the next multiple. `SkipInv`
  says that a skip that is asked for is on record before the ramp ends, which is why a warm-up can be cut short by nothing else.
- *Form.* As long as nobody has typed, the field is a folder of the open experiment or the root (`Untyped`), and what is kept
  for the time after the experiment exists while one is open.
- *Sweep.* `RunTyped` is what the constructor lets pass: at most two slots, on different parameters, each with values. From it
  `SettingSets` says what a reading is taken with: every level at its own index, every other slot as it was; and `InitialSets` that
  `initiate()` leaves a slot of one value set, the scanner's before the instrument is armed and the instrument's own behind it.
  `UnderWay` then needs only to count: the saved rows are the points before the one that is read. `OfferedHolds` is about the form alone.
- *Queue.* The pending procedures of the list are defined by recursion over its entries. `Mirrors` says that the
  Orchestrator's queue is exactly this sequence (every element of the one has its place in the other, in order), `AmongExists`
  and `MirrorsGrow` prove by induction over the length that such a sequence exists and is unique, and `SameList` that marking an
  entry as running or done by its status changes the pending part as the drain changes the queue. While nothing is astray, the entry that the panel
  marks is the one that the Orchestrator takes, because both are the first pending one; that is `RunningWasTaken`.

### Instruments

For the rotator, `ReachedInv` adds that a rotation that did not return short stands still, since only a new
ramp sends it on, and `FrozenInv` that a stop has ended the generator. For the level meter, `BufferInv` is the point: the
buffer and the sequence of observations counted once are the same, because a snapshot without a meter is marked
as folded on the tick that made it; `DeadInv` says that the last `lmDead` entries are low, and
`LongSilenceWins` counts them.

The heating of the temperature controller is inductive with its types. What is to be shown is that a method that breaks off
behind some of its commands has left the fields in one of a few combinations, and that the setpoint of a running ramp lies between
start and target at the elapsed fraction. For the Tensormeter, `StepInv` says what the commands of an initiation
before the next one have set, and `WindowInv` that the VI waits for the windows that the instrument has, unless the external tool
changed them; then more rows come behind the trigger than are taken, and no older one is.

The writes of a route change are executed one after another, as far as they go (`ClosedBehind`, a recursive function). `ConnectPasses`
says in closed form what is closed behind each of them: with hot switching first the new channels are added and then the others taken away one
by one, in ascending order; with cold switching everything is open and then the new channels are added. It is an induction over the
writes; all three parts of the property are read off that form. For the current sources, `SourceInv` says that the owner of a source finds it in
its mode with its current. The reading loop is a recursive function too, and `TallyIsRight` is what its tally means behind each answer: how many were values, how many
of the last ones failed in a row, and where the third failure in a row was if it has stopped. `PollCounts` concludes that the loop reads exactly
the values before that failure. `SourceInv` excepts what `msDoubt` names, and of a method in doubt it still says that what flows is in its own mode: whichever
write raised, the source was brought to idle first or not reached at all.

In `MagnetProofs`, `Matches` is the strengthening: a generator that waits at "matching" remembers the coil current it
read. While the PSU is on its way it is on the way to exactly that current, with the heater off; when it stands
there, heating is safe or has been done by hand. A quench behind the generator's back breaks "remembers the
coil current" but not the second half, because the PSU then stands at zero with the coil. The values of
currents and rates do not matter, so the invariant asks for the shape of the magnet and not for its types.

`HeaterDiscipline` is about what the PSU does on its way. `Driven` and `InSegment` say that a PSU that drives the
coil stays within one segment at its rate, or goes to the current of a coil it does not drive; `NextSetpoint` has a
segment for every move, because the last one ends at the limit. `WarmInv` says that without a hand on the heater what `SwitchHeater`
believes is so and a normal ramp drives a ready switch; `ParkInv` that a park waits for a match only when there is a trapped field. The stages
compose by `Kept`, `Drives` and `Matched`: what a stage leaves as it was.

The specifications of the parts (`MagnetSpec`, `ExperimentSpec`, `FillSpec`, ...) are those that `MCRuns` and `MCInstruments`
choose between; the parts share no variable.

### Induction

The library's induction theorems take an operator as their parameter, which the provers cannot instantiate. Stated of
sets (`NatLeast`: every non-empty set of numbers has a least element, from the well-foundedness of `<`; `NatInd`: a
set with 0 and all successors is all numbers) induction can be used. `IterationExists` derives from them that a function defined by
recursion over a range of numbers exists, which is what has to be known before its equation may be used. Recursion over data is therefore within reach where the
model writes it as a recursive function, as in `PendingProcs`, `ClosedBehind`, `PollReadings` and `Total`, or as a choice, as in `InOrder`; and where a community
module does, as `FlattenSeq`, whose value `FlattenIs` gives. All this is in the module `Induction`.

### Only model-checked

Liveness under fairness (`RunEnds`, `FinishEndsOperation`, `ActionsDrained`, `RampEnds`, `ConnectRecovers`): ENABLED is
outside what the prover handles. Every other property of a run that must pass is a theorem.

## 6. Where code and text disagree

Kept as runs:

- **Ramps wait in EMERGENCY** (`EmergencyRamps`; orchestrator:2409). Entering EMERGENCY commands
  `standby_all()`, but the EMERGENCY branch of the tick advances nothing, so these ramps make no progress until somebody
  acknowledges. `Station.advance_ramps()` (station:1267) says every tick must reach it in whatever
  state but PAUSED.
- **standby() may park on another ramp's current** (`StandbyPark`; magnet:221). The generator takes
  "output at target" for "finished" before it looks at the status. Called while the PSU
  passes zero on its way elsewhere, it waits for that ramp to end and cools the switch there.
- **A resume drops the park** (`ResumeDropsPark`; orchestrator:826). A pause stops every ramp in the scope, and a resume sends again
  the targets of the last plan. In STANDBY the plan of `FieldSweep` is a command, `Command("magnet_z", "standby")`, and no target: the
  ramp it started is not sent again, and the run ends as done where the pause stopped the magnet. The docstring (804) says
  that a resume "restarts the held ramps and unfreezes the wait clock, and the run picks up where it was held".
- **Closing starts the next run** (`ClosingStartsNext`; orchestrator:848). `abort_procedure()` ends with
  `run_queue()`, so closing the window, which aborts "to leave hardware safed" (`gui/monitor_window.py:1642`), puts
  the next queued run on the hardware.

Observed while modelling, part of the models and excepted by name in a property, because the text promises more:

- **A segment may step further than its step.** `SweepSegment` (`core/sweep_builder.py:25`) promises the "smallest ``n`` that keeps
  spacing at or below this value"; line 74 rounds to the nearest, so that a span of 1.4 steps is one step. `SweepKeepsItsSteps` states what the code
  keeps: exactly the step where the span is a whole number of them, half again as much at most elsewhere.
- **A looped value is checked more strictly than a single one.** `_parse_loop_values()` (`core/procedure.py:992`) says that "a loop value obeys
  exactly the constraints the single-value form field would enforce"; `collect_value()` (`gui/param_form.py:310`) enforces the type alone, so a number out
  of bounds is refused as a loop value and passes as a single one. `LoopKeepsTheDeclaration` compares the loop with the declaration instead.
- **Run Queue on a busy machine loses an entry.** `_on_run_queue()` (`gui/queue_panel.py:148`) marks the first pending entry as running whether or
  not the Orchestrator takes it. The next move or removal rebuilds the Orchestrator's queue from the pending entries alone (207), which drops its
  procedure, and the entry is shown as done without having been run. `_resync_orchestrator_queue()` says that the queue "always matches the GUI" and that "the
  currently-running item was already popped". Likewise a Run Now that is queued behind a run is in the Orchestrator's queue only, and any resync drops
  it. `RunningWasTaken` says when this cannot happen (`qpAstray`).
- **A line cut inside a character takes the whole log with it.** `_append_line()` writes without escaping (`servicing_log.py:59`), and
  `_read_lines_tolerant()` decodes the file outside its `try` (77), so `entries()` and `revisions()` raise. The class docstring (437) says that "reads
  tolerate a corrupt line (skipped with a WARNING, never raised)". `ShowsWhatWasWritten` is stated for a file that decodes.
- **An append behind a torn line continues it** (`servicing_log.py:60`): one interrupted append costs two records, of the servicing log as of the helium
  record, where `samples()` skips them. `RecordIsNewest` and `ShowsWhatWasWritten` except exactly these.
- **A setter that raises leaves a method believing a current that does not flow.** `measurement_dc_mode.py:242`, `dc_separate_measurement.py:187` and
  `measurement_delta_mode.py:268` store the current before they tell the instrument. `ModeDiscipline` excepts the methods in `msDoubt` from the amount,
  not from the mode. (A command that the source *rejects* does not even raise, `_check_error_queue()` logs it: not modelled, see section 7.)
- **A resume takes up a record of a newer version.** `_resume_active_experiment()` (`session/manager.py:581`) does not look at the schema version, so a record to
  which the pointer was set by a newer program is live behind a restart; its saves are refused. `switch_experiment()` (372) says that "a future-format record must never become
  the live, mutable experiment of an older app", `_save_current()` (553) that it "should never have become" so. `NewerUntouched` says that it stays as it is.

Observed while modelling, part of the models unless said otherwise, not kept as runs:

- Likewise *Standby all* aborts the run and thereby starts the next queued one; the standby actions it then
  submits are refused by the claims of that run, while the comment (orchestrator:1398) expects IDLE.
- For a VI that shares its instrument with an external tool, `ping()` attaches, asks and detaches, whoever had attached
  (`virtual_instruments/base.py:755`): a check from the front panel ends the session of the measurement that is under way (`Ping`). The
  docstring (730) calls it "Harmless by construction".
- Two VIs that share a driver, both offline, with the open session broken, never come back: a failed
  identity check closes only aliases no other *configured* VI names (station:536), and Disconnect is refused. `ConnectRecovers`
  shows that a VI that shares nothing does recover.
- The rotator reports TARGET_REACHED away from its target in two cases (`rtShort` excuses them in
  `ReachedIsThere`): a new target is met while the stage moves to the one before, because the generator looks at the angle
  alone (`rotator.py:188`); and any command in the generator raises, for instance `set_rate()` with the rate 0 that the
  control limits admit (67) and the VI keeps (245), because the next `advance_ramp()` takes the ended generator for a
  finished one. `rampable.py:47` calls the status "target reached and confirmed".
- A level meter whose nitrogen level does not answer counts as disconnected although its helium level is read on
  every tick: each tick then appends the reading and a synthetic "low" (`Tick` with a level and no answer), and the vote
  trips. `evaluate_safety()` says that on such a tick `helium_level()` "was never called".
- `standby_status()` stays "reached" behind heater and initiate calls, since only ramp calls clear it (`base.py:333`, 718).
- The temperature VIs' `standby()` leaves the ramp generator alive; a command that raises inside it ends it, and the
  ramp stands as RAMPING for ever (`sample_temperature_controller.py:205`).
- `standby()` of the DC and delta methods swallows what its commands raise: the source keeps its current, and the method
  counts as off (`StandbyUnheard`).
- `initiate()` of the switch opens every channel and leaves `_active_route` (`switch_matrix.py:497`).
- An OSError in a write of the experiment store that is not guarded ends the application (`StartDies`, `CloseDies`, `SwitchDies`).
- A run that ends after its experiment was switched is not found in the one that is open then; its
  record says running until that experiment is resumed at a start (`session/manager.py:444`).
- The data file is closed before the sources are switched off (`procedure.py:1656`); the model has no `close()` that raises.
- When `DataManager.__init__()` raises behind the opening of the file (`data_manager.py:141`), the procedure has no manager yet
  (`procedure.py:1512`) and its abort closes nothing: the file stays open and empty (`Left`).
- A list entry that the Orchestrator took after a Run Now stays pending and is queued again by the next edit (`gui/queue_panel.py:208`).
- On the tick on which a hold fails a watched run, the enforcement commands standby and the
  cleanup of the run then stops that ramp and clears its provenance (orchestrator:2452; the comment
  at 2182 expects the hold to be enforced on the same tick). The next tick whose retry interval has
  passed enforces it again.
- With monitoring off, a tick still drains manual actions (orchestrator:2242), so a panel ramp can start
  that nothing watches; `stop_monitoring()`'s docstring (399) says the cycle must keep running while
  hardware ramps, and refuses to stop it then, but does not keep a ramp from starting later.
- An operation may be started out of EMERGENCY when every tripped *flag* is tolerated
  (orchestrator:544). A violated session envelope is not a flag, while `acknowledge()` (1105) does
  look at it.
- `acknowledge()` returns to IDLE (orchestrator:1133) with the standby ramps of the emergency still
  on their way; a run started before the next tick finds ramps outside its scope, while
  `_run_ramp_scope()` (685) argues that nothing outside the scope can be ramping then.
- A quench turns the heater off at the driver while `SwitchHeater` still believes it on and
  ready (persistent:131). After the manual reset the next normal ramp heats the switch and drives
  without waiting; the class docstring (26, 64) describes both as kept in sync. `WarmBeforeRamp`
  therefore excuses a quench or a hand on heater and toggle (`byHand`), and `NormalRampsHeated` excuses exactly this state
  (`BelievedHeated`). A generator waiting for the switch when quench and reset both fall between two
  ticks goes on with the heater off.
- A heater turned off by the operator while a generator waits for it to warm leaves that generator
  waiting (persistent:194), hence `byHand` in `RampEnds`.
- A queued procedure that starts while a magnet is in persistent mode has already left the queue
  when it is refused (orchestrator:474, 727), and is gone.
- A failed resume (`ResumeRaises`, orchestrator:826) leaves PAUSED with some ramps moving.
- Retrying a stale fault restarts the count (station:1111): pressed more often than
  `max_vi_errors` ticks, it keeps a broken session from ever being rebuilt. With `max_vi_errors` = 1 the
  condition written by a retry is "stale" although the count is at the threshold.
- A connection that fails half-way leaves the sessions it opened (station:493). `ReleasedIsFree`
  allows that for a VI tagged `connect_failed`, and for that only.

## 7. What is not modelled

- In the Orchestrator: the live status text, ramp tracker, stall detector and status log. They read and report.
- Unit conversion and validation of `set_field()`, the magnet without a switch: the current limits and
  segments are in `PersistentMagnet`, the rest is arithmetic on floats. Likewise the rounding in `sweep_builder.py`.
- The Lakeshore variant of the temperature controller: the pattern of a modelled VI on an instrument of its own.
- Commands that an instrument accepts from the bus and then rejects (`keithley_6221.py:606` logs them and goes on), so that
  a method believes a current that the source refused.
- An append to the helium record that is cut inside a character: its lines are numbers, which have none of more than one byte. A torn raw line of the
  trend history, which the scan skips: there is no crash within a poll.
- The channels of a Tensormeter row, the parsing of replies, file names, HDF5 attributes, metadata, progress texts.
- User accounts, samples, filters, statistics and export of the session layer.
- The worker thread of the trend checks: it reads files and hands its result to the tick. A check is one step of the
  model, so a rotation in the middle of a scan is not there. Time runs forward: a clock that is set back, which
  silences the raw tier (`tiered_trend_logger.py:241`), is left out.
- Hardware drivers that only translate (string commands to instruments that are not in the repository), the
  troubleshooting CLI, configuration and GUI widgets: no control that others depend on, or pure I/O.
- Reentrant slots: a GUI slot that calls back into the Orchestrator while a signal is being
  delivered. The models make every call at a point between two events.

## 8. Plan

1. *Done.* `Orchestrator`, `RunLifecycle`, `StationConnections` with their runs; the instruments; the parts of a run and
   what it leaves behind.
2. *Done.* Theorems for every safety and action property of `Orchestrator` and `StationConnections`, the refinement of
   `RunLifecycle`, and the properties that section 5 lists for magnet, instruments, runs and records: all that the runs check but liveness.
3. Composition: `StationConnections` under the Orchestrator's claims, in place of `RunStateChanges`; `RunQueue` over
   `Orchestrator`'s queue, as a refinement.
