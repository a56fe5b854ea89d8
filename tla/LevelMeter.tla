------------------------------ MODULE LevelMeter ------------------------------
(***************************************************************************)
(* CryogenLevelMeterVI behind the Station: the buffer that debounces the   *)
(* low-helium flag.  It is fed by the poll of every tick, by the samples   *)
(* of a helium fill, and, while the Station counts the meter as            *)
(* disconnected, by the verdict itself; a retry polls again, or rebuilds   *)
(* the VI with an empty buffer.                                            *)
(***************************************************************************)
EXTENDS Integers, Sequences, FiniteSets

CONSTANTS
  BufferSize,      \* buffer_size of the configuration
  MaxErrors        \* Station._max_errors

ASSUME LevelMeterAssumption == BufferSize \in Nat \ {0} /\ MaxErrors \in Nat \ {0}

VARIABLES
  lmBuffer,      \* _helium_buffer: was the reading low?
  lmState,       \* the snapshot of the last tick: read, stale or disconnected
  lmFolded,      \* that snapshot is _last_disconnect_state_seen
  lmErrors,      \* Station._error_counts
  lmSeen,        \* the last observations, once each: readings, and ticks without a meter
  lmDead         \* ticks in a row without a meter since its last reading

lmVars == <<lmBuffer, lmState, lmFolded, lmErrors, lmSeen, lmDead>>

Fresh == [i \in 1 .. BufferSize |-> FALSE]
Appending(buffer, low) == Tail(Append(buffer, low))

LevelMeterInit ==
  /\ lmBuffer = Fresh /\ lmState = "read" /\ lmFolded = FALSE /\ lmErrors = 0
  /\ lmSeen = Fresh /\ lmDead = 0

-----------------------------------------------------------------------------
Marked(buffer, low) == {i \in 1 .. BufferSize : buffer[i] = low}

\* (A slip of HeliumLow.)
HeliumLowThroughout(buffer) == Marked(buffer, FALSE) = {}

\* helium_low(): the mode, of which the one that comes first wins a tie.
HeliumLow(buffer) ==
  LET low == Cardinality(Marked(buffer, TRUE)) IN
    2 * low > BufferSize \/ (2 * low = BufferSize /\ buffer[1])

\* (A slip of Folds.)
FoldsAgain(state, folded) == state = "disconnected"
\* (A slip of Folds.)
FoldsStale(state, folded) == state # "read" /\ ~folded

\* evaluate_safety() folds a snapshot without a meter into the buffer, once.
Folds(state, folded) == state = "disconnected" /\ ~folded

\* helium_level() is polled behind the refresh rate and ahead of the nitrogen level: what
\* it appended stays when the poll raises at the latter.
Polled(buffer, level) == IF level = "none" THEN buffer ELSE Appending(buffer, level = "low")

Snapshot(errors) == IF errors >= MaxErrors THEN "disconnected" ELSE "stale"

\* The count has no bound in the code; above MaxErrors nothing tells two of them apart.
Counted(errors) == IF errors < MaxErrors THEN errors + 1 ELSE errors

\* A tick: Station.get_state(), and check_safety() on what it returned.
Tick(level, answers) ==
  /\ answers => level # "none"
  /\ LET errors == IF answers THEN 0 ELSE Counted(lmErrors)
         state == IF answers THEN "read" ELSE Snapshot(errors)
         polled == Polled(lmBuffer, level)
         folded == Folds(state, FALSE)
     IN /\ lmErrors' = errors
        /\ lmState' = state
        /\ lmFolded' = (state = "disconnected")
        /\ lmBuffer' = IF folded THEN Appending(polled, TRUE) ELSE polled
        /\ lmSeen' = IF state = "disconnected" THEN Appending(Polled(lmSeen, level), TRUE)
                     ELSE Polled(lmSeen, level)
        /\ lmDead' = IF level # "none" THEN 0
                     ELSE IF state = "disconnected" /\ lmDead < BufferSize THEN lmDead + 1 ELSE lmDead

\* safety_flag_sources() judges the snapshot of the same tick once more.
JudgeAgain ==
  /\ lmBuffer' = IF Folds(lmState, lmFolded) THEN Appending(lmBuffer, TRUE) ELSE lmBuffer
  /\ lmFolded' = (lmFolded \/ lmState = "disconnected")
  /\ UNCHANGED <<lmState, lmErrors, lmSeen, lmDead>>

\* HeliumFillOperation.sample() reads the level on its own.
SampleOfFill(low) ==
  /\ lmBuffer' = Appending(lmBuffer, low)
  /\ lmSeen' = Appending(lmSeen, low)
  /\ lmDead' = 0
  /\ UNCHANGED <<lmState, lmFolded, lmErrors>>

\* retry_fault() of a stale meter starts the count anew and polls.
RetryStale(level, answers) ==
  /\ lmErrors < MaxErrors
  /\ answers => level # "none"
  /\ lmErrors' = IF answers THEN 0 ELSE 1
  /\ lmBuffer' = Polled(lmBuffer, level)
  /\ lmSeen' = Polled(lmSeen, level)
  /\ lmDead' = IF level # "none" THEN 0 ELSE lmDead
  /\ lmState' = IF answers THEN "read" ELSE "stale"
  /\ UNCHANGED lmFolded

\* retry_fault() of a disconnected meter: a new VI, which knows nothing of the past.
Rebuild(level, answers) ==
  /\ lmErrors >= MaxErrors
  /\ answers => level # "none"
  /\ lmErrors' = IF answers THEN 0 ELSE 1
  /\ lmBuffer' = Polled(Fresh, level)
  /\ lmSeen' = Polled(Fresh, level)
  /\ lmState' = IF answers THEN "read" ELSE "stale"
  /\ lmFolded' = FALSE
  /\ lmDead' = 0

LevelMeterNext ==
  \/ \E level \in {"low", "fine", "none"}, answers \in BOOLEAN :
       Tick(level, answers) \/ RetryStale(level, answers) \/ Rebuild(level, answers)
  \/ JudgeAgain
  \/ \E low \in BOOLEAN : SampleOfFill(low)

LevelMeterSpec == LevelMeterInit /\ [][LevelMeterNext]_lmVars

-----------------------------------------------------------------------------
\* Low helium is the verdict of most of the last observations: no observation counts twice,
\* however often one snapshot is judged.
LowIsMajority == HeliumLow(lmBuffer) => 2 * Cardinality(Marked(lmSeen, TRUE)) >= BufferSize

\* A meter that stays dead long enough to win the vote trips the flag.
DeadMeterTrips == 2 * lmDead > BufferSize => HeliumLow(lmBuffer)

\* A silence that is shorter than the disconnect threshold changes no verdict.
GlitchIsSmoothed ==
  lmState' = "stale" /\ lmErrors' > lmErrors /\ lmSeen' = lmSeen
    => HeliumLow(lmBuffer') = HeliumLow(lmBuffer)

\* The low-helium flag neither trips on single readings and short silences nor misses a
\* meter that is dead.
LevelIsDebounced == [][LowIsMajority' /\ DeadMeterTrips' /\ GlitchIsSmoothed]_lmVars
=============================================================================
