------------------------------ MODULE TrendHistory ------------------------------
(***************************************************************************)
(* The trend history of one reading: TieredTrendLogger writes a throttled  *)
(* raw line and folds every sample into buckets, the log handlers rotate   *)
(* the files by days, trend_history reads a window back through them, and  *)
(* the trend checks turn what they read into conditions.  Time is counted  *)
(* in polls and runs forward; a bucket is written by the first sample      *)
(* behind it, and an end of the process loses the open one.                *)
(***************************************************************************)
EXTENDS Integers, Sequences, FiniteSets, FiniteSetsExt, SequencesExt, Ascending

CONSTANTS
  Levels,            \* the values of the reading; 0 when the poll has none
  RawInterval,       \* min_raw_interval_s
  BucketLength,      \* interval_s of the aggregate tier
  Days, Backups,     \* tier -> the time between two rotations, and backupCount
  CheckWindow,       \* window_s of the checks
  RateLimit, RangeLimit, StdLimit,
  PersistedLines,    \* _PERSISTED_KEYS_MAX_LINES
  TrendHorizon       \* bound on time

VARIABLES
  thNow,
  thFiles,           \* tier -> name of a file -> its lines; a dated file has the name of its day
  thDay,             \* tier -> the day the live file will be named after
  thLastRaw,         \* _last_raw_write_t, or NoTime
  thBucket,          \* the accumulator, or NoBucket
  thConditions,      \* the published trend conditions
  thCheckedAt,       \* the time of the last check
  thRaw,             \* the raw lines that were ever written
  thSamples          \* the readings that were folded and not lost with an open bucket

thVars == <<thNow, thFiles, thDay, thLastRaw, thBucket, thConditions, thCheckedAt, thRaw, thSamples>>

Tiers == {"raw", "hourly"}
Live == 0
NoTime == -1

\* pick_tier() leaves the raw tier the windows that its backups alone cover, without the
\* live file: up to a day, where two are kept.
ASSUME TrendAssumption ==
  /\ Levels \subseteq Int
  /\ RawInterval \in Nat /\ BucketLength \in Nat \ {0}
  /\ Days \in [Tiers -> Nat \ {0}]
  /\ Backups \in [Tiers -> Nat \ {0}]
  /\ CheckWindow \in Nat /\ CheckWindow <= Backups["raw"] * Days["raw"]
  /\ RateLimit \in Int /\ RangeLimit \in Int /\ StdLimit \in Nat
  /\ PersistedLines \in Nat
  /\ TrendHorizon \in Nat

\* Days count from 1.
DayOf(tier, now) == 1 + now \div Days[tier]

-----------------------------------------------------------------------------
(* Summaries.                                                               *)

Summary(min, max, sum, count) == [min |-> min, max |-> max, sum |-> sum, count |-> count]
NoSummary == Summary(0, 0, 0, 0)
NoBucket == [start |-> NoTime, v |-> NoSummary]

Total(values) ==
  LET upTo[n \in 0 .. Len(values)] == IF n = 0 THEN 0 ELSE upTo[n - 1] + values[n]
  IN upTo[Len(values)]

SummaryOfValues(values) ==
  IF values = <<>> THEN NoSummary
  ELSE Summary(Min(ToSet(values)), Max(ToSet(values)), Total(values), Len(values))

\* (A slip of Joined.)
JoinedUnweighted(a, b) ==
  IF a.count = 0 THEN b ELSE IF b.count = 0 THEN a
  ELSE Summary(IF a.min < b.min THEN a.min ELSE b.min, IF a.max > b.max THEN a.max ELSE b.max,
               a.sum + b.sum \div b.count, a.count + 1)

\* _summarize_aggregate(): means are weighted with the counts, so that sums add up.
Joined(a, b) ==
  IF a.count = 0 THEN b ELSE IF b.count = 0 THEN a
  ELSE Summary(IF a.min < b.min THEN a.min ELSE b.min, IF a.max > b.max THEN a.max ELSE b.max,
               a.sum + b.sum, a.count + b.count)

SummarizeAggregate(records) ==
  LET upTo[n \in 0 .. Len(records)] == IF n = 0 THEN NoSummary ELSE Joined(upTo[n - 1], records[n].v)
  IN upTo[Len(records)]

-----------------------------------------------------------------------------
(* Files.                                                                   *)

\* (A slip of OldestFirst.)
OldestFirstByName(files) == InOrder(DOMAIN files)

\* _order_tier_files_newest_first(), read from behind: the dated files, then the live one.
OldestFirst(files) == Append(InOrder(DOMAIN files \ {Live}), Live)

AllLines(files) ==
  LET order == OldestFirst(files)
  IN FlattenSeq([i \in DOMAIN order |-> files[order[i]]])

\* The elements of a sequence at the places of a set.
Picked(s, places) ==
  LET at == InOrder(places)
  IN [k \in DOMAIN at |-> s[at[k]]]

\* read_tier(): backward through the files until a line is older than the window.
ReadTier(tier, window) ==
  LET lines == AllLines(thFiles[tier])
      Reached(i) == \A j \in i .. Len(lines) : lines[j].t >= thNow - window
  IN Picked(lines, {i \in DOMAIN lines : Reached(i) /\ lines[i].t <= thNow})

Dated(files) == DOMAIN files \ {Live}

\* (A slip of Retained.)
RetainedOneLess(tier, names) ==
  {n \in names : Cardinality({m \in names : m > n}) < Backups[tier] - 1}

\* The newest backups stay.
Retained(tier, names) ==
  {n \in names : Cardinality({m \in names : m > n}) < Backups[tier]}

\* The handler of setup_logging(): the first line of another day rotates the file.
Emit(tier, now, record) ==
  LET files == thFiles[tier]
      day == DayOf(tier, now)
      kept == Retained(tier, Dated(files) \cup {thDay[tier]})
      rotated == [name \in kept \cup {Live} |->
                    IF name = Live THEN <<record>> ELSE files[IF name = thDay[tier] THEN Live ELSE name]]
  IN [files |-> IF day = thDay[tier] THEN [files EXCEPT ![Live] = Append(@, record)] ELSE rotated,
      day |-> day]

Unwritten(tier) == [files |-> thFiles[tier], day |-> thDay[tier]]

-----------------------------------------------------------------------------
(* TieredTrendLogger.record()                                               *)

ValueOf(level) == IF level = 0 THEN <<>> ELSE <<level>>

\* (A slip of BucketWith.)
BucketWithReset(now, level) ==
  LET start == now - (now % BucketLength)
  IN [start |-> start, v |-> SummaryOfValues(ValueOf(level))]

\* _BucketAccumulator.add(), behind the reset of a new bucket.
BucketWith(now, level) ==
  LET start == now - (now % BucketLength)
      value == SummaryOfValues(ValueOf(level))
  IN [start |-> start, v |-> IF thBucket.start = start THEN Joined(thBucket.v, value) ELSE value]

RawIsDue(now) == thLastRaw = NoTime \/ now - thLastRaw >= RawInterval

\* A poll: the raw line is throttled, the buckets see every sample.
Record(dt, level) ==
  LET now == thNow + dt
      raw == IF RawIsDue(now) THEN Emit("raw", now, [t |-> now, v |-> level]) ELSE Unwritten("raw")
      full == thBucket.start \notin {NoTime, now - (now % BucketLength)}
      hourly == IF full THEN Emit("hourly", now, [t |-> thBucket.start, v |-> thBucket.v])
                ELSE Unwritten("hourly")
  IN /\ now <= TrendHorizon
     /\ thNow' = now
     /\ thFiles' = [raw |-> raw.files, hourly |-> hourly.files]
     /\ thDay' = [raw |-> raw.day, hourly |-> hourly.day]
     /\ thLastRaw' = IF RawIsDue(now) THEN now ELSE thLastRaw
     /\ thRaw' = IF RawIsDue(now) THEN Append(thRaw, [t |-> now, v |-> level]) ELSE thRaw
     /\ thBucket' = BucketWith(now, level)
     /\ thSamples' = thSamples \o ValueOf(level)
     /\ UNCHANGED <<thConditions, thCheckedAt>>

\* The process ends and starts again: a bucket in progress is lost.
Relaunched ==
  /\ thLastRaw # NoTime
  /\ thBucket' = NoBucket /\ thLastRaw' = NoTime /\ thConditions' = {}
  /\ thSamples' = SubSeq(thSamples, 1, Len(thSamples) - thBucket.v.count)
  /\ UNCHANGED <<thNow, thFiles, thDay, thCheckedAt, thRaw>>

-----------------------------------------------------------------------------
(* The checks, on the raw tier.                                             *)

\* read_window() of the reading.
Points(records) == Picked(records, {i \in DOMAIN records : records[i].v # 0})

\* persisted_keys(): of a reading that none of the last lines has, summarize() says nothing.
Persisted ==
  LET lines == AllLines(thFiles["raw"])
  IN \E i \in DOMAIN lines : i > Len(lines) - PersistedLines /\ lines[i].v # 0

Values(points) == [i \in DOMAIN points |-> points[i].v]
Squares(values) == [i \in DOMAIN values |-> values[i] * values[i]]

\* The variance against the square of the limit, both times the square of the count.
Deviates(values) ==
  Len(values) * Total(Squares(values)) - Total(values) * Total(values)
    > (Len(values) * StdLimit) * (Len(values) * StdLimit)

\* _helium_consumption_normal_predicate(): the fall between the two ends of the window.
Consumption(points) ==
  IF Len(points) < 2 THEN "unknown"
  ELSE IF points[1].v - points[Len(points)].v > RateLimit * (points[Len(points)].t - points[1].t)
       THEN "failed" ELSE "passed"

\* _sample_temperature_stable_predicate(): the range or the standard deviation.
Stability(points) ==
  LET s == SummaryOfValues(Values(points))
  IN IF s.count = 0 THEN "unknown"
     ELSE IF s.max - s.min > RangeLimit \/ Deviates(Values(points)) THEN "failed" ELSE "passed"

\* no_data_outcome() comes first in both.
Judged(outcome) == IF Persisted THEN outcome ELSE "unknown"
Outcomes(points) == [consumption |-> Judged(Consumption(points)), stability |-> Judged(Stability(points))]

\* (A slip of ConditionsFor.)
ConditionsForDoubt(outcomes) == {c \in DOMAIN outcomes : outcomes[c] # "passed"}

\* conditions_for(): only a failed check is a condition, "cannot tell" is none.
ConditionsFor(outcomes) == {c \in DOMAIN outcomes : outcomes[c] = "failed"}

\* TrendCheckRunner._run(): what is published replaces what was.
RunChecks ==
  /\ thConditions' = ConditionsFor(Outcomes(Points(ReadTier("raw", CheckWindow))))
  /\ thCheckedAt' = thNow
  /\ UNCHANGED <<thNow, thFiles, thDay, thLastRaw, thBucket, thRaw, thSamples>>

\* (A slip of CrossedBelow.)
CrossedBelowStrictly(before, value, threshold) == before > threshold /\ value < threshold

\* find_crossings(), downward
CrossedBelow(before, value, threshold) == before >= threshold /\ value < threshold

FindCrossings(points, threshold) ==
  {points[i].t : i \in {j \in DOMAIN points : j > 1 /\ CrossedBelow(points[j - 1].v, points[j].v, threshold)}}

TrendInit ==
  /\ thNow = 0
  /\ thFiles = [t \in Tiers |-> [name \in {Live} |-> <<>>]]
  /\ thDay = [t \in Tiers |-> DayOf(t, 0)]
  /\ thLastRaw = NoTime /\ thBucket = NoBucket
  /\ thConditions = {} /\ thCheckedAt = 0
  /\ thRaw = <<>> /\ thSamples = <<>>

TrendNext ==
  \/ Relaunched \/ RunChecks
  \/ \E dt \in 1 .. 2, level \in Levels \cup {0} : Record(dt, level)

TrendSpec == TrendInit /\ [][TrendNext]_thVars

-----------------------------------------------------------------------------
\* A reader gets every raw line of the window, in order, through every rotation: the scan
\* stops at the first older line, which is right only if files and lines are in order, and
\* no rotation deletes what a check still reads.
WindowIsComplete ==
  ReadTier("raw", CheckWindow) = Picked(thRaw, {i \in DOMAIN thRaw : thRaw[i].t >= thNow - CheckWindow})

\* The buckets together with the open one say of the samples what the samples say.
AggregateIsExact ==
  Cardinality(DOMAIN thFiles["hourly"]) <= Backups["hourly"] =>
    Joined(SummarizeAggregate(ReadTier("hourly", TrendHorizon)), thBucket.v) = SummaryOfValues(thSamples)

\* A condition rests on two readings of its window that lie as far apart as one of the limits
\* of its check asks: nothing is reported for lack of data.
NoFalseAlarm ==
  LET checked == {i \in DOMAIN thRaw : thRaw[i].v # 0 /\ thRaw[i].t >= thCheckedAt - CheckWindow}
  IN /\ "consumption" \in thConditions =>
          \E i, j \in checked : i < j /\ thRaw[i].v - thRaw[j].v > RateLimit * (thRaw[j].t - thRaw[i].t)
     /\ "stability" \in thConditions =>
          \E i, j \in checked :
            thRaw[i].v - thRaw[j].v > RangeLimit \/ thRaw[i].v - thRaw[j].v > StdLimit

\* Between a reading at or above a threshold and a later one below it a crossing is found.
CrossingFound ==
  LET points == Points(ReadTier("raw", CheckWindow))
  IN \A threshold \in Levels : \A i, j \in DOMAIN points :
       i < j /\ points[i].v >= threshold /\ points[j].v < threshold =>
         \E t \in FindCrossings(points, threshold) : points[i].t < t /\ t <= points[j].t

\* What is read back, summed up and alarmed about is what was polled.
TrendsAreExact ==
  /\ WindowIsComplete
  /\ AggregateIsExact
  /\ NoFalseAlarm
  /\ CrossingFound
=============================================================================
