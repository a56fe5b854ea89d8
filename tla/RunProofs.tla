------------------------------- MODULE RunProofs -------------------------------
(***************************************************************************)
(* Proofs about what a run is made of: the helium fill for every target,   *)
(* noise floor and window, the sample access for any steps and any length  *)
(* of its recording, the form of the experiment for any experiments and    *)
(* users, the two queues for any number of procedures, and the sweep       *)
(* procedures for any instruments and values.  Each has an invariant that  *)
(* its steps keep, one lemma per step.  Of the rules of a plan each case   *)
(* is decided by itself, for all numbers, shapes, segments and steps.      *)
(***************************************************************************)
EXTENDS PlanRules, SweepProcedure, HeliumFill, SampleAccess, ExperimentForm, RunQueue, Induction

-----------------------------------------------------------------------------
(* The helium fill.                                                         *)

\* What a fill has before it samples, and how far its time may have come.
FillType ==
  /\ hfNow \in 0 .. (MaxFillDuration + 1)
  /\ hfHeld \in Int /\ hfHeld >= -1
  /\ hfSamples \in Seq(FillLevels)
  /\ hfStable \in Int
  /\ hfPhase \in {"off", "ramping", "gate", "sampling", "stepping", "ended"}
  /\ hfPhase \in {"ramping", "gate"} => hfSamples = <<>> /\ hfStable = -1
  /\ Running => hfEnd = "none"

\* The sample at which the stable window that sample() keeps began: of every period since the
\* start of the window there is one sample, and the one of the last period is still to come
\* while the phase is "sampling".
WindowStart == Len(hfSamples) + hfStable - hfNow + (IF hfPhase = "sampling" THEN 1 ELSE 0)

StableFrom(samples, k) ==
  /\ \A i \in k .. Len(samples) : samples[i] >= FillTarget
  /\ \A i \in (k + 1) .. Len(samples) : samples[i] <= samples[i - 1] + NoiseFloor

StableInv ==
  hfPhase \in {"sampling", "stepping"} /\ hfStable >= 0 =>
    WindowStart \in DOMAIN hfSamples /\ StableFrom(hfSamples, WindowStart)

FillInv == FillType /\ StableInv /\ CompleteWasStable /\ FillsAtZeroField /\ MeterSlowedDown

\* Another sample that is full and not noisy keeps the window stable.
LEMMA SampleExtends ==
  ASSUME NEW s \in Seq(FillLevels), NEW k \in DOMAIN s, StableFrom(s, k),
         NEW level \in FillLevels, level >= FillTarget, level <= s[Len(s)] + NoiseFloor
  PROVE  StableFrom(Append(s, level), k)
<1> DEFINE t == Append(s, level)
<1>1. Len(t) = Len(s) + 1 /\ t[Len(s) + 1] = level /\ Len(s) \in Nat /\ \A i \in 1 .. Len(s) : t[i] = s[i]
  OBVIOUS
<1> HIDE DEF t
<1>2. \A i \in k .. Len(t) : t[i] >= FillTarget
  BY <1>1 DEF StableFrom
<1>3. ASSUME NEW i \in (k + 1) .. Len(t) PROVE t[i] <= t[i - 1] + NoiseFloor
  <2>1. CASE i = Len(s) + 1
    BY <1>1, <2>1
  <2>2. CASE i # Len(s) + 1
    BY <1>1, <1>3, <2>2 DEF StableFrom
  <2> QED
    BY <2>1, <2>2
<1> QED
  BY <1>2, <1>3 DEF StableFrom, t

\* Nothing is sampled yet, or nothing of the samples changes.
LEMMA FillBegins ==
  ASSUME FillInv, StartFill \/ RampingDone \/ PollLevel \/ RequestFinish
  PROVE  FillInv'
<1>1. CASE StartFill
  BY <1>1, FillAssumption DEF StartFill, FillInv, FillType, StableInv, CompleteWasStable, FillsAtZeroField,
     MeterSlowedDown, Running
<1>2. CASE RampingDone
  BY <1>2 DEF RampingDone, FillInv, FillType, StableInv, CompleteWasStable, FillsAtZeroField,
     MeterSlowedDown, Running
<1>3. CASE PollLevel \/ RequestFinish
  <2>1. UNCHANGED <<hfPhase, hfMagnet, hfNow, hfHeld, hfSamples, hfStable, hfFast, hfEnd>>
    BY <1>3 DEF PollLevel, RequestFinish
  <2> QED
    BY <2>1 DEF FillInv, FillType, StableInv, WindowStart, CompleteWasStable, FillsAtZeroField,
       MeterSlowedDown, Unmet, LastLevel, Running
<1> QED
  BY <1>1, <1>2, <1>3

\* A magnet leaves zero only when no fill is running.
LEMMA MagnetMovesFill ==
  ASSUME FillInv, NEW m \in FillMagnets, MagnetArrives(m) \/ MagnetMoves(m) PROVE FillInv'
<1>1. UNCHANGED <<hfPhase, hfNow, hfHeld, hfSamples, hfStable, hfFast, hfEnd>>
  BY DEF MagnetArrives, MagnetMoves
<1>2. FillsAtZeroField'
  BY DEF MagnetArrives, MagnetMoves, FillInv, FillsAtZeroField, Running
<1> QED
  BY <1>1, <1>2 DEF FillInv, FillType, StableInv, WindowStart, CompleteWasStable, MeterSlowedDown,
     Unmet, LastLevel, Running

\* The gate opens onto a station whose magnets have just been polled at zero.
LEMMA GateFills == ASSUME FillInv, GateStep PROVE FillInv'
<1>1. /\ hfPhase = "gate" /\ hfPhase' \in {"gate", "sampling"}
      /\ UNCHANGED <<hfMagnet, hfSamples, hfStable, hfFast, hfEnd>>
  BY DEF GateStep
<1>2. hfNow' \in 0 .. (MaxFillDuration + 1)
  BY FillAssumption DEF GateStep, Counted, FillInv, FillType
<1>3. hfHeld' \in Int /\ hfHeld' >= -1 /\ (hfHeld' >= 0 => FillMagnets \subseteq hfMagnet)
  BY DEF GateStep, FillInv, FillType
<1>4. FillsAtZeroField'
  BY <1>1, <1>3, FillAssumption DEF GateStep, FillsAtZeroField
<1> QED
  BY <1>1, <1>2, <1>3, <1>4 DEF FillInv, FillType, StableInv, CompleteWasStable, MeterSlowedDown, Running

\* A sample joins the stable window, begins one, or ends it.
LEMMA SampleFills == ASSUME FillInv, NEW level \in FillLevels, SampleLevel(level) PROVE FillInv'
<1> DEFINE n == Len(hfSamples)
<1>1. /\ hfPhase = "sampling" /\ hfPhase' = "stepping" /\ hfSamples' = Append(hfSamples, level)
      /\ hfStable' = StableSince(level) /\ UNCHANGED <<hfMagnet, hfNow, hfHeld, hfFast, hfEnd>>
  BY DEF SampleLevel
<1>2. /\ hfSamples' \in Seq(FillLevels) /\ n \in Nat /\ Len(hfSamples') = n + 1
      /\ hfSamples'[n + 1] = level /\ hfEnd = "none" /\ hfNow \in Int /\ hfStable \in Int
      /\ hfSamples \in Seq(FillLevels)
  BY <1>1, FillAssumption DEF FillInv, FillType, Running
<1>3. hfStable' \in Int
  BY <1>1, <1>2 DEF StableSince
<1>4. ASSUME hfStable' >= 0 PROVE WindowStart' \in DOMAIN hfSamples' /\ StableFrom(hfSamples', WindowStart')
  <2>1. level >= FillTarget /\ ~(LastLevel # NoLevel /\ level > LastLevel + NoiseFloor)
    BY <1>1, <1>4 DEF StableSince
  <2>2. CASE hfStable < 0
    <3>1. hfStable' = hfNow
      BY <1>1, <2>1, <2>2 DEF StableSince
    <3>2. WindowStart' = n + 1
      BY <1>1, <1>2, <3>1 DEF WindowStart
    <3> QED
      BY <1>2, <2>1, <3>2 DEF StableFrom
  <2>3. CASE hfStable >= 0
    <3>1. hfStable' = hfStable
      BY <1>1, <1>2, <2>1, <2>3 DEF StableSince
    <3>2. WindowStart \in 1 .. n /\ StableFrom(hfSamples, WindowStart)
      BY <1>1, <1>2, <2>3 DEF FillInv, StableInv
    <3>3. WindowStart' = WindowStart
      BY <1>1, <1>2, <3>1 DEF WindowStart
    <3>4. hfSamples # <<>> /\ LastLevel = hfSamples[n] /\ LastLevel \in FillLevels
      BY <1>2, <3>2 DEF LastLevel
    <3>5. level <= hfSamples[n] + NoiseFloor
      BY <2>1, <3>4, FillAssumption
    <3>6. StableFrom(hfSamples', WindowStart)
      BY <1>1, <1>2, <2>1, <3>2, <3>5, SampleExtends
    <3> QED
      BY <1>2, <3>2, <3>3, <3>6
  <2> QED
    BY <1>2, <2>2, <2>3
<1>5. FillType'
  BY <1>1, <1>2, <1>3 DEF FillInv, FillType, Running
<1>6. CompleteWasStable' /\ FillsAtZeroField' /\ MeterSlowedDown'
  BY <1>1, <1>2 DEF FillInv, CompleteWasStable, FillsAtZeroField, MeterSlowedDown
<1> QED
  BY <1>4, <1>5, <1>6 DEF FillInv, StableInv

\* The time a fill may take is asked for before each period.
LEMMA StepFills == ASSUME FillInv, StepFill PROVE FillInv'
<1>1. /\ hfPhase = "stepping" /\ hfPhase' = "sampling" /\ hfNow' = hfNow + 1
      /\ UNCHANGED <<hfMagnet, hfSamples, hfStable, hfHeld, hfFast, hfEnd>>
  BY DEF StepFill
<1>2. hfNow <= MaxFillDuration
  BY FillAssumption DEF StepFill, EndReason, FillInv, FillType
<1>3. FillType'
  BY <1>1, <1>2, FillAssumption DEF FillInv, FillType, Running
<1>4. WindowStart' = WindowStart
  BY <1>1 DEF WindowStart, FillInv, FillType
<1> QED
  BY <1>1, <1>3, <1>4 DEF FillInv, FillType, StableInv, CompleteWasStable, FillsAtZeroField,
     MeterSlowedDown, Running

\* A fill that ends as complete has the whole window behind it.
LEMMA EndFills == ASSUME FillInv, NEW heard \in BOOLEAN, EndFill(heard) \/ AbortFill(heard) PROVE FillInv'
<1>1. /\ hfPhase' = "ended" /\ hfFast' = ~heard /\ UNCHANGED <<hfMagnet, hfNow, hfSamples, hfStable, hfHeld>>
      /\ ~heard => hfEnd' = "error"
  BY DEF EndFill, AbortFill
<1>2. ASSUME hfEnd' = "complete" PROVE CompleteWasStable'
  <2>1. hfPhase = "stepping" /\ Complete
    <3>1. EndFill(heard) /\ EndReason = "complete"
      BY <1>2 DEF EndFill, AbortFill
    <3>2. ~hfFinish /\ Complete
      BY <3>1 DEF EndReason
    <3> QED
      BY <3>1, <3>2 DEF EndFill
  <2>2. WindowStart \in DOMAIN hfSamples /\ StableFrom(hfSamples, WindowStart)
    BY <2>1 DEF FillInv, StableInv, Complete
  <2>3. Len(hfSamples) - WindowStart >= CompleteWindow
    BY <2>1, FillAssumption DEF WindowStart, Complete, FillInv, FillType
  <2> QED
    BY <1>1, <2>2, <2>3 DEF CompleteWasStable, StableFrom
<1>3. CompleteWasStable'
  BY <1>2 DEF CompleteWasStable
<1>4. MeterSlowedDown'
  BY <1>1 DEF MeterSlowedDown, Unmet
<1>5. FillType'
  BY <1>1 DEF FillInv, FillType, Running
<1> QED
  BY <1>1, <1>3, <1>4, <1>5 DEF FillInv, StableInv, FillsAtZeroField

\* For every target, noise floor and window, whenever the operator confirms, finishes or
\* aborts: a fill runs at zero field, ends in time, is complete only when the level was stable
\* over the whole window, and slows the meter down again unless it did not hear.
THEOREM FillIsSoundHolds == FillSpec => []FillIsSound
<1>1. FillInit => FillInv
  BY FillAssumption DEF FillInit, FillInv, FillType, StableInv, CompleteWasStable, FillsAtZeroField,
     MeterSlowedDown, Running
<1>2. FillInv /\ [FillNext]_hfVars => FillInv'
  <2> SUFFICES ASSUME FillInv, [FillNext]_hfVars PROVE FillInv'
    OBVIOUS
  <2>1. CASE UNCHANGED hfVars
    BY <2>1 DEF hfVars, FillInv, FillType, StableInv, WindowStart, CompleteWasStable,
       FillsAtZeroField, MeterSlowedDown, Unmet, LastLevel, Running
  <2> QED
    BY <2>1, FillBegins, MagnetMovesFill, GateFills, SampleFills, StepFills, EndFills DEF FillNext
<1>3. FillInv => FillIsSound
  BY FillAssumption DEF FillInv, FillType, FillIsSound, FillIsBounded
<1> QED
  BY <1>1, <1>2, <1>3, PTL DEF FillSpec

-----------------------------------------------------------------------------
(* The recording of an operation, thinned out instead of growing.           *)

\* Where the remainder goes as the count goes up by one.
LEMMA Remainder ==
  ASSUME NEW s \in Nat \ {0}, NEW n \in Nat
  PROVE  /\ n % s \in 0 .. (s - 1)
         /\ (n + 1) % s # 0 => (n + 1) % s = (n % s) + 1
         /\ (n + 1) % s = 0 => (n % s) = s - 1
<1> DEFINE q == n \div s
           r == n % s
           p == (n + 1) \div s
           t == (n + 1) % s
<1>1. q \in Int /\ r \in 0 .. (s - 1) /\ n = s * q + r
  OBVIOUS
<1>2. p \in Int /\ t \in 0 .. (s - 1) /\ n + 1 = s * p + t
  OBVIOUS
<1> HIDE DEF q, r, p, t
<1>3. s * (p - q) = r + 1 - t
  BY <1>1, <1>2
<1>4. p - q \in {0, 1}
  <2> DEFINE d == p - q
  <2>1. d \in Int /\ s * d = r + 1 - t
    BY <1>1, <1>2, <1>3
  <2>2. s * d <= s /\ s * d > -s
    BY <1>1, <1>2, <2>1
  <2> HIDE DEF d
  <2>3. d <= 1
    BY <2>1, <2>2
  <2>4. d > -1
    BY <2>1, <2>2
  <2> QED
    BY <2>1, <2>3, <2>4 DEF d
<1>5. CASE p = q
  BY <1>1, <1>2, <1>5
<1>6. CASE p = q + 1
  BY <1>1, <1>2, <1>3, <1>6
<1> QED
  BY <1>1, <1>2, <1>4, <1>5, <1>6 DEF q, r, p, t

\* What keeps SpansRun: the last point lies at most a stride before the last multiple of it.
Kept(points, stride, raw) ==
  /\ points \in Seq(Nat) /\ stride \in Nat \ {0} /\ raw \in Nat
  /\ Len(points) <= RecordingBound
  /\ raw > 0 => points # <<>> /\ points[1] = 1
  /\ raw = 0 => points = <<>> /\ stride = 1
  /\ \A i \in 2 .. Len(points) : points[i] - points[i - 1] \in 1 .. (2 * stride)
  /\ raw > 0 =>
       /\ raw - points[Len(points)] <= stride + (raw % stride)
       /\ points[Len(points)] <= raw

Spans(rec) == Kept(rec.points, rec.stride, rec.raw)

LEMMA SpansIsEnough == ASSUME NEW rec, Spans(rec) PROVE SpansRun(rec)
<1>1. rec.raw > 0 => rec.raw - rec.points[Len(rec.points)] < 2 * rec.stride
  <2> SUFFICES ASSUME rec.raw > 0 PROVE rec.raw - rec.points[Len(rec.points)] < 2 * rec.stride
    OBVIOUS
  <2> DEFINE last == rec.points[Len(rec.points)]
             r == rec.raw % rec.stride
             s == rec.stride
  <2>1. r \in 0 .. (s - 1) /\ s \in Nat /\ rec.raw \in Nat /\ rec.raw - last <= s + r /\ last \in Nat
    <3>1. /\ rec.stride \in Nat \ {0} /\ rec.raw \in Nat /\ rec.points \in Seq(Nat) /\ rec.points # <<>>
          /\ rec.raw - rec.points[Len(rec.points)] <= rec.stride + (rec.raw % rec.stride)
      BY DEF Spans, Kept
    <3>2. rec.raw % rec.stride \in 0 .. (rec.stride - 1)
      BY <3>1, Remainder
    <3>3. rec.points[Len(rec.points)] \in Nat
      BY <3>1
    <3> QED
      BY <3>1, <3>2, <3>3
  <2> HIDE DEF last, r, s
  <2>2. rec.raw - last < 2 * s
    BY <2>1
  <2> QED
    BY <2>2 DEF last, s
<1> QED
  BY <1>1 DEF Spans, Kept, SpansRun

\* A sample that is recorded.
LEMMA Recorded ==
  ASSUME NEW rec, Spans(rec), (rec.raw + 1) % rec.stride = 0
  PROVE  LET points == Append(rec.points, rec.raw + 1)
         IN /\ points \in Seq(Nat) /\ Len(points) = Len(rec.points) + 1 /\ points[Len(points)] = rec.raw + 1
            /\ points[1] = 1
            /\ \A i \in 2 .. Len(points) : points[i] - points[i - 1] \in 1 .. (2 * rec.stride)
<1> DEFINE points == Append(rec.points, rec.raw + 1)
           n == Len(rec.points)
           s == rec.stride
           raw == rec.raw
<1>1. /\ rec.points \in Seq(Nat) /\ n \in Nat /\ s \in Nat \ {0} /\ raw \in Nat
      /\ raw = 0 => n = 0
      /\ raw > 0 => n > 0 /\ rec.points[1] = 1 /\ rec.points[n] \in Nat
      /\ raw > 0 => raw - rec.points[n] <= s + (raw % s) /\ rec.points[n] <= raw
      /\ \A i \in 2 .. n : rec.points[i] - rec.points[i - 1] \in 1 .. (2 * s)
  BY DEF Spans, Kept
<1>2. points \in Seq(Nat) /\ Len(points) = n + 1 /\ points[n + 1] = raw + 1 /\ \A i \in 1 .. n : points[i] = rec.points[i]
  BY <1>1
<1>3. raw % s = s - 1
  BY <1>1, Remainder
<1>0. n \in Nat /\ s \in Nat \ {0} /\ raw \in Nat
  BY <1>1
<1> HIDE DEF points, n, s, raw
<1>4. points[1] = 1
  BY <1>1, <1>2
<1>5. ASSUME NEW i \in 2 .. (n + 1) PROVE points[i] - points[i - 1] \in 1 .. (2 * s)
  <2>1. CASE i = n + 1
    <3>0. i \in Nat /\ i >= 2 /\ i - 1 = n /\ n \in 1 .. n
      BY <1>1, <2>1
    <3>1. raw > 0 /\ points[i] = raw + 1 /\ points[i - 1] = rec.points[n] /\ rec.points[n] \in Nat
      BY <1>1, <1>2, <2>1, <3>0
    <3>2. raw - rec.points[n] <= s + (s - 1) /\ rec.points[n] <= raw
      BY <1>1, <1>3, <3>1
    <3> DEFINE before == rec.points[n]
    <3>3. before \in Nat /\ raw - before <= s + (s - 1) /\ before <= raw
      BY <3>1, <3>2
    <3>4. points[i] = raw + 1 /\ points[i - 1] = before
      BY <3>1
    <3> HIDE DEF before
    <3>5. raw + 1 - before \in 1 .. (2 * s)
      BY <1>0, <3>3
    <3> QED
      BY <1>0, <3>3, <3>4, <3>5
  <2>2. CASE i # n + 1
    <3>1. i \in 2 .. n /\ i \in 1 .. n /\ i - 1 \in 1 .. n
      BY <1>0, <2>2
    <3> QED
      BY <1>1, <1>2, <3>1
  <2> QED
    BY <2>1, <2>2
<1> QED
  BY <1>2, <1>4, <1>5 DEF points, s, raw, n

\* Thinning out keeps the first point, doubles the largest gap, and loses at most the last one.
LEMMA ThinnedOut ==
  ASSUME NEW points \in Seq(Nat), points # <<>>, points[1] = 1, NEW s \in Nat \ {0},
         \A i \in 2 .. Len(points) : points[i] - points[i - 1] \in 1 .. (2 * s)
  PROVE  LET half == EveryOther(points)
             n == (Len(points) + 1) \div 2
         IN /\ half \in Seq(Nat) /\ Len(half) = n /\ n \in Nat /\ 2 * n <= Len(points) + 1 /\ n > 0
            /\ half[1] = 1
            /\ \A i \in 2 .. n : half[i] - half[i - 1] \in 1 .. (4 * s)
            /\ half[n] <= points[Len(points)] /\ points[Len(points)] - half[n] <= 2 * s
<1> DEFINE N == Len(points)
           n == (N + 1) \div 2
           half == EveryOther(points)
<1>1. /\ N \in Nat /\ N > 0 /\ \A i \in 1 .. N : points[i] \in Nat
      /\ \A i \in 2 .. N : points[i] - points[i - 1] \in 1 .. (2 * s)
  OBVIOUS
<1>2. n \in Nat /\ n > 0 /\ (2 * n = N + 1 \/ 2 * n = N)
  BY <1>1
<1>3. half = [i \in 1 .. n |-> points[2 * i - 1]]
  BY DEF EveryOther
<1> HIDE DEF n, half, N
<1>4. \A i \in 1 .. n : half[i] = points[2 * i - 1] /\ 2 * i - 1 \in 1 .. N
  BY <1>1, <1>2, <1>3
<1>5. half \in [1 .. n -> Nat]
  BY <1>1, <1>3, <1>4
<1>6. half \in Seq(Nat) /\ Len(half) = n
  BY <1>2, <1>3, <1>5
<1>7. half[1] = 1
  BY <1>2, <1>4
<1>8. ASSUME NEW i \in 2 .. n PROVE half[i] - half[i - 1] \in 1 .. (4 * s)
  <2>1. i \in 1 .. n /\ i - 1 \in 1 .. n /\ 2 * (i - 1) - 1 = 2 * i - 3
    BY <1>2
  <2>2. half[i] = points[2 * i - 1] /\ half[i - 1] = points[2 * i - 3]
    BY <1>4, <2>1
  <2>3. 2 * i - 1 \in 2 .. N /\ 2 * i - 2 \in 2 .. N /\ 2 * i - 1 - 1 = 2 * i - 2 /\ 2 * i - 2 - 1 = 2 * i - 3
    BY <1>1, <1>2
  <2>4. /\ points[2 * i - 1] - points[2 * i - 2] \in 1 .. (2 * s)
        /\ points[2 * i - 2] - points[2 * i - 3] \in 1 .. (2 * s)
    BY <1>1, <2>3
  <2>5. points[2 * i - 1] \in Nat /\ points[2 * i - 2] \in Nat /\ points[2 * i - 3] \in Nat
    <3>1. 2 * i - 3 \in 1 .. N /\ 2 * i - 2 \in 1 .. N /\ 2 * i - 1 \in 1 .. N
      BY <1>1, <1>2, <2>3
    <3> QED
      BY <1>1, <3>1
  <2> DEFINE a == points[2 * i - 1]
             b == points[2 * i - 2]
             c == points[2 * i - 3]
  <2>6. a \in Nat /\ b \in Nat /\ c \in Nat /\ a - b \in 1 .. (2 * s) /\ b - c \in 1 .. (2 * s)
    BY <2>4, <2>5
  <2>7. half[i] = a /\ half[i - 1] = c
    BY <2>2
  <2> HIDE DEF a, b, c
  <2>8. a - c \in 1 .. (4 * s)
    BY <2>6
  <2> QED
    BY <2>7, <2>8
<1>9. half[n] <= points[N] /\ points[N] - half[n] <= 2 * s
  <2>1. n \in 1 .. n /\ half[n] = points[2 * n - 1] /\ points[N] \in Nat
    BY <1>1, <1>2, <1>4
  <2>2. CASE 2 * n = N + 1
    <3>1. 2 * n - 1 = N
      BY <1>1, <1>2, <2>2
    <3> QED
      BY <1>1, <2>1, <3>1
  <2>3. CASE 2 * n = N
    <3>1. N \in 2 .. N /\ 2 * n - 1 = N - 1 /\ N - 1 \in 1 .. N
      BY <1>1, <1>2, <2>3
    <3>2. points[N] - points[N - 1] \in 1 .. (2 * s) /\ points[N - 1] \in Nat
      BY <1>1, <3>1
    <3> QED
      BY <2>1, <3>1, <3>2
  <2> QED
    BY <1>2, <2>2, <2>3
<1> QED
  BY <1>1, <1>2, <1>6, <1>7, <1>8, <1>9 DEF n, half, N

\* A recording keeps that however long it goes on.
LEMMA RecordSpans == ASSUME NEW rec, Spans(rec) PROVE Spans(RecordSample(rec))
<1> DEFINE raw == rec.raw + 1
           points == Append(rec.points, raw)
           s == rec.stride
           after == RecordSample(rec)
<1>1. /\ rec.points \in Seq(Nat) /\ s \in Nat \ {0} /\ rec.raw \in Nat /\ raw \in Nat /\ raw > 0
      /\ Len(rec.points) \in Nat /\ Len(rec.points) <= RecordingBound
  BY DEF Spans, Kept
<1>2. CASE raw % s # 0
  <2>1. after.points = rec.points /\ after.stride = s /\ after.raw = raw
    BY <1>2 DEF RecordSample
  <2>2. rec.raw > 0
    <3>1. rec.raw = 0 => s = 1
      BY DEF Spans, Kept
    <3>2. 1 % 1 = 0
      OBVIOUS
    <3> QED
      BY <1>1, <1>2, <3>1, <3>2
  <2> DEFINE last == rec.points[Len(rec.points)]
  <2>3. last \in Nat /\ rec.raw - last <= s + (rec.raw % s) /\ last <= rec.raw
    BY <1>1, <2>2 DEF Spans, Kept
  <2>4. raw % s = (rec.raw % s) + 1 /\ rec.raw % s \in Nat
    <3>1. rec.raw % s \in 0 .. (s - 1) /\ ((rec.raw + 1) % s # 0 => (rec.raw + 1) % s = (rec.raw % s) + 1)
      BY <1>1, Remainder
    <3> QED
      BY <1>1, <1>2, <3>1
  <2> HIDE DEF last
  <2>5. raw - last <= s + (raw % s) /\ last <= raw
    BY <1>1, <2>3, <2>4
  <2>6. Kept(rec.points, s, raw)
    <3>1. /\ rec.points \in Seq(Nat) /\ s \in Nat \ {0} /\ raw \in Nat /\ raw > 0
          /\ Len(rec.points) <= RecordingBound
      BY <1>1
    <3>2. rec.points # <<>> /\ rec.points[1] = 1
      BY <2>2 DEF Spans, Kept
    <3>3. \A i \in 2 .. Len(rec.points) : rec.points[i] - rec.points[i - 1] \in 1 .. (2 * s)
      BY DEF Spans, Kept
    <3>4. raw - rec.points[Len(rec.points)] <= s + (raw % s) /\ rec.points[Len(rec.points)] <= raw
      BY <2>5 DEF last
    <3> HIDE DEF raw, s
    <3> QED
      BY <3>1, <3>2, <3>3, <3>4 DEF Kept
  <2> QED
    BY <2>1, <2>6 DEF Spans
<1>3. CASE raw % s = 0
  <2>1. /\ points \in Seq(Nat) /\ Len(points) = Len(rec.points) + 1 /\ points[Len(points)] = raw /\ points[1] = 1
        /\ \A i \in 2 .. Len(points) : points[i] - points[i - 1] \in 1 .. (2 * s)
    BY <1>3, Recorded
  <2>2. CASE Len(points) <= RecordingBound
    <3>1. after.points = points /\ after.stride = s /\ after.raw = raw
      BY <1>3, <2>2 DEF RecordSample
    <3>2. points # <<>>
      BY <1>1, <2>1
    <3>3. raw - raw <= s + (raw % s)
      BY <1>1, <1>3
    <3>4. Kept(points, s, raw)
      <4> HIDE DEF raw, s, points
      <4> QED
        BY <1>1, <2>1, <2>2, <3>2, <3>3 DEF Kept
    <3> QED
      BY <3>1, <3>4 DEF Spans
  <2>3. CASE ~(Len(points) <= RecordingBound)
    <3> DEFINE half == EveryOther(points)
               n == (Len(points) + 1) \div 2
    <3>1. after.points = half /\ after.stride = 2 * s /\ after.raw = raw
      BY <1>3, <2>3 DEF RecordSample
    <3>2. /\ half \in Seq(Nat) /\ Len(half) = n /\ n \in Nat /\ 2 * n <= Len(points) + 1 /\ n > 0
          /\ half[1] = 1
          /\ \A i \in 2 .. n : half[i] - half[i - 1] \in 1 .. (4 * s)
          /\ half[n] <= points[Len(points)] /\ points[Len(points)] - half[n] <= 2 * s
      <4>1. points # <<>>
        BY <1>1, <2>1
      <4> HIDE DEF points, s
      <4> QED
        BY <1>1, <2>1, <4>1, ThinnedOut
    <3> HIDE DEF half, n, after
    <3>3. n <= RecordingBound
      BY <1>1, <2>1, <3>2, RecordingAssumption
    <3>4. 2 * s \in Nat \ {0} /\ 2 * (2 * s) = 4 * s /\ raw % (2 * s) \in Nat
      <4>1. 2 * s \in Nat \ {0} /\ 2 * (2 * s) = 4 * s
        BY <1>1
      <4>2. raw % (2 * s) \in 0 .. (2 * s - 1)
        BY <1>1, <4>1, Remainder
      <4> QED
        BY <4>1, <4>2
    <3>5. half[n] \in Nat /\ half[n] <= raw /\ raw - half[n] <= 2 * s + (raw % (2 * s))
      <4>1. half[n] \in Nat
        BY <3>2
      <4>2. half[n] <= raw /\ raw - half[n] <= 2 * s
        BY <2>1, <3>2
      <4> DEFINE r == raw % (2 * s)
                 d == 2 * s
      <4>3. r \in Nat /\ d \in Nat /\ raw \in Nat /\ raw - half[n] <= d
        BY <1>1, <3>4, <4>2
      <4> HIDE DEF r, d, raw
      <4>4. raw - half[n] <= d + r
        BY <4>1, <4>3
      <4> QED
        BY <4>1, <4>2, <4>4 DEF r, d
    <3>6. half # <<>>
      BY <3>2
    <3>7. Kept(half, 2 * s, raw)
      <4> HIDE DEF raw, s, points
      <4> QED
        BY <1>1, <3>2, <3>3, <3>4, <3>5, <3>6 DEF Kept
    <3> QED
      BY <3>1, <3>7 DEF Spans, after
  <2> QED
    BY <2>2, <2>3
<1> QED
  BY <1>2, <1>3

-----------------------------------------------------------------------------
(* Sample load and unload.                                                  *)

AccessType ==
  /\ saRecords \in [StepKeys -> {"pending", "done", "skipped"}]
  /\ saPhase \in {"off", "ramping", "sampling", "ended", "aborted"}
  /\ saSkipRamp \in BOOLEAN /\ saShort \in BOOLEAN /\ saRamping \in BOOLEAN
  /\ Spans(saRecording)

\* A skip that is asked for, or was carried out, is on record.
SkipInv ==
  /\ Active /\ saSkipRamp = TRUE => saRecords[RampStep] = "skipped"
  /\ saPhase = "ramping" => saShort = FALSE

AccessInv == AccessType /\ SkipInv /\ SkipCutsShort

\* The first record of a step stands.
LEMMA StepStands ==
  ASSUME NEW records \in [StepKeys -> {"pending", "done", "skipped"}], NEW key \in StepKeys,
         NEW status \in {"done", "skipped"}
  PROVE  /\ RecordStep(records, key, status) \in [StepKeys -> {"pending", "done", "skipped"}]
         /\ \A k \in StepKeys :
              RecordStep(records, key, status)[k] =
                IF k = key /\ records[k] = "pending" THEN status ELSE records[k]
  BY DEF RecordStep, Pending

LEMMA StartAccessKeeps == AccessInv /\ StartAccess => AccessInv'
<1> SUFFICES ASSUME AccessInv, StartAccess PROVE AccessInv'
  OBVIOUS
<1>1. Spans(EmptyRecording)
  BY RecordingAssumption DEF Spans, Kept, EmptyRecording
<1>2. AccessType'
  BY <1>1 DEF StartAccess, AccessInv, AccessType, NoSteps, Pending
<1>3. SkipInv'
  BY DEF StartAccess, SkipInv
<1>4. SkipCutsShort'
  BY DEF StartAccess, SkipCutsShort
<1> QED
  BY <1>2, <1>3, <1>4 DEF AccessInv

\* Steps are recorded, and what is recorded already stands.
LEMMA RecordsKeep ==
  ASSUME AccessInv, UNCHANGED <<saPhase, saShort, saRamping, saUnmet>>,
         saRecords' \in [StepKeys -> {"pending", "done", "skipped"}],
         \A k \in StepKeys : saRecords[k] # "pending" => saRecords'[k] = saRecords[k],
         saSkipRamp' \in BOOLEAN, Active /\ saSkipRamp' = TRUE => saRecords'[RampStep] = "skipped",
         Spans(saRecording')
  PROVE  AccessInv'
<1>1. AccessType'
  BY DEF AccessInv, AccessType, Spans
<1>2. SkipInv'
  BY DEF AccessInv, SkipInv, Active
<1>3. SkipCutsShort'
  BY AccessAssumption DEF AccessInv, SkipCutsShort
<1> QED
  BY <1>1, <1>2, <1>3 DEF AccessInv

LEMMA ConfirmKeeps == ASSUME AccessInv, NEW key \in StepKeys, ConfirmStep(key) \/ SkipStep(key) PROVE AccessInv'
<1>1. UNCHANGED <<saPhase, saShort, saRamping, saUnmet, saRecording>>
  BY DEF ConfirmStep, SkipStep
<1>2. PICK status \in {"done", "skipped"} : saRecords' = RecordStep(saRecords, key, status)
  BY DEF ConfirmStep, SkipStep
<1>3. /\ saRecords' \in [StepKeys -> {"pending", "done", "skipped"}]
      /\ \A k \in StepKeys : saRecords[k] # "pending" => saRecords'[k] = saRecords[k]
  BY <1>2, StepStands DEF AccessInv, AccessType
<1>4. saSkipRamp' \in BOOLEAN
  <2>1. CASE ConfirmStep(key)
    BY <2>1 DEF ConfirmStep, AccessInv, AccessType
  <2>2. CASE SkipStep(key)
    BY <2>2, Zenon DEF SkipStep
  <2> QED
    BY <2>1, <2>2
<1>5. ASSUME Active, saSkipRamp' = TRUE PROVE saRecords'[RampStep] = "skipped"
  <2>1. CASE saSkipRamp = TRUE
    <3>1. saRecords[RampStep] = "skipped"
      BY <1>5, <2>1 DEF AccessInv, SkipInv
    <3> QED
      BY <1>3, <3>1, AccessAssumption
  <2>2. CASE saSkipRamp # TRUE
    <3>1. SkipStep(key) /\ key = RampStep /\ saRecords[key] = "pending"
      <4>1. CASE ConfirmStep(key)
        BY <1>5, <2>2, <4>1 DEF ConfirmStep
      <4>2. CASE SkipStep(key)
        BY <1>5, <2>2, <4>2 DEF SkipStep, Pending, AccessInv, AccessType
      <4> QED
        BY <4>1, <4>2
    <3>2. saRecords' = RecordStep(saRecords, key, "skipped")
      BY <3>1 DEF SkipStep
    <3> QED
      BY <3>1, <3>2, StepStands DEF AccessInv, AccessType
  <2> QED
    BY <2>1, <2>2
<1>6. Spans(saRecording')
  BY <1>1 DEF AccessInv, AccessType
<1> QED
  BY <1>1, <1>3, <1>4, <1>5, <1>6, RecordsKeep

LEMMA SampleKeeps == AccessInv /\ SampleAccess => AccessInv'
<1> SUFFICES ASSUME AccessInv, SampleAccess PROVE AccessInv'
  OBVIOUS
<1>1. /\ UNCHANGED <<saPhase, saSkipRamp, saShort, saRamping, saUnmet>>
      /\ saRecording' = RecordSample(saRecording)
      /\ saRecords' = saRecords \/ saRecords' = RecordStep(saRecords, RampStep, "done")
  BY DEF SampleAccess
<1>2. /\ saRecords' \in [StepKeys -> {"pending", "done", "skipped"}]
      /\ \A k \in StepKeys : saRecords[k] # "pending" => saRecords'[k] = saRecords[k]
  BY <1>1, StepStands, AccessAssumption DEF AccessInv, AccessType
<1>3. Spans(saRecording')
  BY <1>1, RecordSpans DEF AccessInv, AccessType
<1>4. Active /\ saSkipRamp' = TRUE => saRecords'[RampStep] = "skipped"
  BY <1>1, <1>2, AccessAssumption DEF AccessInv, SkipInv
<1>5. saSkipRamp' \in BOOLEAN
  BY <1>1 DEF AccessInv, AccessType
<1> QED
  BY <1>1, <1>2, <1>3, <1>4, <1>5, RecordsKeep

\* The ramp is over behind a skip, and the manifest of a run that was cut short names the step.
LEMMA RampKeeps ==
  ASSUME AccessInv, Warm \/ PollAccess \/ RampTick \/ EndAccess \/ AbortAccess PROVE AccessInv'
<1>1. UNCHANGED <<saRecords, saRecording>>
  BY DEF Warm, PollAccess, RampTick, EndAccess, AbortAccess
<1>2. Spans(saRecording')
  BY <1>1 DEF AccessInv, AccessType
<1>3. CASE PollAccess
  BY <1>1, <1>3 DEF PollAccess, AccessInv, AccessType, SkipInv, SkipCutsShort, Active
<1>4. CASE Warm
  <2>1. saRamping' \in BOOLEAN /\ (saRamping' = TRUE => saRamping = TRUE)
    <3>1. saRamping' = (saRamping /\ saTemp' < WarmTarget)
      BY <1>4 DEF Warm
    <3>2. saRamping \in BOOLEAN
      BY DEF AccessInv, AccessType
    <3> DEFINE below == saTemp' < WarmTarget
    <3> HIDE DEF below
    <3>3. saRamping' = (saRamping /\ below)
      BY <3>1 DEF below
    <3> QED
      BY <3>2, <3>3, Zenon
  <2>2. UNCHANGED <<saPhase, saRecords, saSkipRamp, saShort, saUnmet, saRecording>>
    BY <1>4 DEF Warm
  <2>3. AccessType' /\ SkipInv'
    BY <2>1, <2>2 DEF AccessInv, AccessType, SkipInv, Active
  <2>4. SkipCutsShort'
    BY <2>1, <2>2 DEF AccessInv, AccessType, SkipCutsShort
  <2> QED
    BY <2>3, <2>4 DEF AccessInv
<1>5. CASE RampTick
  <2>1. /\ saPhase = "ramping" /\ saPhase' = "sampling" /\ saSkipRamp' = FALSE /\ saRamping' = FALSE
        /\ saShort' = saRamping
        /\ saRamping = TRUE => saSkipRamp = TRUE
    BY <1>5 DEF RampTick, AccessInv, AccessType
  <2>2. AccessType'
    BY <1>1, <1>2, <2>1 DEF AccessInv, AccessType
  <2>3. SkipInv'
    BY <2>1 DEF SkipInv
  <2>4. SkipCutsShort'
    BY <1>1, <2>1 DEF AccessInv, AccessType, SkipInv, SkipCutsShort, Active
  <2> QED
    BY <2>2, <2>3, <2>4 DEF AccessInv
<1>6. CASE EndAccess
  <2>1. /\ saPhase = "sampling" /\ saPhase' = "ended" /\ UNCHANGED <<saSkipRamp, saRamping, saShort>>
        /\ StepGates \subseteq saUnmet'
    BY <1>6 DEF EndAccess
  <2>2. AccessType'
    BY <1>1, <1>2, <2>1 DEF AccessInv, AccessType
  <2>3. SkipInv'
    BY <2>1 DEF SkipInv, Active
  <2>4. SkipCutsShort'
    BY <1>1, <2>1, AccessAssumption DEF AccessInv, SkipCutsShort, StepGates
  <2> QED
    BY <2>2, <2>3, <2>4 DEF AccessInv
<1>7. CASE AbortAccess
  <2>1. saPhase' = "aborted" /\ saRamping' = FALSE /\ UNCHANGED <<saSkipRamp, saShort>>
    BY <1>7 DEF AbortAccess
  <2>2. AccessType'
    BY <1>1, <1>2, <2>1 DEF AccessInv, AccessType
  <2> QED
    BY <2>1, <2>2 DEF AccessInv, SkipInv, Active, SkipCutsShort
<1> QED
  BY <1>3, <1>4, <1>5, <1>6, <1>7

\* Outside the start of a run no step takes a record back.
LEMMA StepsStand ==
  ASSUME AccessInv, [AccessNext]_saVars, Active
  PROVE  \A k \in StepKeys : saRecords[k] # Pending => saRecords'[k] = saRecords[k]
<1>1. CASE UNCHANGED saVars
  BY <1>1 DEF saVars
<1>2. CASE StartAccess
  BY <1>2 DEF StartAccess
<1>3. CASE Warm \/ PollAccess \/ RampTick \/ EndAccess \/ AbortAccess
  BY <1>3 DEF Warm, PollAccess, RampTick, EndAccess, AbortAccess
<1>4. CASE SampleAccess
  <2>1. saRecords' = saRecords \/ saRecords' = RecordStep(saRecords, RampStep, "done")
    BY <1>4 DEF SampleAccess
  <2> QED
    BY <2>1, StepStands, AccessAssumption DEF AccessInv, AccessType, Pending
<1>5. ASSUME NEW key \in StepKeys, ConfirmStep(key) \/ SkipStep(key)
      PROVE  \A k \in StepKeys : saRecords[k] # Pending => saRecords'[k] = saRecords[k]
  <2>1. PICK status \in {"done", "skipped"} : saRecords' = RecordStep(saRecords, key, status)
    BY <1>5 DEF ConfirmStep, SkipStep
  <2> QED
    BY <2>1, StepStands DEF AccessInv, AccessType, Pending
<1> QED
  BY <1>1, <1>2, <1>3, <1>4, <1>5 DEF AccessNext

\* For any steps and any bound of the recording, however often a run is started, confirmed,
\* skipped and aborted: the first record of a step stands, a warm-up is cut short only by a
\* skip that is on record, and the recording spans the run.
THEOREM AccessIsRecordedHolds == AccessSpec => AccessIsRecorded
<1>1. AccessInit => AccessInv
  <2> SUFFICES ASSUME AccessInit PROVE AccessInv
    OBVIOUS
  <2>1. Spans(EmptyRecording)
    BY RecordingAssumption DEF Spans, Kept, EmptyRecording
  <2>2. AccessType
    BY <2>1 DEF AccessInit, AccessType, NoSteps, Pending
  <2>3. SkipInv /\ SkipCutsShort
    BY DEF AccessInit, SkipInv, SkipCutsShort, Active
  <2> QED
    BY <2>2, <2>3 DEF AccessInv
<1>2. AccessInv /\ [AccessNext]_saVars => AccessInv'
  <2> SUFFICES ASSUME AccessInv, [AccessNext]_saVars PROVE AccessInv'
    OBVIOUS
  <2>1. CASE UNCHANGED saVars
    BY <2>1 DEF saVars, AccessInv, AccessType, SkipInv, SkipCutsShort, Active
  <2> QED
    BY <2>1, StartAccessKeeps, ConfirmKeeps, SampleKeeps, RampKeeps DEF AccessNext
<1>3. AccessInv => SkipCutsShort /\ AccessRecordingSpansRun
  BY SpansIsEnough DEF AccessInv, AccessType, AccessRecordingSpansRun
<1>4. AccessInv /\ [AccessNext]_saVars =>
        [Active => \A k \in StepKeys : saRecords[k] # Pending => saRecords'[k] = saRecords[k]]_saVars
  BY StepsStand
<1>5. AccessSpec => []AccessInv
  BY <1>1, <1>2, PTL DEF AccessSpec
<1>6. AccessSpec => FirstRecordStands
  BY <1>4, <1>5, PTL DEF AccessSpec, FirstRecordStands
<1>7. (AccessInv => SkipCutsShort /\ AccessRecordingSpansRun)'
  BY <1>3, PTL
<1>8. AccessInv /\ [AccessNext]_saVars => [SkipCutsShort' /\ AccessRecordingSpansRun']_saVars
  BY <1>2, <1>7
<1>9. AccessSpec => [][SkipCutsShort' /\ AccessRecordingSpansRun']_saVars
  BY <1>5, <1>8, PTL DEF AccessSpec
<1> QED
  BY <1>6, <1>9 DEF AccessIsRecorded

-----------------------------------------------------------------------------
(* The form of the experiment.                                              *)

FormType ==
  /\ fmOpen \in Folders \cup {NoFolder}
  /\ fmUser \in Users
  /\ fmText \in Places \cup {NoFolder}
  /\ fmBefore \in Places \cup {NoFolder, NoAutosave}
  /\ fmSaved \in [Files -> Places \cup {NoAutosave}]
  /\ fmTyped \in BOOLEAN

\* Behind an open experiment there is a text to go back to.
RemembersBefore == fmOpen # NoFolder => fmBefore # NoAutosave

\* Nothing that the field may be filled from holds the folder of another experiment.
Untyped ==
  /\ fmText \in Folders => fmText = fmOpen
  /\ fmOpen # NoFolder => fmBefore \notin Folders
  /\ \A e \in Folders : fmSaved[e] \in Folders => fmSaved[e] = e
  /\ \A u \in Users : fmSaved[u] \notin Folders

FormInv == FormType /\ RemembersBefore /\ (fmTyped \/ Untyped) /\ RunsInside

\* What a save writes, to the open experiment or to the user.
LEMMA SavesOwn ==
  ASSUME FormInv
  PROVE  /\ DataDir \in Places /\ SaveTarget \in Files
         /\ SavedNow \in [Files -> Places \cup {NoAutosave}]
         /\ fmTyped \/ ( /\ \A e \in Folders : SavedNow[e] \in Folders => SavedNow[e] = e
                         /\ \A u \in Users : SavedNow[u] \notin Folders )
<1>1. DataDir \in Places /\ SaveTarget \in Files
  BY FormAssumption DEF FormInv, FormType, DataDir, DefaultDir, SaveTarget, Places, Files
<1>2. fmSaved \in [Files -> Places \cup {NoAutosave}]
  BY DEF FormInv, FormType
<1>3. SavedNow \in [Files -> Places \cup {NoAutosave}]
  BY <1>1, <1>2 DEF SavedNow
<1>4. \A f \in Files : SavedNow[f] = IF f = SaveTarget THEN DataDir ELSE fmSaved[f]
  BY <1>2 DEF SavedNow
<1>5. ASSUME ~fmTyped
      PROVE  /\ \A e \in Folders : SavedNow[e] \in Folders => SavedNow[e] = e
             /\ \A u \in Users : SavedNow[u] \notin Folders
  <2>1. Untyped
    BY <1>5 DEF FormInv
  <2>2. fmOpen \in Folders => SaveTarget = fmOpen /\ (DataDir \in Folders => DataDir = fmOpen)
    BY <2>1, FormAssumption DEF SaveTarget, DataDir, DefaultDir, Untyped
  <2>3. fmOpen \notin Folders => SaveTarget \in Users /\ SaveTarget \notin Folders /\ DataDir \notin Folders
    BY <2>1, FormAssumption DEF SaveTarget, DataDir, DefaultDir, Untyped, FormInv, FormType
  <2> QED
    BY <1>4, <2>1, <2>2, <2>3, FormAssumption DEF Untyped, Files
<1> QED
  BY <1>1, <1>3, <1>5

\* The actions: opening and switching take the folder of the experiment that is opened.
LEMMA OpensOwn == ASSUME FormInv, NEW e \in Folders, OpenExperiment(e) PROVE FormInv'
<1>1. FormType'
  BY DEF OpenExperiment, TextBefore, FormInv, FormType, Places
<1>2. RemembersBefore' /\ RunsInside'
  BY FormAssumption DEF OpenExperiment, TextBefore, FormInv, FormType, RemembersBefore, RunsInside, Places
<1>3. fmTyped \/ Untyped'
  BY FormAssumption DEF OpenExperiment, TextBefore, FormInv, Untyped
<1> QED
  BY <1>1, <1>2, <1>3 DEF FormInv, OpenExperiment

LEMMA CloseOwn == ASSUME FormInv, CloseOpen PROVE FormInv'
<1>1. FormType'
  BY DEF CloseOpen, FormInv, FormType
<1>2. RemembersBefore' /\ RunsInside'
  BY DEF CloseOpen, FormInv, RemembersBefore, RunsInside
<1>3. fmTyped \/ Untyped'
  BY DEF CloseOpen, FormInv, RemembersBefore, Untyped
<1> QED
  BY <1>1, <1>2, <1>3 DEF FormInv, CloseOpen

LEMMA SwitchOwn == ASSUME FormInv, NEW e \in Folders, SwitchTo(e) PROVE FormInv'
<1>1. /\ fmOpen' = e /\ fmBefore' = TextBefore /\ fmSaved' = SavedNow
      /\ fmText' = Applied(fmSaved'[e], e) /\ UNCHANGED <<fmUser, fmTyped, fmRun>>
  BY DEF SwitchTo
<1>2. fmSaved'[e] \in Places \cup {NoAutosave}
  BY <1>1, SavesOwn DEF Files
<1>3. FormType'
  BY <1>1, <1>2, SavesOwn DEF TextBefore, FormInv, FormType, Applied, DefaultDir, Places
<1>4. RemembersBefore' /\ RunsInside'
  BY <1>1, FormAssumption DEF TextBefore, FormInv, FormType, RemembersBefore, RunsInside, Places
<1>5. fmTyped \/ Untyped'
  BY <1>1, SavesOwn, FormAssumption DEF TextBefore, Applied, DefaultDir, FormInv, Untyped
<1> QED
  BY <1>1, <1>3, <1>4, <1>5 DEF FormInv

LEMMA UserOwn == ASSUME FormInv, NEW u \in Users, SwitchUser(u) PROVE FormInv'
<1>1. /\ fmUser' = u /\ fmSaved' = SavedNow /\ fmText' = Applied(fmSaved'[u], fmOpen)
      /\ UNCHANGED <<fmOpen, fmBefore, fmTyped, fmRun>>
  BY DEF SwitchUser
<1>2. fmSaved'[u] \in Places \cup {NoAutosave}
  BY <1>1, SavesOwn DEF Files
<1>3. FormType'
  BY <1>1, <1>2, SavesOwn DEF FormInv, FormType, Applied, DefaultDir, Places
<1>4. RemembersBefore' /\ RunsInside'
  BY <1>1 DEF FormInv, RemembersBefore, RunsInside
<1>5. fmTyped \/ Untyped'
  BY <1>1, SavesOwn, FormAssumption DEF Applied, DefaultDir, FormInv, Untyped
<1> QED
  BY <1>1, <1>3, <1>4, <1>5 DEF FormInv

LEMMA TypeOwn == ASSUME FormInv, NEW dir \in Places, TypeDir(dir) PROVE FormInv'
<1>1. FormType'
  <2>1. fmTyped' \in BOOLEAN
    BY DEF TypeDir, FormInv, FormType
  <2> QED
    BY <2>1 DEF TypeDir, FormInv, FormType
<1>2. RemembersBefore' /\ RunsInside'
  BY DEF TypeDir, FormInv, RemembersBefore, RunsInside
<1>3. fmTyped' \/ Untyped'
  BY DEF TypeDir, FormInv, Untyped
<1> QED
  BY <1>1, <1>2, <1>3 DEF FormInv

LEMMA RelaunchOwn == ASSUME FormInv, Relaunch PROVE FormInv'
<1>1. /\ fmSaved' = SavedNow /\ fmBefore' = (IF fmOpen = NoFolder THEN NoAutosave ELSE NoFolder)
      /\ fmText' = Applied(fmSaved'[SaveTarget], fmOpen) /\ fmRun' = NoRunYet
      /\ UNCHANGED <<fmOpen, fmUser, fmTyped>>
  BY DEF Relaunch
<1>2. fmSaved'[SaveTarget] \in Places \cup {NoAutosave}
  BY <1>1, SavesOwn
<1>3. FormType'
  BY <1>1, <1>2, SavesOwn DEF FormInv, FormType, Applied, DefaultDir, Places
<1>4. RemembersBefore' /\ RunsInside'
  BY <1>1, FormAssumption DEF FormInv, RemembersBefore, RunsInside, NoRunYet
<1>5. fmTyped \/ Untyped'
  BY <1>1, SavesOwn, FormAssumption DEF Applied, DefaultDir, SaveTarget, FormInv, FormType, Untyped
<1> QED
  BY <1>1, <1>3, <1>4, <1>5 DEF FormInv

LEMMA NewOwn == ASSUME FormInv, NewForm PROVE FormInv'
<1>1. /\ fmText' = DefaultDir(fmOpen)
      /\ fmSaved' = [fmSaved EXCEPT ![SaveTarget] = DefaultDir(fmOpen)]
      /\ UNCHANGED <<fmOpen, fmUser, fmBefore, fmTyped, fmRun>>
  BY DEF NewForm
<1>2. DefaultDir(fmOpen) \in Places
  BY DEF FormInv, FormType, DefaultDir, Places
<1>3. FormType'
  BY <1>1, <1>2, SavesOwn DEF FormInv, FormType
<1>4. RemembersBefore' /\ RunsInside'
  BY <1>1 DEF FormInv, RemembersBefore, RunsInside
<1>5. ASSUME ~fmTyped PROVE Untyped'
  <2>1. Untyped /\ fmSaved \in [Files -> Places \cup {NoAutosave}]
    BY <1>5 DEF FormInv, FormType
  <2>2. \A f \in Files : fmSaved'[f] = IF f = SaveTarget THEN DefaultDir(fmOpen) ELSE fmSaved[f]
    BY <1>1, <2>1
  <2>3. fmOpen \in Folders \cup {NoFolder} /\ fmUser \in Users
    BY DEF FormInv, FormType
  <2>4. CASE fmOpen = NoFolder
    BY <1>1, <2>1, <2>2, <2>3, <2>4, FormAssumption DEF Untyped, Files, SaveTarget, DefaultDir
  <2>5. CASE fmOpen # NoFolder
    BY <1>1, <2>1, <2>2, <2>3, <2>5, FormAssumption DEF Untyped, Files, SaveTarget, DefaultDir
  <2> QED
    BY <2>4, <2>5
<1> QED
  BY <1>1, <1>3, <1>4, <1>5 DEF FormInv

LEMMA RunOwn == ASSUME FormInv, RunNowIn PROVE FormInv'
<1>1. UNCHANGED <<fmOpen, fmUser, fmText, fmBefore, fmSaved, fmTyped>>
  BY DEF RunNowIn
<1>2. RunsInside'
  BY DEF RunNowIn, Contained, RunsInside
<1> QED
  BY <1>1, <1>2 DEF FormInv, FormType, RemembersBefore, Untyped

\* For any experiments and users, and every order of opening, switching, typing, saving and
\* restarting: the field shows the folder of no experiment but the open one, unless somebody
\* typed it, and a run started with Run Now writes inside the folder of its experiment.
THEOREM FormFollowsHolds == FormSpec => []FormFollows
<1>1. FormInit => FormInv
  <2> SUFFICES ASSUME FormInit PROVE FormInv
    OBVIOUS
  <2>1. FormType
    BY DEF FormInit, FormType, Places
  <2>2. RemembersBefore /\ RunsInside /\ Untyped
    BY FormAssumption DEF FormInit, RemembersBefore, RunsInside, NoRunYet, Untyped, Files
  <2> QED
    BY <2>1, <2>2 DEF FormInv
<1>2. FormInv /\ [FormNext]_fmVars => FormInv'
  <2> SUFFICES ASSUME FormInv, [FormNext]_fmVars PROVE FormInv'
    OBVIOUS
  <2>1. CASE UNCHANGED fmVars
    BY <2>1 DEF fmVars, FormInv, FormType, RemembersBefore, Untyped, RunsInside
  <2> QED
    BY <2>1, OpensOwn, CloseOwn, SwitchOwn, UserOwn, TypeOwn, RelaunchOwn, NewOwn, RunOwn DEF FormNext
<1>3. FormInv => FormFollows
  BY DEF FormInv, Untyped, FormFollows, FieldFollowsExperiment
<1> QED
  BY <1>1, <1>2, <1>3, PTL DEF FormSpec

-----------------------------------------------------------------------------
(* What the resync hands to the Orchestrator.                               *)

QueueStatuses == {"pending", "running", "done", "failed"}
QueueEntries == [proc : Nat, status : QueueStatuses, built : BOOLEAN]

\* What pending_procs() makes of the first n entries.
Among(entries, f, n) ==
  f = [k \in 0 .. n |->
         IF k = 0 THEN <<>>
         ELSE IF Armed(entries[k]) THEN Append(f[k - 1], entries[k].proc) ELSE f[k - 1]]

\* There is such a function, for every n.
LEMMA AmongExists ==
  ASSUME NEW entries, NEW n \in Nat PROVE \E f : Among(entries, f, n)
<1> DEFINE T == {m \in Nat : \E f : Among(entries, f, m)}
<1>1. 0 \in T
  <2>1. Among(entries, [k \in 0 .. 0 |-> <<>>], 0)
    BY DEF Among
  <2> QED
    BY <2>1
<1>2. ASSUME NEW m \in T PROVE m + 1 \in T
  <2>1. PICK f : Among(entries, f, m)
    OBVIOUS
  <2> DEFINE Next(before) == IF Armed(entries[m + 1]) THEN Append(before, entries[m + 1].proc) ELSE before
             g == [k \in 0 .. (m + 1) |-> IF k = m + 1 THEN Next(f[m]) ELSE f[k]]
  <2>2. m \in Nat
    OBVIOUS
  <2>3. ASSUME NEW k \in 0 .. (m + 1)
        PROVE  g[k] = IF k = 0 THEN <<>>
                      ELSE IF Armed(entries[k]) THEN Append(g[k - 1], entries[k].proc) ELSE g[k - 1]
    <3>1. CASE k = m + 1
      BY <2>2, <3>1
    <3>2. CASE k # m + 1
      <4>1. k \in 0 .. m /\ g[k] = f[k]
        BY <2>2, <2>3, <3>2
      <4>2. f[k] = IF k = 0 THEN <<>>
                   ELSE IF Armed(entries[k]) THEN Append(f[k - 1], entries[k].proc) ELSE f[k - 1]
        BY <2>1, <4>1 DEF Among
      <4>3. k # 0 => k - 1 \in 0 .. m /\ g[k - 1] = f[k - 1]
        BY <2>2, <4>1
      <4> HIDE DEF g
      <4> QED
        BY <4>1, <4>2, <4>3
    <3> QED
      BY <3>1, <3>2
  <2>4. Among(entries, g, m + 1)
    <3>1. g = [k \in 0 .. (m + 1) |-> g[k]]
      OBVIOUS
    <3> HIDE DEF g
    <3> QED
      BY <2>3, <3>1 DEF Among
  <2> HIDE DEF g
  <2> QED
    BY <2>2, <2>4
<1>3. T = Nat
  <2> HIDE DEF T
  <2>1. T \in SUBSET Nat
    BY DEF T
  <2> QED
    BY <1>1, <1>2, <2>1, NatInd
<1> QED
  BY <1>3

\* Its values, unfolded once.
LEMMA AmongAt ==
  ASSUME NEW entries, NEW f, NEW n \in Nat, Among(entries, f, n), NEW k \in 1 .. n
  PROVE  f[k] = IF Armed(entries[k]) THEN Append(f[k - 1], entries[k].proc) ELSE f[k - 1]
<1> DEFINE At(j) == IF j = 0 THEN <<>>
                    ELSE IF Armed(entries[j]) THEN Append(f[j - 1], entries[j].proc) ELSE f[j - 1]
<1>1. f = [j \in 0 .. n |-> At(j)]
  BY DEF Among
<1>2. k \in 0 .. n /\ k # 0
  OBVIOUS
<1>3. At(k) = IF Armed(entries[k]) THEN Append(f[k - 1], entries[k].proc) ELSE f[k - 1]
  BY <1>2
<1> HIDE DEF At
<1>4. f[k] = At(k)
  BY <1>1, <1>2
<1> QED
  BY <1>3, <1>4

\* q holds the procedures of the armed ones of the first n entries, in their order: pos says
\* which entry each of them comes from.
Mirrors(entries, n, q, pos) ==
  /\ q \in Seq(Nat)
  /\ pos \in [1 .. Len(q) -> 1 .. n]
  /\ \A i \in 1 .. Len(q) : q[i] = entries[pos[i]].proc /\ Armed(entries[pos[i]])
  /\ \A i, j \in 1 .. Len(q) : i < j => pos[i] < pos[j]
  /\ \A k \in 1 .. n : Armed(entries[k]) => \E i \in 1 .. Len(q) : pos[i] = k

\* One entry more, and one procedure more if the entry is armed.
LEMMA MirrorsGrow ==
  ASSUME NEW entries, NEW n \in Nat, NEW q, NEW pos, Mirrors(entries, n, q, pos),
         entries[n + 1].proc \in Nat
  PROVE  \E p : Mirrors(entries, n + 1,
                        IF Armed(entries[n + 1]) THEN Append(q, entries[n + 1].proc) ELSE q, p)
<1>1. q \in Seq(Nat) /\ Len(q) \in Nat /\ pos \in [1 .. Len(q) -> 1 .. n]
  BY DEF Mirrors
<1>2. CASE ~Armed(entries[n + 1])
  <2>1. pos \in [1 .. Len(q) -> 1 .. (n + 1)]
    BY <1>1
  <2>2. \A k \in 1 .. (n + 1) : Armed(entries[k]) => k \in 1 .. n
    BY <1>2
  <2>3. Mirrors(entries, n + 1, q, pos)
    BY <1>1, <2>1, <2>2 DEF Mirrors
  <2> QED
    BY <1>2, <2>3
<1>3. CASE Armed(entries[n + 1])
  <2> DEFINE q2 == Append(q, entries[n + 1].proc)
             p == [i \in 1 .. (Len(q) + 1) |-> IF i = Len(q) + 1 THEN n + 1 ELSE pos[i]]
  <2>1. /\ q2 \in Seq(Nat) /\ Len(q2) = Len(q) + 1 /\ q2[Len(q) + 1] = entries[n + 1].proc
        /\ \A i \in 1 .. Len(q) : q2[i] = q[i]
    BY <1>1
  <2>2. /\ p \in [1 .. (Len(q) + 1) -> 1 .. (n + 1)] /\ p[Len(q) + 1] = n + 1
        /\ \A i \in 1 .. Len(q) : p[i] = pos[i] /\ pos[i] \in 1 .. n
    BY <1>1
  <2> HIDE DEF q2, p
  <2>3. \A i \in 1 .. Len(q2) : i = Len(q) + 1 \/ i \in 1 .. Len(q)
    BY <1>1, <2>1
  <2>4. \A i \in 1 .. Len(q2) : q2[i] = entries[p[i]].proc /\ Armed(entries[p[i]])
    BY <1>3, <2>1, <2>2, <2>3 DEF Mirrors
  <2>5. ASSUME NEW i \in 1 .. Len(q2), NEW j \in 1 .. Len(q2), i < j PROVE p[i] < p[j]
    <3>1. i \in 1 .. Len(q)
      BY <1>1, <2>1, <2>5
    <3>2. CASE j = Len(q) + 1
      BY <2>2, <3>1, <3>2
    <3>3. CASE j \in 1 .. Len(q)
      BY <2>2, <2>5, <3>1, <3>3 DEF Mirrors
    <3> QED
      BY <2>3, <3>2, <3>3
  <2>6. ASSUME NEW k \in 1 .. (n + 1), Armed(entries[k]) PROVE \E i \in 1 .. Len(q2) : p[i] = k
    <3>1. CASE k = n + 1
      BY <1>1, <2>1, <2>2, <3>1
    <3>2. CASE k # n + 1
      <4>0. k \in 1 .. n
        BY <3>2
      <4>1. PICK i \in 1 .. Len(q) : pos[i] = k
        BY <2>6, <4>0 DEF Mirrors
      <4> QED
        BY <1>1, <2>1, <2>2, <4>1
    <3> QED
      BY <3>1, <3>2
  <2>7. Mirrors(entries, n + 1, q2, p)
    BY <2>1, <2>2, <2>4, <2>5, <2>6 DEF Mirrors
  <2> QED
    BY <1>3, <2>7 DEF q2
<1> QED
  BY <1>2, <1>3

\* pending_procs() says of the list what the Orchestrator should take from it.
LEMMA PendingMirrors ==
  ASSUME NEW entries \in Seq(QueueEntries)
  PROVE  \E pos : Mirrors(entries, Len(entries), PendingProcs(entries), pos)
<1> DEFINE N == Len(entries)
           F == CHOOSE f : Among(entries, f, N)
<1>0. N \in Nat /\ \A k \in 1 .. N : entries[k].proc \in Nat
  <2>1. N \in Nat /\ \A k \in 1 .. N : entries[k] \in QueueEntries
    OBVIOUS
  <2> QED
    BY <2>1 DEF QueueEntries
<1>1. Among(entries, F, N)
  BY <1>0, AmongExists
<1>2. PendingProcs(entries) = F[N]
  BY DEF PendingProcs, Among
<1> HIDE DEF F, N
<1> DEFINE T == {n \in Nat : n <= N => \E pos : Mirrors(entries, n, F[n], pos)}
<1>3. 0 \in T
  <2>1. F[0] = <<>>
    BY <1>0, <1>1 DEF Among
  <2>2. Mirrors(entries, 0, <<>>, <<>>)
    BY DEF Mirrors
  <2> QED
    BY <2>1, <2>2
<1>4. ASSUME NEW n \in T PROVE n + 1 \in T
  <2> SUFFICES ASSUME n + 1 <= N PROVE \E pos : Mirrors(entries, n + 1, F[n + 1], pos)
    OBVIOUS
  <2>1. n \in Nat /\ n + 1 \in 1 .. N
    BY <1>0
  <2>2. PICK pos : Mirrors(entries, n, F[n], pos)
    BY <1>0, <2>1
  <2>3. F[n + 1] = IF Armed(entries[n + 1]) THEN Append(F[n], entries[n + 1].proc) ELSE F[n]
    <3>1. F[n + 1] = IF Armed(entries[n + 1]) THEN Append(F[n + 1 - 1], entries[n + 1].proc) ELSE F[n + 1 - 1]
      BY <1>0, <1>1, <2>1, AmongAt
    <3> QED
      BY <2>1, <3>1
  <2> QED
    BY <1>0, <2>1, <2>2, <2>3, MirrorsGrow
<1>5. T = Nat
  <2> HIDE DEF T
  <2>1. T \in SUBSET Nat
    BY DEF T
  <2> QED
    BY <1>3, <1>4, <2>1, NatInd
<1>6. \E pos : Mirrors(entries, N, F[N], pos)
  BY <1>0, <1>5
<1> QED
  BY <1>2, <1>6 DEF N

-----------------------------------------------------------------------------
(* The two queues.                                                          *)

\* The procedures of a list are its own: each was made, none was removed, none is listed twice.
Listed(entries) ==
  /\ entries \in Seq(QueueEntries)
  /\ \A i \in DOMAIN entries : entries[i].proc <= qpMade /\ entries[i].proc \notin qpRemoved
  /\ \A i, j \in DOMAIN entries : entries[i].proc = entries[j].proc => i = j

QueueTyped ==
  /\ qpMade \in Nat /\ oqQueue \in Seq(Nat)
  /\ \A i \in DOMAIN oqQueue : oqQueue[i] <= qpMade
  /\ \A p \in qpRemoved : p \in Nat /\ p <= qpMade

\* While the windows are open there is no saved queue left to restore.
FileRead == qpOpen => qpFile = <<>>

QueueInv ==
  QueueTyped /\ Listed(qpEntries) /\ Listed(qpFile) /\ FileRead /\ RemovedNeverRuns /\ OrderAgrees /\ NoPendingLost

\* As long as panel and Orchestrator have not parted, what the one shows as running the other
\* has taken, and what waits in the one is shown as pending in the other.
QueuedIsPending ==
  ~qpAstray =>
    \A q \in DOMAIN oqQueue :
      \E k \in Indices : qpEntries[k].proc = oqQueue[q] /\ qpEntries[k].status = "pending"

MarkInv == RunningWasTaken /\ QueuedIsPending

\* What the entries of a list have.
LEMMA EntryFields ==
  ASSUME NEW entries \in Seq(QueueEntries)
  PROVE  /\ Len(entries) \in Nat /\ DOMAIN entries = 1 .. Len(entries)
         /\ \A i \in DOMAIN entries : entries[i] \in QueueEntries /\ entries[i].proc \in Nat
  <1>1. \A i \in DOMAIN entries : entries[i] \in QueueEntries
    OBVIOUS
  <1> QED
    BY <1>1 DEF QueueEntries

\* A resync leaves the two queues in agreement, whatever they were before.
LEMMA ResyncAgrees ==
  Listed(qpEntries) /\ oqQueue = PendingProcs(qpEntries) =>
    /\ oqQueue \in Seq(Nat) /\ \A i \in DOMAIN oqQueue : oqQueue[i] <= qpMade
    /\ RemovedNeverRuns /\ OrderAgrees /\ NoPendingLost
<1> SUFFICES ASSUME Listed(qpEntries), oqQueue = PendingProcs(qpEntries)
             PROVE  /\ oqQueue \in Seq(Nat) /\ \A i \in DOMAIN oqQueue : oqQueue[i] <= qpMade
                    /\ RemovedNeverRuns /\ OrderAgrees /\ NoPendingLost
  OBVIOUS
<1> DEFINE N == Len(qpEntries)
<1>1. PICK pos : Mirrors(qpEntries, N, oqQueue, pos)
  BY PendingMirrors DEF Listed
<1>2. /\ N \in Nat /\ Indices = 1 .. N /\ oqQueue \in Seq(Nat) /\ Len(oqQueue) \in Nat
      /\ DOMAIN oqQueue = 1 .. Len(oqQueue)
  BY <1>1, EntryFields DEF Listed, Indices, Mirrors
<1>3. \A i \in DOMAIN oqQueue : pos[i] \in Indices /\ oqQueue[i] = qpEntries[pos[i]].proc
  BY <1>1, <1>2 DEF Mirrors
<1>4. \A i \in DOMAIN oqQueue : oqQueue[i] <= qpMade /\ oqQueue[i] \notin qpRemoved
  BY <1>3 DEF Listed, Indices
<1>5. RemovedNeverRuns
  BY <1>4 DEF RemovedNeverRuns, Queued
<1>6. OrderAgrees
  <2> SUFFICES ASSUME NEW i \in DOMAIN oqQueue, NEW j \in DOMAIN oqQueue, NEW k \in Indices, NEW l \in Indices,
                      i < j, oqQueue[i] = qpEntries[k].proc, oqQueue[j] = qpEntries[l].proc
               PROVE  k < l
    BY DEF OrderAgrees
  <2>1. k = pos[i] /\ l = pos[j]
    BY <1>3 DEF Listed, Indices
  <2> QED
    BY <1>1, <1>2, <2>1 DEF Mirrors
<1>7. NoPendingLost
  <2> SUFFICES ASSUME NEW k \in Indices, qpEntries[k].status = "pending", qpEntries[k].built
               PROVE  qpEntries[k].proc \in Queued
    BY DEF NoPendingLost
  <2>1. PICK i \in 1 .. Len(oqQueue) : pos[i] = k
    BY <1>1, <1>2 DEF Mirrors, Armed
  <2> QED
    BY <1>2, <1>3, <2>1 DEF Queued
<1> QED
  BY <1>2, <1>4, <1>5, <1>6, <1>7

\* A list in which only the status of entries changed, none of them back to pending.
SameList(before, after) ==
  /\ after \in Seq(QueueEntries) /\ Len(after) = Len(before)
  /\ \A i \in DOMAIN before :
       /\ after[i].proc = before[i].proc /\ after[i].built = before[i].built
       /\ after[i].status = "pending" => before[i].status = "pending"

\* Marking one entry, and finalising one and promoting another, are such changes.
LEMMA MarkedSame ==
  ASSUME NEW entries \in Seq(QueueEntries), NEW k, NEW status \in QueueStatuses \ {"pending"}
  PROVE  SameList(entries, [entries EXCEPT ![k].status = status])
<1> DEFINE after == [entries EXCEPT ![k].status = status]
<1>1. Len(entries) \in Nat /\ DOMAIN entries = 1 .. Len(entries) /\ \A i \in DOMAIN entries : entries[i] \in QueueEntries
  BY EntryFields
<1>2. \A i \in DOMAIN entries : after[i] = IF i = k THEN [entries[i] EXCEPT !.status = status] ELSE entries[i]
  BY <1>1
<1>3. \A e \in QueueEntries : /\ [e EXCEPT !.status = status] \in QueueEntries
                          /\ [e EXCEPT !.status = status].proc = e.proc
                          /\ [e EXCEPT !.status = status].built = e.built
                          /\ [e EXCEPT !.status = status].status = status
  BY DEF QueueEntries
<1>4. \A i \in DOMAIN entries : after[i] \in QueueEntries
  BY <1>1, <1>2, <1>3
<1>5. after \in [1 .. Len(entries) -> QueueEntries]
  BY <1>1, <1>4
<1>6. after \in Seq(QueueEntries) /\ Len(after) = Len(entries)
  BY <1>1, <1>5
<1> HIDE DEF after
<1> QED
  BY <1>1, <1>2, <1>3, <1>6 DEF SameList, after

LEMMA SameTransitive ==
  ASSUME NEW a, NEW b, NEW c, a \in Seq(QueueEntries), SameList(a, b), SameList(b, c) PROVE SameList(a, c)
<1>1. DOMAIN a = DOMAIN b
  BY EntryFields DEF SameList
<1> QED
  BY <1>1 DEF SameList

LEMMA AdvancedSame ==
  ASSUME NEW entries \in Seq(QueueEntries), NEW status \in {"done", "failed"}
  PROVE  SameList(entries, Advanced(entries, status))
<1> DEFINE closed == IF WithStatus(entries, "running") = {} THEN entries
                     ELSE [entries EXCEPT ![First(WithStatus(entries, "running"))].status = status]
<1>1. SameList(entries, entries)
  BY DEF SameList
<1>2. SameList(entries, closed)
  BY <1>1, MarkedSame DEF QueueStatuses
<1>3. closed \in Seq(QueueEntries)
  BY <1>2 DEF SameList
<1>4. Advanced(entries, status) =
        IF WithStatus(closed, "pending") = {} THEN closed
        ELSE [closed EXCEPT ![First(WithStatus(closed, "pending"))].status = "running"]
  BY DEF Advanced
<1> HIDE DEF closed
<1>5. SameList(closed, [closed EXCEPT ![First(WithStatus(closed, "pending"))].status = "running"])
  BY <1>3, MarkedSame DEF QueueStatuses
<1>6. SameList(entries, [closed EXCEPT ![First(WithStatus(closed, "pending"))].status = "running"])
  BY <1>2, <1>5, SameTransitive
<1> QED
  BY <1>2, <1>4, <1>6

\* The panel marks entries and the Orchestrator takes the head of its queue, or neither.
LEMMA MarksAgree ==
  ASSUME QueueInv, SameList(qpEntries, qpEntries'),
         \/ oqQueue' = oqQueue /\ qpTaken' = qpTaken
         \/ oqQueue # <<>> /\ oqQueue' = Tail(oqQueue) /\ qpTaken' = qpTaken \cup {Head(oqQueue)},
         (qpFile' = qpFile /\ qpOpen' = qpOpen) \/ (qpFile' = qpEntries /\ ~qpOpen'), UNCHANGED <<qpMade, qpRemoved>>
  PROVE  QueueInv'
<1>1. /\ qpEntries \in Seq(QueueEntries) /\ DOMAIN qpEntries' = DOMAIN qpEntries
      /\ \A i \in DOMAIN qpEntries :
           /\ qpEntries'[i].proc = qpEntries[i].proc /\ qpEntries'[i].built = qpEntries[i].built
           /\ qpEntries'[i].status = "pending" => qpEntries[i].status = "pending"
  BY EntryFields DEF QueueInv, Listed, SameList
<1>2. Listed(qpEntries)' /\ Listed(qpFile)' /\ FileRead'
  <2>1. Listed(qpEntries)'
    BY <1>1 DEF QueueInv, Listed, SameList
  <2>2. Listed(qpFile)'
    <3>1. CASE qpFile' = qpFile
      BY <3>1 DEF QueueInv, Listed
    <3>2. CASE qpFile' = qpEntries
      BY <3>2 DEF QueueInv, Listed
    <3> QED
      BY <3>1, <3>2
  <2>3. FileRead'
    BY DEF QueueInv, FileRead
  <2> QED
    BY <2>1, <2>2, <2>3
<1>3. PICK d \in {0, 1} :
        /\ oqQueue' \in Seq(Nat)
        /\ \A i \in DOMAIN oqQueue' : i \in Nat /\ i + d \in DOMAIN oqQueue /\ oqQueue'[i] = oqQueue[i + d]
        /\ \A p \in Queued : p \in (Queued \cup qpTaken)'
        /\ \A p \in qpTaken : p \in qpTaken'
  <2>0. oqQueue \in Seq(Nat)
    BY DEF QueueInv, QueueTyped
  <2>1. CASE oqQueue' = oqQueue /\ qpTaken' = qpTaken
    <3>1. \A i \in DOMAIN oqQueue' : i \in Nat /\ i + 0 \in DOMAIN oqQueue /\ oqQueue'[i] = oqQueue[i + 0]
      BY <2>0, <2>1
    <3>2. \A p \in Queued : p \in (Queued \cup qpTaken)'
      BY <2>1 DEF Queued
    <3> QED
      BY <2>0, <2>1, <3>1, <3>2
  <2>2. CASE oqQueue # <<>> /\ oqQueue' = Tail(oqQueue) /\ qpTaken' = qpTaken \cup {Head(oqQueue)}
    <3>1. /\ oqQueue' \in Seq(Nat) /\ Len(oqQueue') = Len(oqQueue) - 1 /\ Len(oqQueue) \in Nat
          /\ Head(oqQueue) = oqQueue[1] /\ \A i \in 1 .. (Len(oqQueue) - 1) : oqQueue'[i] = oqQueue[i + 1]
      BY <2>0, <2>2
    <3>9. DOMAIN oqQueue' = 1 .. (Len(oqQueue) - 1) /\ DOMAIN oqQueue = 1 .. Len(oqQueue)
      BY <2>0, <3>1
    <3>2. ASSUME NEW i \in DOMAIN oqQueue'
          PROVE  i \in Nat /\ i + 1 \in DOMAIN oqQueue /\ oqQueue'[i] = oqQueue[i + 1]
      <4>1. i \in 1 .. (Len(oqQueue) - 1)
        BY <3>9, <3>2
      <4>2. i \in Nat /\ i + 1 \in 1 .. Len(oqQueue)
        BY <3>1, <4>1
      <4> QED
        BY <3>1, <3>9, <4>1, <4>2
    <3>3. ASSUME NEW p \in Queued PROVE p \in (Queued \cup qpTaken)'
      <4>1. PICK i \in DOMAIN oqQueue : p = oqQueue[i]
        BY DEF Queued
      <4>2. CASE i = 1
        BY <2>2, <3>1, <4>1, <4>2
      <4>3. CASE i # 1
        <5>0. i \in 1 .. Len(oqQueue)
          BY <3>9, <4>1
        <5>1. i - 1 \in 1 .. (Len(oqQueue) - 1) /\ (i - 1) + 1 = i
          BY <3>1, <4>3, <5>0
        <5>2. i - 1 \in DOMAIN oqQueue' /\ oqQueue'[i - 1] = p
          BY <3>1, <3>9, <4>1, <5>1
        <5> QED
          BY <5>2 DEF Queued
      <4> QED
        BY <4>2, <4>3
    <3> QED
      BY <2>2, <3>1, <3>2, <3>3
  <2> QED
    BY <2>1, <2>2
<1>4. QueueTyped'
  BY <1>3 DEF QueueInv, QueueTyped
<1>5. RemovedNeverRuns'
  BY <1>3 DEF QueueInv, RemovedNeverRuns, Queued
<1>6. OrderAgrees'
  <2> SUFFICES ASSUME NEW i \in DOMAIN oqQueue', NEW j \in DOMAIN oqQueue', NEW k \in Indices', NEW l \in Indices',
                      i < j, oqQueue'[i] = qpEntries'[k].proc, oqQueue'[j] = qpEntries'[l].proc
               PROVE  k < l
    BY DEF OrderAgrees
  <2>1. /\ i + d \in DOMAIN oqQueue /\ j + d \in DOMAIN oqQueue /\ i + d < j + d
        /\ oqQueue[i + d] = oqQueue'[i] /\ oqQueue[j + d] = oqQueue'[j]
    BY <1>3
  <2>2. /\ k \in Indices /\ l \in Indices
        /\ qpEntries'[k].proc = qpEntries[k].proc /\ qpEntries'[l].proc = qpEntries[l].proc
    BY <1>1 DEF Indices
  <2> QED
    BY <2>1, <2>2 DEF QueueInv, OrderAgrees
<1>7. NoPendingLost'
  <2> SUFFICES ASSUME qpOpen', NEW i \in Indices', qpEntries'[i].status = "pending", qpEntries'[i].built
               PROVE  qpEntries'[i].proc \in (Queued \cup qpTaken)'
    BY DEF NoPendingLost
  <2>1. qpEntries[i].proc \in Queued \cup qpTaken
    BY <1>1 DEF QueueInv, NoPendingLost, Indices
  <2> QED
    BY <1>1, <1>3, <2>1 DEF Indices
<1> QED
  BY <1>2, <1>4, <1>5, <1>6, <1>7 DEF QueueInv

\* What Append() makes of a sequence.
LEMMA AppendedTo ==
  ASSUME NEW S, NEW s \in Seq(S), NEW e \in S
  PROVE  /\ Append(s, e) \in Seq(S) /\ Len(Append(s, e)) = Len(s) + 1
         /\ Len(s) \in Nat /\ DOMAIN s = 1 .. Len(s) /\ DOMAIN Append(s, e) = 1 .. (Len(s) + 1)
         /\ Append(s, e)[Len(s) + 1] = e
         /\ \A i \in 1 .. Len(s) : i \in DOMAIN Append(s, e) /\ Append(s, e)[i] = s[i]
         /\ \A i \in DOMAIN Append(s, e) : i \in 1 .. Len(s) \/ i = Len(s) + 1
  OBVIOUS

\* One more procedure is made, and it stands last wherever it stands.
LEMMA MadeAgrees ==
  ASSUME QueueInv, qpMade' = qpMade + 1, qpRemoved' = qpRemoved, qpFile' = qpFile, qpOpen' = qpOpen,
         \/ qpEntries' = qpEntries
         \/ \E built \in BOOLEAN :
              /\ qpEntries' = Append(qpEntries, [proc |-> qpMade', status |-> "pending", built |-> built])
              /\ built => oqQueue' = Append(oqQueue, qpMade'),
         oqQueue' = oqQueue \/ oqQueue' = Append(oqQueue, qpMade'),
         qpTaken \subseteq qpTaken'
  PROVE  QueueInv'
<1> DEFINE M == qpMade + 1
           N == Len(qpEntries)
           Q == Len(oqQueue)
<1>1. /\ qpMade \in Nat /\ M \in Nat /\ M > qpMade /\ oqQueue \in Seq(Nat) /\ Q \in Nat
      /\ DOMAIN oqQueue = 1 .. Q /\ qpMade' = M
  BY DEF QueueInv, QueueTyped
<1>2. /\ qpEntries \in Seq(QueueEntries) /\ N \in Nat /\ DOMAIN qpEntries = 1 .. N
      /\ \A i \in 1 .. N : qpEntries[i].proc \in Nat /\ qpEntries[i].proc <= qpMade
  BY EntryFields DEF QueueInv, Listed
<1>3. M \notin qpRemoved /\ \A i \in 1 .. Q : oqQueue[i] <= qpMade /\ oqQueue[i] \in Nat
  BY <1>1 DEF QueueInv, QueueTyped
\* The queue: what it had, and perhaps the new procedure behind it.
<1>4. /\ oqQueue' \in Seq(Nat) /\ \A i \in 1 .. Q : i \in DOMAIN oqQueue' /\ oqQueue'[i] = oqQueue[i]
      /\ \A i \in DOMAIN oqQueue' : i \in 1 .. Q \/ (i = Q + 1 /\ oqQueue'[i] = M)
  <2>1. CASE oqQueue' = oqQueue
    BY <1>1, <2>1
  <2>2. CASE oqQueue' = Append(oqQueue, M)
    BY <1>1, <2>2, AppendedTo
  <2> QED
    BY <1>1, <2>1, <2>2
\* The list: what it had, and perhaps a new entry behind it, which is queued if it is built.
<1>51. \/ qpEntries' = qpEntries
      \/ \E e \in QueueEntries : qpEntries' = Append(qpEntries, e) /\ e.proc = M /\ (e.built => M \in Queued')
  <2> SUFFICES ASSUME NEW built \in BOOLEAN,
                      qpEntries' = Append(qpEntries, [proc |-> M, status |-> "pending", built |-> built]),
                      built => oqQueue' = Append(oqQueue, M)
               PROVE  \E e \in QueueEntries : qpEntries' = Append(qpEntries, e) /\ e.proc = M /\ (e.built => M \in Queued')
    BY <1>1
  <2> DEFINE e == [proc |-> M, status |-> "pending", built |-> built]
  <2>1. e \in QueueEntries /\ e.proc = M
    BY <1>1 DEF QueueEntries, QueueStatuses
  <2>2. e.built = built
    OBVIOUS
  <2>3. built => M \in Queued'
    <3>1. built => Q + 1 \in DOMAIN oqQueue' /\ oqQueue'[Q + 1] = M
      <4>1. Q + 1 \in 1 .. (Q + 1)
        BY <1>1
      <4> QED
        BY <1>1, <4>1, AppendedTo
    <3> QED
      BY <3>1 DEF Queued
  <2>4. qpEntries' = Append(qpEntries, e)
    OBVIOUS
  <2> HIDE DEF e
  <2> QED
    BY <2>1, <2>2, <2>3, <2>4
<1>5. /\ qpEntries' \in Seq(QueueEntries)
      /\ \A i \in 1 .. N : i \in DOMAIN qpEntries' /\ qpEntries'[i] = qpEntries[i]
      /\ \A i \in DOMAIN qpEntries' :
           \/ i \in 1 .. N
           \/ i = N + 1 /\ qpEntries'[i].proc = M /\ (qpEntries'[i].built => M \in Queued')
  <2>1. CASE qpEntries' = qpEntries
    BY <1>2, <2>1
  <2>2. CASE \E e \in QueueEntries : qpEntries' = Append(qpEntries, e) /\ e.proc = M /\ (e.built => M \in Queued')
    <3>1. PICK e \in QueueEntries : qpEntries' = Append(qpEntries, e) /\ e.proc = M /\ (e.built => M \in Queued')
      BY <2>2
    <3>2. /\ Append(qpEntries, e) \in Seq(QueueEntries) /\ Append(qpEntries, e)[Len(qpEntries) + 1] = e
          /\ \A i \in 1 .. Len(qpEntries) : i \in DOMAIN Append(qpEntries, e) /\ Append(qpEntries, e)[i] = qpEntries[i]
          /\ \A i \in DOMAIN Append(qpEntries, e) : i \in 1 .. Len(qpEntries) \/ i = Len(qpEntries) + 1
      BY <1>2, AppendedTo
    <3> HIDE DEF M
    <3> QED
      BY <3>1, <3>2
  <2> QED
    BY <1>51, <2>1, <2>2
<1> HIDE DEF M, N, Q
<1>6. Listed(qpEntries)'
  <2>1. \A i \in DOMAIN qpEntries' : qpEntries'[i].proc <= M /\ qpEntries'[i].proc \notin qpRemoved
    <3> SUFFICES ASSUME NEW i \in DOMAIN qpEntries'
                 PROVE  qpEntries'[i].proc <= M /\ qpEntries'[i].proc \notin qpRemoved
      OBVIOUS
    <3>1. CASE i \in 1 .. N
      <4>1. qpEntries'[i] = qpEntries[i] /\ qpEntries[i].proc \notin qpRemoved
        BY <1>2, <1>5, <3>1 DEF QueueInv, Listed
      <4> QED
        BY <1>1, <1>2, <3>1, <4>1
    <3>2. CASE qpEntries'[i].proc = M
      BY <1>1, <1>3, <3>2
    <3> QED
      BY <1>5, <3>1, <3>2
  <2>2. ASSUME NEW i \in DOMAIN qpEntries', NEW j \in DOMAIN qpEntries', qpEntries'[i].proc = qpEntries'[j].proc
        PROVE  i = j
    <3>1. CASE i \in 1 .. N /\ j \in 1 .. N
      BY <1>2, <1>5, <2>2, <3>1 DEF QueueInv, Listed
    <3>2. CASE i \in 1 .. N /\ j = N + 1 /\ qpEntries'[j].proc = M
      BY <1>1, <1>2, <1>5, <2>2, <3>2
    <3>3. CASE j \in 1 .. N /\ i = N + 1 /\ qpEntries'[i].proc = M
      BY <1>1, <1>2, <1>5, <2>2, <3>3
    <3> QED
      BY <1>5, <3>1, <3>2, <3>3
  <2> QED
    BY <1>1, <1>5, <2>1, <2>2 DEF Listed
<1>7. Listed(qpFile)' /\ FileRead'
  <2>1. \A i \in DOMAIN qpFile : qpFile[i].proc \in Nat /\ qpFile[i].proc <= M
    BY <1>1, EntryFields DEF QueueInv, Listed
  <2> QED
    BY <1>1, <2>1 DEF QueueInv, Listed, FileRead
<1>8. QueueTyped'
  <2>1. \A i \in DOMAIN oqQueue' : oqQueue'[i] <= M
    BY <1>1, <1>3, <1>4
  <2>2. \A p \in qpRemoved : p \in Nat /\ p <= M
    BY <1>1 DEF QueueInv, QueueTyped
  <2> QED
    BY <1>1, <1>4, <2>1, <2>2 DEF QueueTyped
<1>9. RemovedNeverRuns'
  BY <1>1, <1>3, <1>4 DEF QueueInv, RemovedNeverRuns, Queued
<1>10. OrderAgrees'
  <2> SUFFICES ASSUME NEW i \in DOMAIN oqQueue', NEW j \in DOMAIN oqQueue', NEW k \in Indices', NEW l \in Indices',
                      i < j, oqQueue'[i] = qpEntries'[k].proc, oqQueue'[j] = qpEntries'[l].proc
               PROVE  k < l
    BY DEF OrderAgrees
  <2>1. k \in DOMAIN qpEntries' /\ l \in DOMAIN qpEntries'
    BY DEF Indices
  <2>2. i \in 1 .. Q
    BY <1>1, <1>4 DEF Q
  <2>3. k \in 1 .. N
    <3>1. oqQueue'[i] <= qpMade /\ oqQueue'[i] \in Nat
      BY <1>3, <1>4, <2>2
    <3> QED
      BY <1>1, <1>5, <2>1, <3>1
  <2>4. CASE l \in 1 .. N
    <3>1. j \in 1 .. Q
      <4>1. oqQueue'[j] <= qpMade /\ oqQueue'[j] \in Nat
        BY <1>2, <1>5, <2>4
      <4>2. oqQueue'[j] # M
        BY <1>1, <4>1
      <4> QED
        BY <1>4, <4>2
    <3> QED
      BY <1>1, <1>2, <1>4, <1>5, <2>2, <2>3, <2>4, <3>1 DEF QueueInv, OrderAgrees, Indices
  <2>5. CASE l = N + 1
    BY <1>2, <2>3, <2>5 DEF N
  <2> QED
    BY <1>5, <2>1, <2>4, <2>5
<1>11. NoPendingLost'
  <2> SUFFICES ASSUME qpOpen', NEW i \in DOMAIN qpEntries', qpEntries'[i].status = "pending", qpEntries'[i].built
               PROVE  qpEntries'[i].proc \in (Queued \cup qpTaken)'
    BY DEF NoPendingLost, Indices
  <2>1. CASE i \in 1 .. N
    <3>1. qpEntries[i].proc \in Queued \cup qpTaken
      BY <1>2, <1>5, <2>1 DEF QueueInv, NoPendingLost, Indices
    <3> QED
      BY <1>1, <1>4, <1>5, <2>1, <3>1 DEF Queued
  <2>2. CASE qpEntries'[i].proc = M /\ M \in Queued'
    BY <2>2
  <2> QED
    BY <1>5, <2>1, <2>2
<1> QED
  BY <1>6, <1>7, <1>8, <1>9, <1>10, <1>11 DEF QueueInv

\* A list whose entries are those of a list, each at most once.
LEMMA ListedPart ==
  ASSUME NEW before, NEW after \in Seq(QueueEntries), Listed(before), NEW from \in [DOMAIN after -> DOMAIN before],
         \A i \in DOMAIN after : after[i].proc = before[from[i]].proc,
         \A i, j \in DOMAIN after : from[i] = from[j] => i = j
  PROVE  Listed(after)
  BY DEF Listed

-----------------------------------------------------------------------------
(* The actions, and the theorem.                                            *)

LEMMA InitAgrees == QueueInit => QueueInv
<1> SUFFICES ASSUME QueueInit PROVE QueueInv
  OBVIOUS
<1>1. QueueTyped
  BY DEF QueueInit, QueueTyped
<1>2. Listed(qpEntries) /\ Listed(qpFile) /\ FileRead
  BY DEF QueueInit, Listed, FileRead
<1>3. RemovedNeverRuns /\ OrderAgrees /\ NoPendingLost
  BY DEF QueueInit, RemovedNeverRuns, OrderAgrees, NoPendingLost, Indices
<1> QED
  BY <1>1, <1>2, <1>3 DEF QueueInv

\* What the operator adds.
LEMMA AddEntryAgrees == QueueInv /\ (\E built \in BOOLEAN : AddEntry(built)) => QueueInv'
<1> SUFFICES ASSUME QueueInv, NEW built \in BOOLEAN, AddEntry(built) PROVE QueueInv'
  OBVIOUS
<1>1. /\ qpMade' = qpMade + 1 /\ qpRemoved' = qpRemoved /\ qpFile' = qpFile /\ qpOpen' = qpOpen
      /\ qpTaken \subseteq qpTaken'
  BY DEF AddEntry
<1>2. /\ qpEntries' = Append(qpEntries, [proc |-> qpMade', status |-> "pending", built |-> built])
      /\ built => oqQueue' = Append(oqQueue, qpMade')
      /\ oqQueue' = oqQueue \/ oqQueue' = Append(oqQueue, qpMade')
  BY DEF AddEntry
<1> QED
  BY <1>1, <1>2, MadeAgrees

LEMMA RunNowAgrees == QueueInv /\ (\E refused \in BOOLEAN : RunNow(refused)) => QueueInv'
<1> SUFFICES ASSUME QueueInv, NEW refused \in BOOLEAN, RunNow(refused) PROVE QueueInv'
  OBVIOUS
<1>1. /\ qpMade' = qpMade + 1 /\ qpRemoved' = qpRemoved /\ qpFile' = qpFile /\ qpOpen' = qpOpen
      /\ qpEntries' = qpEntries
  BY DEF RunNow
<1>2. (oqQueue' = oqQueue \/ oqQueue' = Append(oqQueue, qpMade')) /\ qpTaken \subseteq qpTaken'
  BY DEF RunNow
<1> QED
  BY <1>1, <1>2, MadeAgrees

\* Whatever became of the list, the resync behind it restores the agreement.
LEMMA ResyncedAgrees ==
  ASSUME QueueTyped, Listed(qpEntries)', Listed(qpFile)', FileRead', oqQueue' = PendingProcs(qpEntries'),
         qpMade' = qpMade, \A p \in qpRemoved' : p \in Nat /\ p <= qpMade
  PROVE  QueueInv'
<1>1. /\ (oqQueue \in Seq(Nat) /\ \A i \in DOMAIN oqQueue : oqQueue[i] <= qpMade)'
      /\ RemovedNeverRuns' /\ OrderAgrees' /\ NoPendingLost'
  <2>1. (Listed(qpEntries) /\ oqQueue = PendingProcs(qpEntries) =>
           /\ oqQueue \in Seq(Nat) /\ \A i \in DOMAIN oqQueue : oqQueue[i] <= qpMade
           /\ RemovedNeverRuns /\ OrderAgrees /\ NoPendingLost)'
    BY ResyncAgrees, PTL
  <2> QED
    BY <2>1
<1>2. QueueTyped'
  BY <1>1 DEF QueueTyped
<1> QED
  BY <1>1, <1>2 DEF QueueInv

\* What the operator moves, removes and restores is resynced.
LEMMA MoveAgrees == ASSUME QueueInv, NEW i \in 1 .. MaxProcs, Move(i) PROVE QueueInv'
<1> DEFINE N == Len(qpEntries)
           after == [qpEntries EXCEPT ![i] = qpEntries[i + 1], ![i + 1] = qpEntries[i]]
           from == [k \in 1 .. N |-> IF k = i THEN i + 1 ELSE IF k = i + 1 THEN i ELSE k]
<1>1. /\ qpEntries' = after /\ oqQueue' = PendingProcs(qpEntries') /\ i \in DOMAIN qpEntries /\ i + 1 \in DOMAIN qpEntries
      /\ qpMade' = qpMade /\ qpRemoved' = qpRemoved /\ qpFile' = qpFile /\ qpOpen' = qpOpen
  BY DEF Move, Indices
<1>2. /\ qpEntries \in Seq(QueueEntries) /\ N \in Nat /\ DOMAIN qpEntries = 1 .. N
      /\ \A k \in 1 .. N : qpEntries[k] \in QueueEntries
  BY EntryFields DEF QueueInv, Listed
<1>3. i \in 1 .. N /\ i + 1 \in 1 .. N /\ i # i + 1
  BY <1>1, <1>2
<1>4. DOMAIN after = 1 .. N /\ \A k \in 1 .. N : after[k] = qpEntries[from[k]] /\ from[k] \in 1 .. N
  BY <1>2, <1>3
<1>5. after \in Seq(QueueEntries)
  <2>1. after \in [1 .. N -> QueueEntries]
    <3>1. \A k \in 1 .. N : after[k] \in QueueEntries
      BY <1>2, <1>4
    <3>2. after = [k \in 1 .. N |-> after[k]]
      BY <1>2
    <3> HIDE DEF after
    <3> QED
      BY <3>1, <3>2
  <2> HIDE DEF after
  <2> QED
    BY <1>2, <2>1
<1>6. \A k, l \in 1 .. N : from[k] = from[l] => k = l
  BY <1>2, <1>3
<1>7. from \in [1 .. N -> 1 .. N]
  BY <1>2, <1>3
<1> HIDE DEF after, from
<1>8. Listed(after)
  <2>1. from \in [DOMAIN after -> DOMAIN qpEntries]
    BY <1>2, <1>4, <1>7
  <2>2. \A k \in DOMAIN after : after[k].proc = qpEntries[from[k]].proc
    BY <1>4
  <2>3. \A k, l \in DOMAIN after : from[k] = from[l] => k = l
    BY <1>4, <1>6
  <2>4. Listed(qpEntries)
    BY DEF QueueInv
  <2> QED
    BY <1>5, <2>1, <2>2, <2>3, <2>4, ListedPart
<1>9. Listed(qpEntries)' /\ Listed(qpFile)' /\ FileRead'
  BY <1>1, <1>8 DEF QueueInv, Listed, FileRead
<1> QED
  BY <1>1, <1>9, ResyncedAgrees DEF QueueInv, QueueTyped

LEMMA Joined ==
  ASSUME NEW S, NEW p \in Seq(S), NEW q \in Seq(S)
  PROVE  /\ p \o q \in Seq(S) /\ Len(p \o q) = Len(p) + Len(q) /\ Len(p) \in Nat /\ Len(q) \in Nat
         /\ DOMAIN (p \o q) = 1 .. (Len(p) + Len(q))
         /\ \A k \in 1 .. Len(p) : (p \o q)[k] = p[k]
         /\ \A k \in 1 .. Len(q) : (p \o q)[Len(p) + k] = q[k]
  OBVIOUS

\* What RemoveAt() keeps of a sequence.
LEMMA RemovedAt ==
  ASSUME NEW S, NEW s \in Seq(S), NEW i \in 1 .. Len(s)
  PROVE  /\ RemoveAt(s, i) \in Seq(S) /\ Len(s) \in Nat /\ DOMAIN RemoveAt(s, i) = 1 .. (Len(s) - 1)
         /\ \A k \in 1 .. (Len(s) - 1) : RemoveAt(s, i)[k] = s[IF k < i THEN k ELSE k + 1]
<1> DEFINE front == SubSeq(s, 1, i - 1)
           back == SubSeq(s, i + 1, Len(s))
           N == Len(s)
<1>1. N \in Nat /\ i \in Nat /\ i >= 1 /\ i <= N
  OBVIOUS
<1>2. front \in Seq(S) /\ Len(front) = i - 1 /\ \A k \in 1 .. (i - 1) : front[k] = s[k]
  BY <1>1
<1>3. back \in Seq(S) /\ Len(back) = N - i /\ \A k \in 1 .. (N - i) : back[k] = s[k + i]
  BY <1>1
<1>4. RemoveAt(s, i) = front \o back
  BY DEF RemoveAt
<1> HIDE DEF front, back
<1>5. /\ front \o back \in Seq(S)
      /\ DOMAIN (front \o back) = 1 .. (Len(front) + Len(back))
      /\ \A k \in 1 .. Len(front) : (front \o back)[k] = front[k]
      /\ \A k \in 1 .. Len(back) : (front \o back)[Len(front) + k] = back[k]
  <2>1. front \in Seq(S) /\ back \in Seq(S)
    BY <1>2, <1>3
  <2> QED
    BY <2>1, Joined
<1>6. Len(front) + Len(back) = N - 1
  BY <1>1, <1>2, <1>3
<1> HIDE DEF N
<1>7. ASSUME NEW k \in 1 .. (N - 1) PROVE (front \o back)[k] = s[IF k < i THEN k ELSE k + 1]
  <2>1. CASE k < i
    <3>1. k \in 1 .. (i - 1)
      BY <1>1, <2>1
    <3> QED
      BY <1>2, <1>5, <2>1, <3>1
  <2>2. CASE ~(k < i)
    <3> DEFINE j == k - (i - 1)
    <3>1. j \in 1 .. (N - i) /\ (i - 1) + j = k /\ j + i = k + 1
      BY <1>1, <2>2
    <3> HIDE DEF j
    <3>2. (front \o back)[(i - 1) + j] = back[j] /\ back[j] = s[j + i]
      BY <1>2, <1>3, <1>5, <3>1
    <3> QED
      BY <2>2, <3>1, <3>2
  <2> QED
    BY <2>1, <2>2
<1> QED
  BY <1>1, <1>4, <1>5, <1>6, <1>7 DEF N

LEMMA RemoveEntryAgrees == ASSUME QueueInv, NEW i \in 1 .. MaxProcs, RemoveEntry(i) PROVE QueueInv'
<1> DEFINE N == Len(qpEntries)
           after == RemoveAt(qpEntries, i)
           from == [k \in 1 .. (N - 1) |-> IF k < i THEN k ELSE k + 1]
<1>1. /\ qpEntries' = after /\ oqQueue' = PendingProcs(qpEntries') /\ i \in DOMAIN qpEntries
      /\ qpMade' = qpMade /\ qpRemoved' = qpRemoved \cup {qpEntries[i].proc} /\ qpFile' = qpFile
      /\ qpOpen /\ qpOpen' = qpOpen
  BY DEF RemoveEntry, Indices
<1>2. /\ qpEntries \in Seq(QueueEntries) /\ N \in Nat /\ DOMAIN qpEntries = 1 .. N
      /\ \A k \in 1 .. N : qpEntries[k].proc \in Nat
  BY EntryFields DEF QueueInv, Listed
<1>3. i \in 1 .. N
  BY <1>1, <1>2
<1>4. /\ after \in Seq(QueueEntries) /\ DOMAIN after = 1 .. (N - 1)
      /\ \A k \in 1 .. (N - 1) : after[k] = qpEntries[IF k < i THEN k ELSE k + 1]
  BY <1>2, <1>3, RemovedAt
<1>5. \A k \in 1 .. (N - 1) : from[k] \in 1 .. N /\ from[k] # i
  BY <1>2, <1>3
<1>6. \A k, l \in 1 .. (N - 1) : from[k] = from[l] => k = l
  BY <1>2, <1>3
<1>7. \A k \in 1 .. (N - 1) : after[k] = qpEntries[from[k]]
  BY <1>4
<1>8. from \in [1 .. (N - 1) -> 1 .. N]
  BY <1>5
<1> HIDE DEF after, from
<1>9. Listed(after)
  <2>1. from \in [DOMAIN after -> DOMAIN qpEntries]
    BY <1>2, <1>4, <1>8
  <2>2. \A k \in DOMAIN after : after[k].proc = qpEntries[from[k]].proc
    BY <1>4, <1>7
  <2>3. \A k, l \in DOMAIN after : from[k] = from[l] => k = l
    BY <1>4, <1>6
  <2>4. Listed(qpEntries) /\ after \in Seq(QueueEntries)
    BY <1>4 DEF QueueInv
  <2> QED
    BY <2>1, <2>2, <2>3, <2>4, ListedPart
\* What remains is not what was removed.
<1>10. \A k \in DOMAIN after : after[k].proc # qpEntries[i].proc
  BY <1>2, <1>3, <1>4, <1>5, <1>7 DEF QueueInv, Listed
<1>11. Listed(qpEntries)'
  BY <1>1, <1>9, <1>10 DEF Listed
<1>12. Listed(qpFile)'
  BY <1>1 DEF QueueInv, FileRead, Listed
<1>13. \A p \in qpRemoved' : p \in Nat /\ p <= qpMade
  BY <1>1, <1>2, <1>3 DEF QueueInv, QueueTyped, Listed
<1>14. FileRead'
  BY <1>1 DEF QueueInv, FileRead
<1> QED
  BY <1>1, <1>11, <1>12, <1>13, <1>14, ResyncedAgrees DEF QueueInv

LEMMA ReopenAgrees == QueueInv /\ Reopen => QueueInv'
<1> SUFFICES ASSUME QueueInv, Reopen PROVE QueueInv'
  OBVIOUS
<1> DEFINE after == Restored(qpFile)
           Again(e) == IF e.status = "running" THEN [e EXCEPT !.status = "pending"] ELSE e
<1>1. /\ qpEntries' = after /\ oqQueue' = PendingProcs(qpEntries') /\ qpFile' = <<>>
      /\ qpMade' = qpMade /\ qpRemoved' = qpRemoved
  BY DEF Reopen
<1>2. /\ qpFile \in Seq(QueueEntries) /\ Len(qpFile) \in Nat /\ DOMAIN qpFile = 1 .. Len(qpFile)
      /\ \A k \in DOMAIN qpFile : qpFile[k] \in QueueEntries
  BY EntryFields DEF QueueInv, Listed
<1>3. \A e \in QueueEntries : Again(e) \in QueueEntries /\ Again(e).proc = e.proc
  BY DEF QueueEntries, QueueStatuses
<1>4. after = [k \in DOMAIN qpFile |-> Again(qpFile[k])]
  BY DEF Restored
<1> HIDE DEF after, Again
<1>5. after \in [1 .. Len(qpFile) -> QueueEntries]
  BY <1>2, <1>3, <1>4
<1>6. after \in Seq(QueueEntries) /\ DOMAIN after = DOMAIN qpFile
  BY <1>2, <1>5
<1>7. \A k \in DOMAIN qpFile : after[k].proc = qpFile[k].proc
  BY <1>2, <1>3, <1>4
<1>8. Listed(qpEntries)'
  BY <1>1, <1>6, <1>7 DEF QueueInv, Listed
<1>9. Listed(qpFile)' /\ FileRead'
  BY <1>1 DEF Listed, FileRead
<1>10. \A p \in qpRemoved' : p \in Nat /\ p <= qpMade
  BY <1>1 DEF QueueInv, QueueTyped
<1> QED
  BY <1>1, <1>8, <1>9, <1>10, ResyncedAgrees DEF QueueInv

-----------------------------------------------------------------------------
(* The steps of the Orchestrator, with what the panel marks.                *)

\* What run_queue() takes: nothing, or the head.
LEMMA DrainTakes ==
  ASSUME NEW refused \in BOOLEAN, Drain(oqQueue, refused)
  PROVE  \/ oqQueue' = oqQueue /\ qpTaken' = qpTaken
         \/ oqQueue # <<>> /\ oqQueue' = Tail(oqQueue) /\ qpTaken' = qpTaken \cup {Head(oqQueue)}
  BY DEF Drain

\* The panel marks what ended and what comes next, and touches nothing else.
LEMMA AdvanceSame ==
  ASSUME qpEntries \in Seq(QueueEntries), NEW status \in {"done", "failed"}, Advance(status)
  PROVE  SameList(qpEntries, qpEntries')
<1>1. SameList(qpEntries, qpEntries)
  BY DEF SameList
<1>2. SameList(qpEntries, Advanced(qpEntries, status))
  BY AdvancedSame
<1> QED
  BY <1>1, <1>2 DEF Advance

\* The remaining steps, of the two together.
LEMMA OthersAgree ==
  ASSUME QueueInv,
         \/ \E to \in QueueStates : OrchestratorMoves(to)
         \/ \E refused \in BOOLEAN :
              \/ RunQueueClicked(refused) \/ RunDone(refused) \/ EndsUntold(refused)
              \/ AbortClicked(refused) \/ CloseWindow(refused)
  PROVE  QueueInv'
<1>0. qpEntries \in Seq(QueueEntries)
  BY DEF QueueInv, Listed
<1>1. SameList(qpEntries, qpEntries)
  BY <1>0 DEF SameList
<1>2. ASSUME NEW to, OrchestratorMoves(to) PROVE QueueInv'
  BY <1>1, <1>2, MarksAgree DEF OrchestratorMoves
<1>3. ASSUME NEW refused \in BOOLEAN, EndsUntold(refused) PROVE QueueInv'
  <2>1. qpEntries' = qpEntries /\ SameList(qpEntries, qpEntries')
    BY <1>1, <1>3 DEF EndsUntold
  <2>2. \/ oqQueue' = oqQueue /\ qpTaken' = qpTaken
        \/ oqQueue # <<>> /\ oqQueue' = Tail(oqQueue) /\ qpTaken' = qpTaken \cup {Head(oqQueue)}
    BY <1>3, DrainTakes DEF EndsUntold
  <2> QED
    BY <1>3, <2>1, <2>2, MarksAgree DEF EndsUntold
<1>4. ASSUME NEW refused \in BOOLEAN, RunQueueClicked(refused) PROVE QueueInv'
  <2>1. SameList(qpEntries, qpEntries')
    BY <1>0, <1>4, MarkedSame DEF RunQueueClicked, QueueStatuses
  <2>2. \/ oqQueue' = oqQueue /\ qpTaken' = qpTaken
        \/ oqQueue # <<>> /\ oqQueue' = Tail(oqQueue) /\ qpTaken' = qpTaken \cup {Head(oqQueue)}
    BY <1>4, DrainTakes DEF RunQueueClicked
  <2> QED
    BY <1>4, <2>1, <2>2, MarksAgree DEF RunQueueClicked
<1>5. ASSUME NEW refused \in BOOLEAN, RunDone(refused) PROVE QueueInv'
  <2>1. SameList(qpEntries, qpEntries')
    BY <1>0, <1>5, AdvanceSame DEF RunDone
  <2>2. \/ oqQueue' = oqQueue /\ qpTaken' = qpTaken
        \/ oqQueue # <<>> /\ oqQueue' = Tail(oqQueue) /\ qpTaken' = qpTaken \cup {Head(oqQueue)}
    BY <1>5, DrainTakes DEF RunDone
  <2> QED
    BY <1>5, <2>1, <2>2, MarksAgree DEF RunDone
<1>6. ASSUME NEW refused \in BOOLEAN, AbortClicked(refused) PROVE QueueInv'
  <2>1. SameList(qpEntries, qpEntries')
    BY <1>0, <1>6, AdvanceSame DEF AbortClicked
  <2>2. \/ oqQueue' = oqQueue /\ qpTaken' = qpTaken
        \/ oqQueue # <<>> /\ oqQueue' = Tail(oqQueue) /\ qpTaken' = qpTaken \cup {Head(oqQueue)}
    BY <1>6, DrainTakes DEF AbortClicked
  <2> QED
    BY <1>6, <2>1, <2>2, MarksAgree DEF AbortClicked
<1>7. ASSUME NEW refused \in BOOLEAN, CloseWindow(refused) PROVE QueueInv'
  <2>2. \/ oqQueue' = oqQueue /\ qpTaken' = qpTaken
        \/ oqQueue # <<>> /\ oqQueue' = Tail(oqQueue) /\ qpTaken' = qpTaken \cup {Head(oqQueue)}
    BY <1>7, DrainTakes DEF CloseWindow
  <2> QED
    BY <1>1, <1>7, <2>2, MarksAgree DEF CloseWindow
<1> QED
  BY <1>2, <1>3, <1>4, <1>5, <1>6, <1>7

LEMMA ResetAgrees == QueueInv /\ Reset => QueueInv'
<1> SUFFICES ASSUME QueueInv, Reset PROVE QueueInv'
  OBVIOUS
<1>1. /\ qpEntries' = <<>> /\ oqQueue' = <<>> /\ qpMade' = qpMade /\ qpOpen' = qpOpen /\ qpFile' = qpFile
      /\ qpOpen /\ qpRemoved' = qpRemoved \cup {qpEntries[i].proc : i \in Indices}
  BY DEF Reset
<1>2. \A i \in Indices : qpEntries[i].proc \in Nat /\ qpEntries[i].proc <= qpMade
  BY EntryFields DEF QueueInv, Listed, Indices
<1>3. \A p \in qpRemoved' : p \in Nat /\ p <= qpMade
  BY <1>1, <1>2 DEF QueueInv, QueueTyped
<1>4. QueueTyped'
  BY <1>1, <1>3 DEF QueueInv, QueueTyped
<1>5. Listed(qpEntries)' /\ Listed(qpFile)' /\ FileRead'
  BY <1>1 DEF QueueInv, Listed, FileRead
<1>6. RemovedNeverRuns' /\ OrderAgrees' /\ NoPendingLost'
  BY <1>1 DEF RemovedNeverRuns, OrderAgrees, NoPendingLost, Queued, Indices
<1> QED
  BY <1>4, <1>5, <1>6 DEF QueueInv

\* The steps that leave the two queues in agreement.
LEMMA StepAgrees == QueueInv /\ QueueNext => QueueInv'
<1> SUFFICES ASSUME QueueInv, QueueNext PROVE QueueInv'
  OBVIOUS
<1>1. CASE \/ \E to \in QueueStates : OrchestratorMoves(to)
           \/ \E refused \in BOOLEAN :
                \/ RunQueueClicked(refused) \/ RunDone(refused) \/ EndsUntold(refused)
                \/ AbortClicked(refused) \/ CloseWindow(refused)
  BY <1>1, OthersAgree
<1>2. CASE Reopen
  BY <1>2, ReopenAgrees
<1>3. CASE Reset
  BY <1>3, ResetAgrees
<1>4. CASE \E refused \in BOOLEAN : RunNow(refused)
  BY <1>4, RunNowAgrees
<1>5. CASE \E built \in BOOLEAN : AddEntry(built)
  BY <1>5, AddEntryAgrees
<1>6. CASE \E i \in 1 .. MaxProcs : Move(i) \/ RemoveEntry(i)
  BY <1>6, MoveAgrees, RemoveEntryAgrees
<1> QED
  BY <1>1, <1>2, <1>3, <1>4, <1>5, <1>6 DEF QueueNext

-----------------------------------------------------------------------------
(* The marks of the panel, and what the Orchestrator takes with them.       *)

LEMMA FirstOf ==
  ASSUME NEW entries \in Seq(QueueEntries), NEW status, WithStatus(entries, status) # {}
  PROVE  LET f == First(WithStatus(entries, status))
         IN /\ f \in DOMAIN entries /\ entries[f].status = status
            /\ \A i \in DOMAIN entries : entries[i].status = status => f <= i
<1> DEFINE S == WithStatus(entries, status)
<1>1. S \in SUBSET Nat
  BY EntryFields DEF WithStatus
<1>2. \E x \in S : \A y \in S : x <= y
  BY <1>1, NatLeast
<1>3. First(S) \in S /\ \A y \in S : First(S) <= y
  BY <1>2 DEF First
<1> QED
  BY <1>3 DEF WithStatus

\* Nothing but the first pending entry is promoted, and no other pending entry is touched.
Marked(before, after) ==
  \A i \in DOMAIN before :
    /\ after[i].status = "running" =>
         before[i].status = "running" \/ (before[i].status = "pending" /\ i = First(WithStatus(before, "pending")))
    /\ before[i].status = "pending" => after[i].status = "pending" \/ i = First(WithStatus(before, "pending"))

LEMMA PromotedMarked ==
  ASSUME NEW entries \in Seq(QueueEntries), WithStatus(entries, "pending") # {}
  PROVE  Marked(entries, [entries EXCEPT ![First(WithStatus(entries, "pending"))].status = "running"])
<1> DEFINE f == First(WithStatus(entries, "pending"))
           after == [entries EXCEPT ![f].status = "running"]
<1>1. f \in DOMAIN entries /\ entries[f].status = "pending"
  BY FirstOf
<1>2. \A i \in DOMAIN entries : entries[i] \in QueueEntries
  BY EntryFields
<1> HIDE DEF f
<1>3. \A i \in DOMAIN entries : i # f => after[i] = entries[i]
  BY <1>2
<1> HIDE DEF after
<1>4. Marked(entries, after)
  BY <1>1, <1>3 DEF Marked, f
<1> QED
  BY <1>4 DEF after, f

LEMMA AdvancedMarked ==
  ASSUME NEW entries \in Seq(QueueEntries), NEW status \in {"done", "failed"}
  PROVE  Marked(entries, Advanced(entries, status))
<1> DEFINE r == First(WithStatus(entries, "running"))
           closed == IF WithStatus(entries, "running") = {} THEN entries ELSE [entries EXCEPT ![r].status = status]
           f == First(WithStatus(closed, "pending"))
<1>1. \A i \in DOMAIN entries : entries[i] \in QueueEntries
  BY EntryFields
<1>2. /\ closed \in Seq(QueueEntries) /\ DOMAIN closed = DOMAIN entries
      /\ \A i \in DOMAIN entries :
           /\ closed[i].status = "pending" <=> entries[i].status = "pending"
           /\ closed[i].status = "running" => entries[i].status = "running"
  <2>1. CASE WithStatus(entries, "running") = {}
    BY <2>1
  <2>2. CASE WithStatus(entries, "running") # {}
    <3>1. closed = [entries EXCEPT ![r].status = status]
      BY <2>2
    <3>2. r \in DOMAIN entries /\ entries[r].status = "running"
      BY <2>2, FirstOf
    <3>3. SameList(entries, closed)
      <4>1. status \in QueueStatuses \ {"pending"}
        BY DEF QueueStatuses
      <4> HIDE DEF r, closed
      <4> QED
        BY <3>1, <4>1, MarkedSame
    <3>4. closed \in Seq(QueueEntries) /\ DOMAIN closed = DOMAIN entries
      BY <3>3, EntryFields DEF SameList
    <3> HIDE DEF closed, r
    <3>5. \A i \in DOMAIN entries : closed[i] = IF i = r THEN [entries[i] EXCEPT !.status = status] ELSE entries[i]
      BY <3>1
    <3>6. closed[r].status = status
      <4>1. entries[r] \in QueueEntries
        BY <1>1, <3>2
      <4> QED
        BY <3>2, <3>5, <4>1 DEF QueueEntries
    <3> QED
      BY <3>2, <3>4, <3>5, <3>6
  <2> QED
    BY <2>1, <2>2
<1>3. WithStatus(closed, "pending") = WithStatus(entries, "pending")
  BY <1>2 DEF WithStatus
<1>4. Advanced(entries, status) =
        IF WithStatus(closed, "pending") = {} THEN closed ELSE [closed EXCEPT ![f].status = "running"]
  BY DEF Advanced
<1> HIDE DEF closed
<1>5. CASE WithStatus(closed, "pending") = {}
  BY <1>2, <1>4, <1>5 DEF Marked
<1>6. CASE WithStatus(closed, "pending") # {}
  <2>1. Marked(closed, [closed EXCEPT ![f].status = "running"])
    BY <1>2, <1>6, PromotedMarked
  <2> QED
    BY <1>2, <1>3, <1>4, <1>6, <2>1 DEF Marked
<1> QED
  BY <1>5, <1>6

\* What run_queue() leaves of the queue.
Drained ==
  \/ oqQueue' = oqQueue /\ qpTaken' = qpTaken
  \/ oqQueue # <<>> /\ oqQueue' = Tail(oqQueue) /\ qpTaken' = qpTaken \cup {Head(oqQueue)}

LEMMA DrainedIs ==
  ASSUME oqQueue \in Seq(Nat), Drained
  PROVE  \E d \in {0, 1} :
           /\ \A q \in DOMAIN oqQueue' : q \in Nat /\ q + d \in DOMAIN oqQueue /\ oqQueue'[q] = oqQueue[q + d]
           /\ qpTaken \subseteq qpTaken'
           /\ oqQueue # <<>> /\ oqQueue' # oqQueue => oqQueue[1] \in qpTaken' /\ d = 1
<1>1. CASE oqQueue' = oqQueue /\ qpTaken' = qpTaken
  <2>1. \A q \in DOMAIN oqQueue' : q \in Nat /\ q + 0 \in DOMAIN oqQueue /\ oqQueue'[q] = oqQueue[q + 0]
    BY <1>1
  <2> QED
    BY <1>1, <2>1
<1>2. CASE oqQueue # <<>> /\ oqQueue' = Tail(oqQueue) /\ qpTaken' = qpTaken \cup {Head(oqQueue)}
  <2>1. /\ Len(oqQueue) \in Nat /\ Head(oqQueue) = oqQueue[1]
        /\ DOMAIN oqQueue = 1 .. Len(oqQueue) /\ DOMAIN oqQueue' = 1 .. (Len(oqQueue) - 1)
        /\ \A q \in 1 .. (Len(oqQueue) - 1) : oqQueue'[q] = oqQueue[q + 1]
    BY <1>2
  <2>2. \A q \in 1 .. (Len(oqQueue) - 1) : q \in Nat /\ q + 1 \in 1 .. Len(oqQueue)
    BY <2>1
  <2>3. \A q \in DOMAIN oqQueue' : q \in Nat /\ q + 1 \in DOMAIN oqQueue /\ oqQueue'[q] = oqQueue[q + 1]
    BY <2>1, <2>2
  <2> QED
    BY <1>2, <2>1, <2>3
<1> QED
  BY <1>1, <1>2 DEF Drained

\* The list is not marked: what is taken leaves the queue, and the rest stays listed.
LEMMA UnmarkedKeeps ==
  ASSUME QueueInv, MarkInv, qpEntries' = qpEntries, Drained, qpAstray => qpAstray'
  PROVE  MarkInv'
<1>1. oqQueue \in Seq(Nat)
  BY DEF QueueInv, QueueTyped
<1>2. PICK d \in {0, 1} :
        /\ \A q \in DOMAIN oqQueue' : q \in Nat /\ q + d \in DOMAIN oqQueue /\ oqQueue'[q] = oqQueue[q + d]
        /\ qpTaken \subseteq qpTaken'
  BY <1>1, DrainedIs
<1>3. RunningWasTaken'
  BY <1>2 DEF MarkInv, RunningWasTaken, Indices
<1>4. QueuedIsPending'
  BY <1>2 DEF MarkInv, QueuedIsPending, Indices
<1> QED
  BY <1>3, <1>4 DEF MarkInv

\* The first pending entry is promoted and the head of the queue is taken: they are the same
\* procedure, unless that of the entry was taken before or could not be built.
LEMMA MarkedKeeps ==
  ASSUME QueueInv, MarkInv, qpOpen, SameList(qpEntries, qpEntries'), Marked(qpEntries, qpEntries'),
         \/ oqQueue = <<>> /\ oqQueue' = oqQueue /\ qpTaken' = qpTaken
         \/ oqQueue # <<>> /\ oqQueue' = Tail(oqQueue) /\ qpTaken' = qpTaken \cup {Head(oqQueue)},
         qpAstray => qpAstray'
  PROVE  MarkInv'
<1> SUFFICES ASSUME ~qpAstray PROVE MarkInv'
  BY DEF MarkInv, RunningWasTaken, QueuedIsPending
<1> DEFINE f == First(WithStatus(qpEntries, "pending"))
<1>1. /\ oqQueue \in Seq(Nat) /\ qpEntries \in Seq(QueueEntries)
      /\ \A i, j \in Indices : qpEntries[i].proc = qpEntries[j].proc => i = j
  BY DEF QueueInv, QueueTyped, Listed, Indices
<1>2. /\ Indices' = Indices /\ Indices = 1 .. Len(qpEntries) /\ Len(qpEntries) \in Nat
      /\ Len(oqQueue) \in Nat /\ DOMAIN oqQueue = 1 .. Len(oqQueue)
  BY <1>1, EntryFields DEF SameList, Indices
<1>3. \A i \in Indices : qpEntries'[i].proc = qpEntries[i].proc /\ qpEntries'[i].built = qpEntries[i].built
  BY DEF SameList, Indices
\* What stands behind the head of the queue is not the first pending entry.
<1>4. ASSUME NEW q \in DOMAIN oqQueue, q > 1, NEW k \in Indices, oqQueue[q] = qpEntries[k].proc
      PROVE  k # f
  <2>1. 1 \in DOMAIN oqQueue /\ 1 < q
    BY <1>2, <1>4
  <2>2. PICK h \in Indices : qpEntries[h].proc = oqQueue[1] /\ qpEntries[h].status = "pending"
    BY <2>1 DEF MarkInv, QueuedIsPending
  <2>3. h < k
    BY <1>4, <2>1, <2>2 DEF QueueInv, OrderAgrees
  <2>4. WithStatus(qpEntries, "pending") # {}
    BY <2>2 DEF WithStatus, Indices
  <2>5. f \in Nat /\ f <= h
    BY <1>1, <1>2, <2>2, <2>4, FirstOf DEF Indices
  <2> HIDE DEF f
  <2> QED
    BY <1>2, <2>3, <2>5
<1>5. RunningWasTaken'
  <2> SUFFICES ASSUME NEW i \in Indices, qpEntries'[i].status = "running", qpEntries'[i].built
               PROVE  qpEntries[i].proc \in qpTaken'
    BY <1>2, <1>3 DEF RunningWasTaken
  <2>0. qpTaken \subseteq qpTaken'
    OBVIOUS
  <2>1. CASE qpEntries[i].status = "running"
    BY <1>3, <2>0, <2>1 DEF MarkInv, RunningWasTaken
  <2>2. CASE qpEntries[i].status = "pending" /\ i = f
    <3>1. qpEntries[i].proc \in Queued \cup qpTaken
      BY <1>3, <2>2 DEF QueueInv, NoPendingLost
    <3>2. CASE qpEntries[i].proc \in qpTaken
      BY <2>0, <3>2
    <3>3. CASE qpEntries[i].proc \in Queued
      <4>1. PICK q \in DOMAIN oqQueue : oqQueue[q] = qpEntries[i].proc
        BY <3>3 DEF Queued
      <4>2. ~(q > 1)
        BY <1>4, <2>2, <4>1
      <4>3. q = 1 /\ oqQueue # <<>>
        BY <1>2, <4>1, <4>2
      <4> QED
        BY <1>1, <4>1, <4>3
    <3> QED
      BY <3>1, <3>2, <3>3
  <2> QED
    BY <2>1, <2>2 DEF Marked, Indices
<1>6. QueuedIsPending'
  <2> SUFFICES ASSUME NEW q \in DOMAIN oqQueue'
               PROVE  \E k \in Indices : qpEntries'[k].proc = oqQueue'[q] /\ qpEntries'[k].status = "pending"
    BY <1>2 DEF QueuedIsPending
  <2>1. q + 1 \in DOMAIN oqQueue /\ q + 1 > 1 /\ oqQueue'[q] = oqQueue[q + 1]
    <3>1. oqQueue # <<>> /\ oqQueue' = Tail(oqQueue)
      OBVIOUS
    <3>2. DOMAIN oqQueue' = 1 .. (Len(oqQueue) - 1) /\ \A j \in 1 .. (Len(oqQueue) - 1) : oqQueue'[j] = oqQueue[j + 1]
      BY <1>1, <3>1
    <3> QED
      BY <1>2, <3>2
  <2>2. PICK k \in Indices : qpEntries[k].proc = oqQueue[q + 1] /\ qpEntries[k].status = "pending"
    BY <2>1 DEF MarkInv, QueuedIsPending
  <2>3. k # f
    BY <1>4, <2>1, <2>2
  <2>4. qpEntries'[k].status = "pending"
    BY <2>2, <2>3 DEF Marked, Indices
  <2> QED
    BY <1>3, <2>1, <2>2, <2>4
<1> QED
  BY <1>5, <1>6 DEF MarkInv

\* A resync leaves the queue with pending entries.
LEMMA ResyncPending == Listed(qpEntries) /\ oqQueue = PendingProcs(qpEntries) => QueuedIsPending
<1> SUFFICES ASSUME Listed(qpEntries), oqQueue = PendingProcs(qpEntries) PROVE QueuedIsPending
  OBVIOUS
<1>1. PICK pos : Mirrors(qpEntries, Len(qpEntries), oqQueue, pos)
  BY PendingMirrors DEF Listed
<1>2. Indices = 1 .. Len(qpEntries) /\ DOMAIN oqQueue = 1 .. Len(oqQueue)
  BY <1>1, EntryFields DEF Listed, Indices, Mirrors
<1> QED
  BY <1>1, <1>2 DEF Mirrors, Armed, QueuedIsPending

LEMMA ResyncedMarks ==
  ASSUME Listed(qpEntries)', oqQueue' = PendingProcs(qpEntries'),
         \A k \in Indices' :
           ~qpAstray' /\ qpEntries'[k].status = "running" /\ qpEntries'[k].built => qpEntries'[k].proc \in qpTaken'
  PROVE  MarkInv'
<1>1. (Listed(qpEntries) /\ oqQueue = PendingProcs(qpEntries) => QueuedIsPending)'
  BY ResyncPending, PTL
<1>2. RunningWasTaken'
  BY DEF RunningWasTaken
<1> QED
  BY <1>1, <1>2 DEF MarkInv

LEMMA MoveMarks == ASSUME QueueInv, QueueInv', MarkInv, NEW i \in 1 .. MaxProcs, Move(i) PROVE MarkInv'
<1>1. /\ qpEntries' = [qpEntries EXCEPT ![i] = qpEntries[i + 1], ![i + 1] = qpEntries[i]]
      /\ i \in Indices /\ i + 1 \in Indices /\ qpTaken' = qpTaken /\ qpAstray' = qpAstray
      /\ oqQueue' = PendingProcs(qpEntries')
  BY DEF Move
<1>2. \A k \in Indices' : \E j \in Indices : qpEntries'[k] = qpEntries[j]
  <2>1. qpEntries \in Seq(QueueEntries) /\ Indices' = Indices
    BY <1>1 DEF Indices, QueueInv, Listed
  <2>2. ASSUME NEW k \in Indices PROVE \E j \in Indices : qpEntries'[k] = qpEntries[j]
    <3>1. CASE k = i + 1
      BY <1>1, <3>1 DEF Indices
    <3>2. CASE k = i /\ k # i + 1
      BY <1>1, <3>2 DEF Indices
    <3>3. CASE k # i /\ k # i + 1
      BY <1>1, <3>3 DEF Indices
    <3> QED
      BY <3>1, <3>2, <3>3
  <2> QED
    BY <2>1, <2>2
<1>3. \A k \in Indices' :
        ~qpAstray' /\ qpEntries'[k].status = "running" /\ qpEntries'[k].built => qpEntries'[k].proc \in qpTaken'
  <2>1. qpTaken' = qpTaken /\ qpAstray' = qpAstray
    BY <1>1
  <2> QED
    BY <1>2, <2>1 DEF MarkInv, RunningWasTaken
<1> QED
  BY <1>1, <1>3, ResyncedMarks DEF QueueInv

LEMMA RemoveEntryMarks == ASSUME QueueInv, QueueInv', MarkInv, NEW i \in 1 .. MaxProcs, RemoveEntry(i) PROVE MarkInv'
<1>1. /\ qpEntries' = RemoveAt(qpEntries, i) /\ i \in Indices
      /\ qpTaken' = qpTaken /\ qpAstray' = qpAstray /\ oqQueue' = PendingProcs(qpEntries')
  BY DEF RemoveEntry
<1> DEFINE N == Len(qpEntries)
<1>2. qpEntries \in Seq(QueueEntries) /\ N \in Nat /\ Indices = 1 .. N
  BY EntryFields DEF QueueInv, Listed, Indices
<1>3. DOMAIN qpEntries' = 1 .. (N - 1)
      /\ \A k \in 1 .. (N - 1) : qpEntries'[k] = qpEntries[IF k < i THEN k ELSE k + 1]
  BY <1>1, <1>2, RemovedAt
<1>4. \A k \in 1 .. (N - 1) : (IF k < i THEN k ELSE k + 1) \in Indices
  BY <1>2
<1>5. \A k \in Indices' : \E j \in Indices : qpEntries'[k] = qpEntries[j]
  BY <1>3, <1>4 DEF Indices
<1> QED
  BY <1>1, <1>5, ResyncedMarks DEF MarkInv, RunningWasTaken, QueueInv

LEMMA ReopenMarks == ASSUME QueueInv, QueueInv', Reopen PROVE MarkInv'
<1>1. qpEntries' = Restored(qpFile) /\ oqQueue' = PendingProcs(qpEntries')
  BY DEF Reopen
<1>2. /\ qpFile \in Seq(QueueEntries)
      /\ \A k \in DOMAIN qpFile : qpFile[k] \in QueueEntries
  BY EntryFields DEF QueueInv, Listed
<1>3. \A e \in QueueEntries : e.status = "running" => [e EXCEPT !.status = "pending"].status # "running"
  BY DEF QueueEntries
<1>4. \A k \in Indices' : qpEntries'[k].status # "running"
  BY <1>1, <1>2, <1>3 DEF Restored, Indices
<1> QED
  BY <1>1, <1>4, ResyncedMarks DEF QueueInv

\* What the operator adds waits behind the rest, listed as pending.
LEMMA AddEntryMarks == ASSUME QueueInv, MarkInv, NEW built \in BOOLEAN, AddEntry(built) PROVE MarkInv'
<1> DEFINE e == [proc |-> qpMade + 1, status |-> "pending", built |-> built]
           N == Len(qpEntries)
           Q == Len(oqQueue)
<1>1. /\ qpEntries' = Append(qpEntries, e) /\ qpTaken' = qpTaken /\ qpAstray' = qpAstray
      /\ oqQueue' = IF built THEN Append(oqQueue, qpMade + 1) ELSE oqQueue
  BY DEF AddEntry
<1>2. /\ qpMade \in Nat /\ oqQueue \in Seq(Nat) /\ qpEntries \in Seq(QueueEntries)
      /\ N \in Nat /\ Indices = 1 .. N
  BY EntryFields DEF QueueInv, QueueTyped, Listed, Indices
<1>3. e \in QueueEntries /\ e.proc = qpMade + 1 /\ e.status = "pending"
  BY <1>2 DEF QueueEntries, QueueStatuses
<1> HIDE DEF e
<1>4. /\ Indices' = 1 .. (N + 1) /\ qpEntries'[N + 1] = e
      /\ \A k \in 1 .. N : k \in Indices' /\ qpEntries'[k] = qpEntries[k]
      /\ \A k \in Indices' : k \in 1 .. N \/ k = N + 1
  BY <1>1, <1>2, <1>3, AppendedTo DEF Indices
<1>5. \A q \in DOMAIN oqQueue' : (q \in DOMAIN oqQueue /\ oqQueue'[q] = oqQueue[q]) \/ oqQueue'[q] = qpMade + 1
  <2>1. CASE built
    <3>1. qpMade + 1 \in Nat
      BY <1>2
    <3> QED
      BY <1>1, <1>2, <2>1, <3>1, AppendedTo
  <2>2. CASE ~built
    BY <1>1, <2>2
  <2> QED
    BY <2>1, <2>2
<1> HIDE DEF N
<1>6. RunningWasTaken'
  BY <1>1, <1>2, <1>3, <1>4 DEF MarkInv, RunningWasTaken
<1>7. QueuedIsPending'
  <2> SUFFICES ASSUME ~qpAstray, NEW q \in DOMAIN oqQueue'
               PROVE  \E k \in Indices' : qpEntries'[k].proc = oqQueue'[q] /\ qpEntries'[k].status = "pending"
    BY <1>1 DEF QueuedIsPending
  <2>1. CASE oqQueue'[q] = qpMade + 1
    <3>1. N + 1 \in Indices'
      BY <1>2, <1>4
    <3> QED
      BY <1>3, <1>4, <2>1, <3>1
  <2>2. CASE q \in DOMAIN oqQueue /\ oqQueue'[q] = oqQueue[q]
    BY <1>2, <1>4, <2>2 DEF MarkInv, QueuedIsPending
  <2> QED
    BY <1>5, <2>1, <2>2
<1> QED
  BY <1>6, <1>7 DEF MarkInv

\* The steps in which the panel marks entries, and the Orchestrator takes from its queue.
LEMMA ClickMarks ==
  ASSUME QueueInv, MarkInv, NEW refused \in BOOLEAN,
         RunQueueClicked(refused) \/ RunDone(refused) \/ AbortClicked(refused)
  PROVE  MarkInv'
<1>1. qpEntries \in Seq(QueueEntries) /\ qpOpen
  BY DEF QueueInv, Listed, RunQueueClicked, RunDone, AbortClicked
<1>2. Drain(oqQueue, refused) =>
        \/ oqQueue = <<>> /\ oqQueue' = oqQueue /\ qpTaken' = qpTaken
        \/ oqQueue # <<>> /\ oqQueue' = Tail(oqQueue) /\ qpTaken' = qpTaken \cup {Head(oqQueue)}
  BY DEF Drain
<1>3. CASE qpAstray'
  BY <1>3 DEF MarkInv, RunningWasTaken, QueuedIsPending
<1>4. ASSUME ~qpAstray', RunQueueClicked(refused) PROVE MarkInv'
  <2>1. Drain(oqQueue, refused) /\ (qpAstray => qpAstray')
    BY <1>4 DEF RunQueueClicked
  <2>2. SameList(qpEntries, qpEntries')
    BY <1>1, <1>4, MarkedSame DEF RunQueueClicked, QueueStatuses
  <2>3. Marked(qpEntries, qpEntries')
    BY <1>1, <1>4, PromotedMarked DEF RunQueueClicked
  <2> QED
    BY <1>1, <1>2, <2>1, <2>2, <2>3, MarkedKeeps
<1>5. ASSUME ~qpAstray', NEW status \in {"done", "failed"}, Advance(status), Drain(oqQueue, refused), qpAstray => qpAstray'
      PROVE  MarkInv'
  <2>1. CASE ~qpRunning
    BY <1>2, <1>5, <2>1, UnmarkedKeeps DEF Advance, Drained
  <2>2. CASE qpRunning
    <3>1. Marked(qpEntries, qpEntries')
      BY <1>1, <1>5, <2>2, AdvancedMarked DEF Advance
    <3>2. SameList(qpEntries, qpEntries')
      BY <1>1, <1>5, AdvanceSame
    <3> QED
      BY <1>1, <1>2, <1>5, <3>1, <3>2, MarkedKeeps
  <2> QED
    BY <2>1, <2>2
<1>6. CASE ~qpAstray' /\ RunDone(refused)
  BY <1>5, <1>6 DEF RunDone
<1>7. CASE ~qpAstray' /\ AbortClicked(refused)
  BY <1>5, <1>7 DEF AbortClicked
<1> QED
  BY <1>3, <1>4, <1>6, <1>7

LEMMA StepMarks == ASSUME QueueInv, QueueInv', MarkInv, QueueNext PROVE MarkInv'
<1>1. ASSUME NEW refused \in BOOLEAN, RunQueueClicked(refused) \/ RunDone(refused) \/ AbortClicked(refused) PROVE MarkInv'
  BY <1>1, ClickMarks
<1>2. ASSUME NEW refused \in BOOLEAN, EndsUntold(refused) PROVE MarkInv'
  <2>1. Drained
    BY <1>2, DrainTakes DEF EndsUntold, Drained
  <2> QED
    BY <1>2, <2>1, UnmarkedKeeps DEF EndsUntold
<1>3. ASSUME NEW refused \in BOOLEAN, CloseWindow(refused) PROVE MarkInv'
  <2>1. Drained
    BY <1>3, DrainTakes DEF CloseWindow, Drained
  <2> QED
    BY <1>3, <2>1, UnmarkedKeeps DEF CloseWindow
<1>4. ASSUME NEW to, OrchestratorMoves(to) PROVE MarkInv'
  BY <1>4, UnmarkedKeeps DEF OrchestratorMoves, Drained
<1>5. ASSUME NEW refused \in BOOLEAN, RunNow(refused) PROVE MarkInv'
  <2>1. CASE qpAstray'
    BY <2>1 DEF MarkInv, RunningWasTaken, QueuedIsPending
  <2>2. CASE ~qpAstray'
    <3>1. qpEntries' = qpEntries /\ oqQueue' = oqQueue /\ qpTaken \subseteq qpTaken' /\ qpAstray' = qpAstray
      BY <1>5, <2>2 DEF RunNow
    <3> QED
      BY <3>1 DEF MarkInv, RunningWasTaken, QueuedIsPending, Indices
  <2> QED
    BY <2>1, <2>2
<1>6. CASE Reset
  BY <1>6 DEF Reset, MarkInv, RunningWasTaken, QueuedIsPending, Indices
<1>7. CASE Reopen
  BY <1>7, ReopenMarks
<1>8. ASSUME NEW built \in BOOLEAN, AddEntry(built) PROVE MarkInv'
  BY <1>8, AddEntryMarks
<1>9. ASSUME NEW i \in 1 .. MaxProcs, Move(i) \/ RemoveEntry(i) PROVE MarkInv'
  BY <1>9, MoveMarks, RemoveEntryMarks
<1> QED
  BY <1>1, <1>2, <1>3, <1>4, <1>5, <1>6, <1>7, <1>8, <1>9 DEF QueueNext

\* For any number of procedures, and every order of adding, moving, removing, running, aborting,
\* failing, closing and restoring: what the panel lists and what the Orchestrator will take
\* agree in their order, nothing removed waits to be run and nothing pending is forgotten; and
\* until a mark of the panel and the Orchestrator part, nothing is shown as running that was
\* not taken.
THEOREM QueuesAgreeHolds == QueueSpec => []QueuesAgree
<1>1. QueueInit => QueueInv /\ MarkInv
  <2>1. QueueInit => MarkInv
    BY DEF QueueInit, MarkInv, RunningWasTaken, QueuedIsPending, Indices
  <2> QED
    BY <2>1, InitAgrees
<1>2. QueueInv /\ MarkInv /\ [QueueNext]_qpVars => QueueInv' /\ MarkInv'
  <2>1. CASE QueueNext
    BY <2>1, StepAgrees, StepMarks
  <2>2. CASE UNCHANGED qpVars
    BY <2>2 DEF QueueInv, QueueTyped, Listed, FileRead, RemovedNeverRuns, OrderAgrees, NoPendingLost,
                MarkInv, RunningWasTaken, QueuedIsPending, Indices, Queued, qpVars
  <2> QED
    BY <2>1, <2>2
<1>3. QueueInv /\ MarkInv => QueuesAgree
  BY DEF QueueInv, MarkInv, QueuesAgree
<1> QED
  BY <1>1, <1>2, <1>3, PTL DEF QueueSpec

-----------------------------------------------------------------------------
(* The form of a sweep procedure.                                           *)

\* Choosing from a sequence leaves a sequence.
LEMMA ChosenType ==
  ASSUME NEW T, NEW s \in Seq(T), NEW keep
  PROVE  Chosen(s, keep) \in Seq(T)
<1> DEFINE N == Len(s)
           X == Seq(T)
           step == [p \in X \X (1 .. N) |-> IF s[p[2]] \in keep THEN Append(p[1], s[p[2]]) ELSE p[1]]
           Behind(f) == f = [k \in 0 .. N |-> IF k = 0 THEN <<>>
                                              ELSE IF s[k] \in keep THEN Append(f[k - 1], s[k]) ELSE f[k - 1]]
<1>1. N \in Nat /\ <<>> \in X
  OBVIOUS
<1>2. step \in [X \X (1 .. N) -> X]
  <2>1. ASSUME NEW p \in X \X (1 .. N)
        PROVE  (IF s[p[2]] \in keep THEN Append(p[1], s[p[2]]) ELSE p[1]) \in X
    <3>1. p[1] \in Seq(T) /\ s[p[2]] \in T
      OBVIOUS
    <3> QED
      BY <3>1
  <2> QED
    BY <2>1
<1>3. PICK g \in [0 .. N -> X] : Iterates(g, <<>>, N, step)
  <2> HIDE DEF step, X, N
  <2> QED
    BY <1>1, <1>2, IterationExists
<1>4. ASSUME NEW k \in 1 .. N
      PROVE  g[k] = IF s[k] \in keep THEN Append(g[k - 1], s[k]) ELSE g[k - 1]
  <2>1. k - 1 \in 0 .. N
    BY <1>1
  <2>2. g[k - 1] \in X
    BY <2>1
  <2>3. step[<<g[k - 1], k>>] = IF s[k] \in keep THEN Append(g[k - 1], s[k]) ELSE g[k - 1]
    <3> HIDE DEF X, N
    <3> QED
      BY <1>4, <2>2
  <2> HIDE DEF step, X, N
  <2> QED
    BY <1>3, <1>4, <2>3 DEF Iterates
<1>5. Behind(g)
  <2>1. \A k \in 0 .. N : g[k] = IF k = 0 THEN <<>> ELSE IF s[k] \in keep THEN Append(g[k - 1], s[k]) ELSE g[k - 1]
    <3>1. \A k \in 0 .. N : k = 0 \/ k \in 1 .. N
      BY <1>1
    <3> HIDE DEF step, X, N
    <3> QED
      BY <1>3, <1>4, <3>1 DEF Iterates
  <2>2. g = [k \in 0 .. N |-> g[k]]
    OBVIOUS
  <2> HIDE DEF X, N
  <2> QED
    BY <2>1, <2>2
<1> DEFINE F == CHOOSE f : Behind(f)
<1>6. Behind(F)
  <2> HIDE DEF Behind
  <2> QED
    BY <1>5
<1>7. Chosen(s, keep) = F[N]
  BY DEF Chosen
<1>8. F[0] = <<>> /\ \A k \in 1 .. N : F[k] = IF s[k] \in keep THEN Append(F[k - 1], s[k]) ELSE F[k - 1]
  <2>1. 0 \in 0 .. N /\ \A k \in 1 .. N : k \in 0 .. N /\ k # 0
    BY <1>1
  <2> HIDE DEF N, F, X, step
  <2> QED
    BY <1>6, <2>1
<1> DEFINE P == {k \in Nat : k <= N => F[k] \in X}
<1> HIDE DEF F, step, Behind
<1>9. 0 \in P
  BY <1>1, <1>8
<1>10. ASSUME NEW k \in P PROVE k + 1 \in P
  <2> SUFFICES ASSUME k + 1 <= N PROVE F[k + 1] \in X
    OBVIOUS
  <2>1. F[k] \in X /\ k + 1 \in 1 .. N /\ s[k + 1] \in T
    BY <1>1
  <2>2. F[k + 1] = IF s[k + 1] \in keep THEN Append(F[k], s[k + 1]) ELSE F[k]
    <3> HIDE DEF X, N
    <3> QED
      BY <1>8, <2>1
  <2> QED
    BY <2>1, <2>2
<1>11. P = Nat
  <2> HIDE DEF P
  <2>1. P \subseteq Nat
    BY DEF P
  <2> QED
    BY <1>9, <1>10, <2>1, NatInd
<1> QED
  BY <1>1, <1>7, <1>11

LEMMA OfferedSlotType ==
  ASSUME NEW registry \in SUBSET Qualified, NEW slot \in AllSlots
  PROVE  /\ OfferedSlot(registry, slot) \in AllSlots
         /\ OfferedSlot(registry, slot).q \in registry \cup {Off}
         /\ OfferedSlot(registry, slot).q # Off /\ SpecOf(OfferedSlot(registry, slot).q).enumerated =>
              OfferedSlot(registry, slot).picks \subseteq Range(SpecOf(OfferedSlot(registry, slot).q).choices)
<1> DEFINE picks == UNION {Range(SpecOf(q).choices) : q \in Qualified}
           offered == OfferedSlot(registry, slot)
<1>1. /\ slot.q \in Qualified \cup {Off} /\ slot.picks \in SUBSET picks /\ slot.text \in Texts \cup {<<>>}
      /\ AllSlots = [q : Qualified \cup {Off}, picks : SUBSET picks, text : Texts \cup {<<>>}]
      /\ slot = [q |-> slot.q, picks |-> slot.picks, text |-> slot.text]
  BY DEF AllSlots
<1> HIDE DEF picks
<1>2. CASE slot.q \notin registry
  <2>1. offered = [q |-> Off, picks |-> {}, text |-> <<>>]
    BY <1>2 DEF OfferedSlot
  <2> QED
    BY <1>1, <2>1
<1>3. CASE slot.q \in registry /\ SpecOf(slot.q).enumerated
  <2> DEFINE choices == Range(SpecOf(slot.q).choices)
  <2>1. offered = [q |-> slot.q, picks |-> slot.picks \cap choices, text |-> <<>>]
    BY <1>1, <1>3 DEF OfferedSlot
  <2> HIDE DEF choices
  <2>2. offered \in AllSlots /\ offered.q = slot.q /\ offered.picks \subseteq choices
    BY <1>1, <2>1
  <2> QED
    BY <1>3, <2>2 DEF choices
<1>4. CASE slot.q \in registry /\ ~SpecOf(slot.q).enumerated
  <2>1. offered = [q |-> slot.q, picks |-> {}, text |-> slot.text]
    BY <1>1, <1>4 DEF OfferedSlot
  <2>2. offered \in AllSlots /\ offered.q = slot.q
    BY <1>1, <2>1
  <2> QED
    BY <1>4, <2>2
<1> QED
  BY <1>2, <1>3, <1>4

LEMMA RegistryQualified ==
  \A scanner, vi : Registry(scanner, vi) \in SUBSET Qualified
  BY DEF Registry

\* A form has a measurement VI of the station and two slots.
LEMMA FormIsShown ==
  ASSUME NEW sel \in Forms
  PROVE  sel.vi \in Range(MeasurementVIs) /\ \A k \in 1 .. 2 : sel.slot[k] \in AllSlots
<1>1. PICK scanner \in BOOLEAN, vi \in Range(MeasurementVIs), s1 \in CanonicalSlots, s2 \in CanonicalSlots :
        sel = Offered(scanner, [vi |-> vi, slot |-> <<s1, s2>>])
  BY DEF Forms
<1>2. s1 \in AllSlots /\ s2 \in AllSlots
  <2>1. Qualified \in SUBSET Qualified
    OBVIOUS
  <2> QED
    BY <2>1, OfferedSlotType DEF CanonicalSlots
<1> DEFINE form == [vi |-> vi, slot |-> <<s1, s2>>]
           registry == Registry(scanner, vi)
<1>3. SelectedVI(form) = vi
  BY DEF SelectedVI
<1>4. sel = [vi |-> vi, slot |-> [k \in 1 .. 2 |-> OfferedSlot(registry, <<s1, s2>>[k])]]
  BY <1>1, <1>3 DEF Offered
<1>5. ASSUME NEW k \in 1 .. 2 PROVE sel.slot[k] \in AllSlots
  <2>1. <<s1, s2>>[k] \in AllSlots
    BY <1>2
  <2>2. sel.slot[k] = OfferedSlot(registry, <<s1, s2>>[k])
    BY <1>4
  <2> QED
    BY <2>1, <2>2, OfferedSlotType, RegistryQualified
<1> QED
  BY <1>4, <1>5

LEMMA SlotValuesType ==
  ASSUME NEW slot \in AllSlots, slot.q \in Qualified
  PROVE  SlotValues(slot) \in Seq(LoopValues)
<1>1. SpecOf(slot.q).choices \in Seq(LoopValues) /\ slot.text \in Seq(LoopValues)
  <2>1. slot.text \in Texts \cup {<<>>}
    BY DEF AllSlots
  <2>2. <<>> \in Seq(LoopValues)
    OBVIOUS
  <2> QED
    BY <2>1, <2>2, SweepAssumption
<1> QED
  BY <1>1, ChosenType DEF SlotValues, Entries

\* What the constructor takes: a slot in use has values, and the two are not the same.
LEMMA AcceptedType ==
  ASSUME NEW scanner \in BOOLEAN, NEW sel \in Accepted[scanner]
  PROVE  /\ sel \in Forms
         /\ \A k \in 1 .. 2 : sel.slot[k].q # Off =>
              /\ sel.slot[k].q \in Registry(scanner, sel.vi) /\ sel.slot[k].q \in Qualified
              /\ SlotValues(sel.slot[k]) \in Seq(LoopValues) /\ SlotValues(sel.slot[k]) # <<>>
              /\ SpecOf(sel.slot[k].q).enumerated \/ TextParses(SpecOf(sel.slot[k].q), sel.slot[k].text)
         /\ sel.slot[1].q = sel.slot[2].q => sel.slot[1].q = Off
<1>1. sel \in Forms /\ ~Refused(scanner, sel)
  BY DEF Accepted
<1>2. /\ \A k \in 1 .. 2 : ~SlotRefused(Registry(scanner, sel.vi), sel.slot[k])
      /\ sel.slot[1].q = sel.slot[2].q => sel.slot[1].q = Off
  BY <1>1 DEF Refused
<1>3. ASSUME NEW k \in 1 .. 2, sel.slot[k].q # Off
      PROVE  /\ sel.slot[k].q \in Registry(scanner, sel.vi) /\ sel.slot[k].q \in Qualified
             /\ SlotValues(sel.slot[k]) \in Seq(LoopValues) /\ SlotValues(sel.slot[k]) # <<>>
             /\ SpecOf(sel.slot[k].q).enumerated \/ TextParses(SpecOf(sel.slot[k].q), sel.slot[k].text)
  <2>1. sel.slot[k].q \in Registry(scanner, sel.vi) /\ SlotValues(sel.slot[k]) # <<>>
    BY <1>2, <1>3 DEF SlotRefused
  <2>2. SpecOf(sel.slot[k].q).enumerated \/ TextParses(SpecOf(sel.slot[k].q), sel.slot[k].text)
    BY <1>2, <1>3 DEF SlotRefused
  <2>3. sel.slot[k].q \in Qualified /\ sel.slot[k] \in AllSlots
    BY <1>1, <2>1, RegistryQualified, FormIsShown
  <2> QED
    BY <2>1, <2>2, <2>3, SlotValuesType
<1> QED
  BY <1>1, <1>2, <1>3

\* What is offered is refused for nothing that the operator could not see.
LEMMA OfferedHolds ==
  ASSUME prScanner \in BOOLEAN
  PROVE  OfferedIsAccepted
<1> SUFFICES ASSUME NEW f \in Forms,
                    Refused(prScanner, Offered(prScanner, f)),
                    LET sel == Offered(prScanner, f) IN
                      /\ sel.slot[1].q = sel.slot[2].q => sel.slot[1].q = Off
                      /\ \A k \in 1 .. 2 : sel.slot[k].q = Off \/
                           (SlotValues(sel.slot[k]) # <<>> /\ TextParses(SpecOf(sel.slot[k].q), sel.slot[k].text))
             PROVE FALSE
  BY DEF OfferedIsAccepted, RefusedOffers
<1> DEFINE sel == Offered(prScanner, f)
           registry == Registry(prScanner, f.vi)
<1>1. f.vi \in Range(MeasurementVIs) /\ \A k \in 1 .. 2 : f.slot[k] \in AllSlots
  BY FormIsShown
<1>2. sel = [vi |-> f.vi, slot |-> [k \in 1 .. 2 |-> OfferedSlot(registry, f.slot[k])]]
  BY <1>1 DEF Offered, SelectedVI
<1>3. PICK k \in 1 .. 2 : SlotRefused(registry, sel.slot[k])
  BY <1>1, <1>2 DEF Refused
<1>4. sel.slot[k] = OfferedSlot(registry, f.slot[k])
  BY <1>2
<1>5. /\ sel.slot[k].q # Off => sel.slot[k].q \in registry
      /\ sel.slot[k].q # Off /\ SpecOf(sel.slot[k].q).enumerated =>
           sel.slot[k].picks \subseteq Range(SpecOf(sel.slot[k].q).choices)
  BY <1>1, <1>4, OfferedSlotType, RegistryQualified
<1> HIDE DEF sel, registry
<1> QED
  BY <1>3, <1>5 DEF SlotRefused, sel

-----------------------------------------------------------------------------
(* The settings of a run.                                                   *)

Settings == [Qualified -> LoopValues \cup {NoValue}]

\* The run that is built: its slots are on different parameters and have values.
RunTyped ==
  /\ InUse \subseteq 1 .. 2
  /\ \A k \in InUse :
       /\ prRun.slots[k].q \in Qualified
       /\ prRun.slots[k].values \in Seq(LoopValues) /\ prRun.slots[k].values # <<>>
  /\ \A k, n \in InUse : k # n => prRun.slots[k].q # prRun.slots[n].q
  /\ prRun.points \in Nat
  /\ prRun.labels = LoopShape

LEMMA ShapeIsPositive == RunTyped => \A k \in 1 .. 2 : LoopShape[k] \in Nat \ {0}
<1> SUFFICES ASSUME RunTyped, NEW k \in 1 .. 2 PROVE LoopLength(k) \in Nat \ {0}
  BY DEF LoopShape
<1>1. CASE k \in InUse
  <2> DEFINE values == prRun.slots[k].values
  <2>1. values \in Seq(LoopValues) /\ values # <<>>
    BY <1>1 DEF RunTyped
  <2>2. Len(values) \in Nat /\ Len(values) # 0
    <3> HIDE DEF values
    <3> QED
      BY <2>1
  <2> QED
    BY <1>1, <2>2 DEF LoopLength
<1>2. CASE k \notin InUse
  BY <1>2 DEF LoopLength
<1> QED
  BY <1>1, <1>2

\* A command to one parameter leaves the others.
LEMMA AssignSets ==
  ASSUME RunTyped, NEW set \in Settings, NEW axis \in InUse, NEW k \in 1 .. LoopLength(axis)
  PROVE  /\ Assign(set, axis, k) \in Settings
         /\ \A c \in InUse : Assign(set, axis, k)[prRun.slots[c].q] =
              IF c = axis THEN prRun.slots[axis].values[k] ELSE set[prRun.slots[c].q]
         /\ \A q \in Qualified : set[q] # NoValue => Assign(set, axis, k)[q] # NoValue
<1> DEFINE own == prRun.slots[axis].q
           values == prRun.slots[axis].values
           after == [set EXCEPT ![own] = values[k]]
<1>1. own \in Qualified /\ values \in Seq(LoopValues) /\ k \in 1 .. Len(values)
  BY DEF RunTyped, LoopLength
<1>2. values[k] \in LoopValues /\ values[k] # NoValue
  <2>1. values[k] \in LoopValues
    <3> HIDE DEF values
    <3> QED
      BY <1>1
  <2> QED
    BY <2>1, SweepAssumption
<1> DEFINE value == values[k]
<1> HIDE DEF own, values, value
<1>3. after \in Settings /\ \A q \in Qualified : after[q] = IF q = own THEN value ELSE set[q]
  BY <1>1, <1>2 DEF Settings, value
<1>4. Assign(set, axis, k) = after
  BY DEF Assign, own, values
<1>5. \A c \in InUse : prRun.slots[c].q \in Qualified /\ (prRun.slots[c].q = own <=> c = axis)
  BY DEF RunTyped, own
<1> HIDE DEF after
<1>6. \A q \in Qualified : set[q] # NoValue => after[q] # NoValue
  BY <1>2, <1>3 DEF value
<1>7. \A c \in InUse : after[prRun.slots[c].q] = IF c = axis THEN value ELSE set[prRun.slots[c].q]
  BY <1>3, <1>5
<1> QED
  BY <1>3, <1>4, <1>6, <1>7 DEF value, values

LEMMA DispatchSets ==
  ASSUME RunTyped, NEW set \in Settings, NEW axis \in 1 .. 2, NEW k \in 1 .. LoopLength(axis)
  PROVE  /\ Dispatched(set, axis, k) \in Settings
         /\ \A c \in InUse : Dispatched(set, axis, k)[prRun.slots[c].q] =
              IF c = axis /\ IsLevel(prRun.slots[c]) THEN prRun.slots[c].values[k] ELSE set[prRun.slots[c].q]
         /\ \A q \in Qualified : set[q] # NoValue => Dispatched(set, axis, k)[q] # NoValue
<1>1. CASE axis \in InUse /\ IsLevel(prRun.slots[axis])
  <2>1. Dispatched(set, axis, k) = Assign(set, axis, k)
    BY <1>1 DEF Dispatched
  <2> DEFINE after == Assign(set, axis, k)
  <2>2. axis \in InUse
    BY <1>1
  <2>3. after \in Settings /\ \A q \in Qualified : set[q] # NoValue => after[q] # NoValue
    BY <2>2, AssignSets
  <2>4. \A c \in InUse : after[prRun.slots[c].q] =
          IF c = axis THEN prRun.slots[axis].values[k] ELSE set[prRun.slots[c].q]
    BY <2>2, AssignSets
  <2> HIDE DEF after
  <2>5. Dispatched(set, axis, k) = after
    BY <2>1 DEF after
  <2>6. ASSUME NEW c \in InUse
        PROVE  after[prRun.slots[c].q] =
                 IF c = axis /\ IsLevel(prRun.slots[c]) THEN prRun.slots[c].values[k] ELSE set[prRun.slots[c].q]
    BY <1>1, <2>4
  <2> QED
    BY <2>3, <2>5, <2>6
<1>2. CASE ~(axis \in InUse /\ IsLevel(prRun.slots[axis]))
  <2>1. Dispatched(set, axis, k) = set
    BY <1>2 DEF Dispatched
  <2> QED
    BY <1>2, <2>1
<1> QED
  BY <1>1, <1>2

\* What a reading is taken with: every level at its own index, every other slot untouched.
LEMMA SettingSets ==
  ASSUME RunTyped, NEW set \in Settings, NEW r \in Readings
  PROVE  /\ SettingAt(set, r[1], r[2]) \in Settings
         /\ \A c \in InUse : SettingAt(set, r[1], r[2])[prRun.slots[c].q] =
              IF IsLevel(prRun.slots[c]) THEN prRun.slots[c].values[r[c]] ELSE set[prRun.slots[c].q]
         /\ \A q \in Qualified : set[q] # NoValue => SettingAt(set, r[1], r[2])[q] # NoValue
<1>1. r[1] \in 1 .. LoopLength(1) /\ r[2] \in 1 .. LoopLength(2)
  BY DEF Readings, LoopShape
<1> DEFINE outer == Dispatched(set, 1, r[1])
           inner == Dispatched(outer, 2, r[2])
<1>2. /\ outer \in Settings
      /\ \A c \in InUse : outer[prRun.slots[c].q] =
           IF c = 1 /\ IsLevel(prRun.slots[c]) THEN prRun.slots[c].values[r[1]] ELSE set[prRun.slots[c].q]
      /\ \A q \in Qualified : set[q] # NoValue => outer[q] # NoValue
  BY <1>1, DispatchSets
<1> HIDE DEF outer
<1>3. /\ inner \in Settings
      /\ \A c \in InUse : inner[prRun.slots[c].q] =
           IF c = 2 /\ IsLevel(prRun.slots[c]) THEN prRun.slots[c].values[r[2]] ELSE outer[prRun.slots[c].q]
      /\ \A q \in Qualified : outer[q] # NoValue => inner[q] # NoValue
  BY <1>1, <1>2, DispatchSets
<1>4. SettingAt(set, r[1], r[2]) = inner
  BY DEF SettingAt, outer
<1> HIDE DEF inner
<1>5. \A c \in InUse : c = 1 \/ c = 2
  BY DEF RunTyped
<1>6. ASSUME NEW c \in InUse
      PROVE inner[prRun.slots[c].q] =
              IF IsLevel(prRun.slots[c]) THEN prRun.slots[c].values[r[c]] ELSE set[prRun.slots[c].q]
  BY <1>2, <1>3, <1>5, <1>6
<1> QED
  BY <1>2, <1>3, <1>4, <1>6

LEMMA FirstSets ==
  ASSUME RunTyped, NEW set \in Settings, NEW axes \in SUBSET InUse
  PROVE  /\ AssignFirst(set, axes) \in Settings
         /\ \A c \in InUse : AssignFirst(set, axes)[prRun.slots[c].q] =
              IF c \in axes THEN prRun.slots[c].values[1] ELSE set[prRun.slots[c].q]
<1> DEFINE outer == IF 1 \in axes THEN Assign(set, 1, 1) ELSE set
           both == IF 2 \in axes THEN Assign(outer, 2, 1) ELSE outer
<1>1. \A c \in InUse : (c = 1 \/ c = 2) /\ 1 \in 1 .. LoopLength(c)
  BY ShapeIsPositive DEF RunTyped, LoopShape
<1>2. /\ outer \in Settings
      /\ \A c \in InUse : outer[prRun.slots[c].q] =
           IF c = 1 /\ c \in axes THEN prRun.slots[c].values[1] ELSE set[prRun.slots[c].q]
  <2>1. CASE 1 \in axes
    BY <1>1, <2>1, AssignSets
  <2>2. CASE 1 \notin axes
    BY <2>2
  <2> QED
    BY <2>1, <2>2
<1> HIDE DEF outer
<1>3. /\ both \in Settings
      /\ \A c \in InUse : both[prRun.slots[c].q] =
           IF c = 2 /\ c \in axes THEN prRun.slots[c].values[1] ELSE outer[prRun.slots[c].q]
  <2>1. CASE 2 \in axes
    BY <1>1, <1>2, <2>1, AssignSets
  <2>2. CASE 2 \notin axes
    BY <1>2, <2>2
  <2> QED
    BY <2>1, <2>2
<1>4. AssignFirst(set, axes) = both
  BY DEF AssignFirst, outer
<1> HIDE DEF both
<1> QED
  BY <1>1, <1>2, <1>3, <1>4

\* Behind initiate() a slot that is set once has its value: of the scanner from before the
\* instrument was armed, of the instrument from behind it.
LEMMA InitialSets ==
  ASSUME RunTyped, NEW set \in Settings
  PROVE  /\ InitialSettings(set) \in Settings
         /\ \A c \in InUse : ~IsLevel(prRun.slots[c]) =>
              InitialSettings(set)[prRun.slots[c].q] = prRun.slots[c].values[1]
<1> DEFINE others == {k \in InUse : prRun.slots[k].q[1] # prRun.vi}
           single == {k \in InUse \ others : ~IsLevel(prRun.slots[k])}
           before == AssignFirst(set, others)
           armed == ArmedWith(before, prRun.vi)
           behind == AssignFirst(armed, single)
<1>1. others \in SUBSET InUse /\ single \in SUBSET InUse
  OBVIOUS
<1>2. before \in Settings /\ \A c \in others : before[prRun.slots[c].q] = prRun.slots[c].values[1]
  <2> HIDE DEF others
  <2> QED
    BY <1>1, FirstSets
<1>3. armed \in Settings /\ \A c \in others : armed[prRun.slots[c].q] = before[prRun.slots[c].q]
  <2> HIDE DEF before
  <2>1. armed \in Settings
    BY <1>2 DEF ArmedWith, Settings
  <2>2. \A c \in others : prRun.slots[c].q \in Qualified /\ prRun.slots[c].q[1] # prRun.vi
    BY DEF RunTyped
  <2> QED
    BY <2>1, <2>2 DEF ArmedWith
<1>4. /\ behind \in Settings
      /\ \A c \in InUse : behind[prRun.slots[c].q] =
           IF c \in single THEN prRun.slots[c].values[1] ELSE armed[prRun.slots[c].q]
  <2> HIDE DEF others, single, armed
  <2> QED
    BY <1>1, <1>3, FirstSets
<1>5. InitialSettings(set) = behind
  BY DEF InitialSettings
<1>6. \A c \in InUse : ~IsLevel(prRun.slots[c]) => c \in single \/ c \in others
  OBVIOUS
<1>7. \A c \in others : c \notin single
  OBVIOUS
<1> HIDE DEF others, single, before, armed, behind
<1> QED
  BY <1>1, <1>2, <1>3, <1>4, <1>5, <1>6, <1>7

-----------------------------------------------------------------------------
(* The file of a run.                                                       *)

Rows == [index : Nat, asked : Nat, grid : [Readings -> [InUse -> LoopValues \cup {NoValue}]]]
RunFiles == [rows : Seq(Rows), partial : BOOLEAN, open : BOOLEAN, kept : BOOLEAN, length : Nat, shape : [1 .. 2 -> Nat]]

\* A row is the n-th point, taken where and with what was asked.
RowRight(row, n) ==
  /\ row.index = n
  /\ Swept(prRun) # {} => row.asked = n
  /\ \A r \in Readings, k \in InUse :
       row.grid[r][k] = prRun.slots[k].values[IF IsLevel(prRun.slots[k]) THEN r[k] ELSE 1]
RowsRight == \A n \in DOMAIN prFile.rows : RowRight(prFile.rows[n], n)

\* A run that is under way has its file open, and saved every point but the one it reads.
UnderWay ==
  /\ prIndex \in 1 .. prRun.points
  /\ prAsked = Asked(prIndex)
  /\ prFile.open = TRUE /\ prFile.kept = TRUE /\ prFile.length = prRun.points
  /\ Len(prFile.rows) = IF prPhase = "started" THEN prIndex - 1 ELSE prIndex
  /\ \A k \in InUse : ~IsLevel(prRun.slots[k]) => prSet[prRun.slots[k].q] = prRun.slots[k].values[1]

Shut(file) ==
  /\ file.open = FALSE \/ file.kept = FALSE
  /\ file.rows # <<>> => file.length = Len(file.rows) /\ file.partial = FALSE

ProcedureInv ==
  /\ prScanner \in BOOLEAN
  /\ prPhase \in {"idle", "built", "started", "stepped", "ended", "failed"}
  /\ prFile \in RunFiles /\ prSet \in Settings
  /\ prPhase = "idle" => prRun = NoRun
  /\ prPhase # "idle" => RunTyped
  /\ prPhase \in {"idle", "built"} => prFile = NoFile /\ prIndex = 1
  /\ prPhase \in {"started", "stepped"} => UnderWay
  /\ prPhase \in {"ended", "failed"} => Shut(prFile)
  /\ RowsRight

\* What a step does to the instruments: SourceOffBeforeScanner of one step.
SparesSample ==
  prPhase # "built" =>
    \A q \in Qualified : q[1] = ScannerVI /\ prSet[q] # NoValue /\ prSet'[q] = NoValue => prRun.vi \notin prArmed'

LEMMA NoFileType == NoFile \in RunFiles /\ NoFile.rows = <<>> /\ Shut(NoFile)
<1>1. <<>> \in Seq(Rows) /\ <<1, 1>> \in [1 .. 2 -> Nat]
  OBVIOUS
<1> HIDE DEF Rows
<1> QED
  BY <1>1 DEF NoFile, RunFiles, Shut

\* A run that stays keeps its shape, and what was right of its rows.
LEMMA RunStays ==
  ASSUME prRun' = prRun
  PROVE  /\ RunTyped => RunTyped'
         /\ Readings' = Readings /\ InUse' = InUse /\ RunFiles' = RunFiles /\ LoopShape' = LoopShape
         /\ \A row, n : RowRight(row, n)' <=> RowRight(row, n)
<1>1. InUse' = InUse
  BY DEF InUse
<1>2. LoopShape' = LoopShape
  BY <1>1 DEF LoopShape, LoopLength
<1>3. Readings' = Readings
  BY <1>2 DEF Readings
<1>4. RunFiles' = RunFiles
  BY <1>1, <1>3 DEF RunFiles, Rows
<1>5. \A row, n : RowRight(row, n)' <=> RowRight(row, n)
  BY <1>1, <1>3 DEF RowRight, Swept
<1>6. RunTyped => RunTyped'
  BY <1>1, <1>2 DEF RunTyped
<1> QED
  BY <1>1, <1>2, <1>3, <1>4, <1>5, <1>6

LEMMA RowsStay ==
  ASSUME RowsRight, prRun' = prRun, prFile'.rows = prFile.rows
  PROVE  RowsRight'
  BY RunStays DEF RowsRight

LEMMA NoRowsRight == prFile.rows = <<>> => RowsRight
  BY DEF RowsRight

LEMMA NewFile == prFile = NoFile => prFile \in RunFiles /\ RowsRight
  BY NoFileType, NoRowsRight

LEMMA ClosedShuts ==
  ASSUME NEW file \in RunFiles, Len(file.rows) <= file.length
  PROVE  Closed(file) \in RunFiles /\ Closed(file).rows = file.rows /\ Shut(Closed(file))
<1> DEFINE cut == IF file.rows # <<>> /\ Len(file.rows) < file.length THEN Len(file.rows) ELSE file.length
           part == file.partial /\ file.rows = <<>>
<1>1. /\ file.rows \in Seq(Rows) /\ file.partial \in BOOLEAN /\ file.length \in Nat /\ file.shape \in [1 .. 2 -> Nat]
      /\ file.kept \in BOOLEAN
      /\ file = [rows |-> file.rows, partial |-> file.partial, open |-> file.open, kept |-> file.kept,
                 length |-> file.length, shape |-> file.shape]
  <2> HIDE DEF Rows
  <2> QED
    BY DEF RunFiles
<1>2. Len(file.rows) \in Nat
  BY <1>1
<1>3. cut \in Nat /\ (file.rows # <<>> => cut = Len(file.rows))
  BY <1>1, <1>2
<1>4. part \in BOOLEAN /\ (file.rows # <<>> => part = FALSE)
  <2>1. part \in BOOLEAN
    OBVIOUS
  <2>2. file.rows # <<>> => part = FALSE
    BY Zenon
  <2> QED
    BY <2>1, <2>2
<1> HIDE DEF cut, part, Rows
<1>5. Closed(file) = [file EXCEPT !.open = FALSE, !.length = cut, !.partial = part]
  BY DEF Closed, cut, part
<1>6. Closed(file) = [rows |-> file.rows, partial |-> part, open |-> FALSE, kept |-> file.kept, length |-> cut, shape |-> file.shape]
  BY <1>1, <1>5
<1> QED
  BY <1>1, <1>3, <1>4, <1>6 DEF RunFiles, Shut

LEMMA SafeOffSpares ==
  ASSUME NEW armed, NEW set \in Settings, NEW done, SafeOff(armed, set, done)
  PROVE  /\ prSet' \in Settings
         /\ \A q \in Qualified : set[q] # NoValue /\ prSet'[q] = NoValue => prRun.vi \notin prArmed'
  BY DEF SafeOff, Settings

-----------------------------------------------------------------------------
(* The steps of a run.                                                      *)

LEMMA ProcedureInitInv == ProcedureInit => ProcedureInv
<1> SUFFICES ASSUME ProcedureInit PROVE ProcedureInv
  OBVIOUS
<1>1. prSet \in Settings
  BY DEF ProcedureInit, Unset, Settings
<1>2. prFile = NoFile /\ prPhase = "idle" /\ prRun = NoRun /\ prIndex = 1 /\ prScanner = TRUE
  BY DEF ProcedureInit
<1> QED
  BY <1>1, <1>2, NoFileType, NoRowsRight DEF ProcedureInv

\* The constructor builds the run that the form shows, with its labels.
LEMMA BuildStep ==
  ASSUME ProcedureInv, NEW sel \in Accepted[prScanner], NEW kind \in SweepKinds, NEW n \in 0 .. PointsBound,
         NEW toggles, Build(sel, kind, n, toggles)
  PROVE  ProcedureInv' /\ SparesSample
<1>1. /\ prScanner \in BOOLEAN /\ prPhase = "idle" /\ prPhase' = "built"
      /\ prFile' = NoFile /\ prIndex' = 1 /\ prScanner' = prScanner /\ prSet' = prSet
      /\ prRun' = [vi |-> sel.vi, slots |-> Slots(sel), kind |-> kind, toggles |-> toggles,
                   points |-> SweepLength(kind, n), labels |-> LoopLabels(prScanner, sel)]
  BY DEF Build, ProcedureInv
<1> DEFINE slots == Slots(sel)
<1>2. /\ prRun'.slots = slots /\ InUse' = DOMAIN slots
      /\ DOMAIN slots = {k \in 1 .. 2 : sel.slot[k].q # Off}
      /\ \A k \in DOMAIN slots : slots[k].q = sel.slot[k].q /\ slots[k].values = SlotValues(sel.slot[k])
  BY <1>1 DEF Slots, InUse
<1>3. \A k \in DOMAIN slots :
        /\ sel.slot[k].q \in Registry(prScanner, sel.vi) /\ sel.slot[k].q \in Qualified
        /\ SlotValues(sel.slot[k]) \in Seq(LoopValues) /\ SlotValues(sel.slot[k]) # <<>>
        /\ SpecOf(sel.slot[k].q).enumerated \/ TextParses(SpecOf(sel.slot[k].q), sel.slot[k].text)
  BY <1>1, <1>2, AcceptedType
<1>4. \A k, m \in DOMAIN slots : k # m => slots[k].q # slots[m].q
  <2>1. sel.slot[1].q = sel.slot[2].q => sel.slot[1].q = Off
    BY <1>1, AcceptedType
  <2> QED
    BY <1>2, <2>1
<1>5. SweepLength(kind, n) \in Nat
  BY SweepAssumption DEF SweepLength
<1> HIDE DEF slots
<1>6. \A k \in 1 .. 2 : LoopLabels(prScanner, sel)[k] = LoopLength(k)'
  <2> DEFINE registry == Registry(prScanner, sel.vi)
             labelled(slot) == IF slot.q \notin registry \/ (~SpecOf(slot.q).enumerated /\ ~TextParses(SpecOf(slot.q), slot.text))
                               THEN 0 ELSE Len(SlotValues(slot))
  <2>1. SelectedVI(sel) = sel.vi
    BY <1>1, AcceptedType, FormIsShown DEF SelectedVI
  <2>2. LoopLabels(prScanner, sel) = [k \in 1 .. 2 |-> IF labelled(sel.slot[k]) < 2 THEN 1 ELSE labelled(sel.slot[k])]
    BY <2>1 DEF LoopLabels
  <2> SUFFICES ASSUME NEW k \in 1 .. 2
               PROVE  (IF labelled(sel.slot[k]) < 2 THEN 1 ELSE labelled(sel.slot[k])) = LoopLength(k)'
    BY <2>2
  <2>3. CASE k \in DOMAIN slots
    <3> DEFINE values == SlotValues(sel.slot[k])
    <3>1. labelled(sel.slot[k]) = Len(values)
      BY <1>3, <2>3
    <3>2. values \in Seq(LoopValues) /\ values # <<>>
      BY <1>3, <2>3
    <3>3. LoopLength(k)' = Len(values)
      BY <1>1, <1>2, <2>3 DEF LoopLength
    <3> HIDE DEF values, labelled
    <3>4. Len(values) \in Nat /\ Len(values) # 0
      BY <3>2
    <3> QED
      BY <3>1, <3>3, <3>4
  <2>4. CASE k \notin DOMAIN slots
    <3>1. sel.slot[k].q = Off /\ sel.slot[k].q \notin registry
      BY <1>2, <2>4, RegistryQualified, SweepAssumption
    <3>2. LoopLength(k)' = 1
      BY <1>2, <2>4 DEF LoopLength
    <3> QED
      BY <3>1, <3>2
  <2> QED
    BY <2>3, <2>4
<1>7. prRun'.labels = LoopShape'
  <2>1. LoopShape' = [k \in 1 .. 2 |-> LoopLength(k)']
    BY DEF LoopShape
  <2>2. \E f : LoopLabels(prScanner, sel) = [k \in 1 .. 2 |-> f[k]]
    <3>1. LoopLabels(prScanner, sel) = [k \in 1 .. 2 |-> LoopLabels(prScanner, sel)[k]]
      BY DEF LoopLabels
    <3> QED
      BY <3>1
  <2>3. LoopLabels(prScanner, sel) = [k \in 1 .. 2 |-> LoopLength(k)']
    BY <1>6, <2>2
  <2> QED
    BY <1>1, <2>1, <2>3
<1>8. RunTyped'
  BY <1>1, <1>2, <1>3, <1>4, <1>5, <1>7 DEF RunTyped
<1>9. (prFile \in RunFiles)' /\ RowsRight'
  <2>1. (prFile = NoFile)'
    BY <1>1
  <2>2. (prFile = NoFile => prFile \in RunFiles /\ RowsRight)'
    BY NewFile, PTL
  <2> QED
    BY <2>1, <2>2
<1>10. prSet' \in Settings
  BY <1>1 DEF ProcedureInv
<1> QED
  BY <1>1, <1>8, <1>9, <1>10 DEF ProcedureInv, SparesSample, Settings

LEMMA DropStep == ProcedureInv /\ (Drop \/ ToggleScanner) => ProcedureInv' /\ SparesSample
<1>1. ASSUME ProcedureInv, Drop PROVE ProcedureInv' /\ SparesSample
  <2>1. /\ prScanner' = prScanner /\ prRun' = NoRun /\ prFile' = NoFile /\ prPhase' = "idle" /\ prIndex' = 1
        /\ prSet' = prSet
    BY <1>1 DEF Drop
  <2>2. (prFile = NoFile)'
    BY <2>1
  <2>3. (prFile = NoFile => prFile \in RunFiles /\ RowsRight)'
    BY NewFile, PTL
  <2>4. prScanner \in BOOLEAN /\ prSet' \in Settings
    BY <1>1, <2>1 DEF ProcedureInv
  <2> QED
    BY <2>1, <2>2, <2>3, <2>4 DEF ProcedureInv, SparesSample, Settings
<1>2. ASSUME ProcedureInv, ToggleScanner PROVE ProcedureInv' /\ SparesSample
  <2>1. /\ prScanner' \in BOOLEAN /\ prRun' = prRun /\ prFile' = prFile /\ prPhase' = prPhase /\ prIndex' = prIndex
        /\ prSet' = prSet /\ prPhase \in {"idle", "built"}
    BY <1>2 DEF ToggleScanner, ProcedureInv
  <2>2. RowsRight' /\ RunFiles' = RunFiles /\ (RunTyped => RunTyped')
    BY <1>2, <2>1, RunStays, RowsStay DEF ProcedureInv
  <2>3. prFile \in RunFiles /\ prSet \in Settings
    BY <1>2 DEF ProcedureInv
  <2> QED
    BY <1>2, <2>1, <2>2, <2>3 DEF ProcedureInv, SparesSample, Settings
<1> QED
  BY <1>1, <1>2

\* The file that initiate() creates has a row for every point, and none yet.
LEMMA CreatedType ==
  ASSUME RunTyped
  PROVE  /\ Created \in RunFiles /\ Created.rows = <<>> /\ Created.length = prRun.points
         /\ Created.open = TRUE /\ Created.kept = TRUE
         /\ Left \in RunFiles /\ Left.rows = <<>> /\ Shut(Left)
         /\ Closed(Created) \in RunFiles /\ Closed(Created).rows = <<>> /\ Shut(Closed(Created))
<1>1. prRun.points \in Nat /\ LoopShape \in [1 .. 2 -> Nat] /\ <<>> \in Seq(Rows)
  <2>1. LoopShape = [k \in 1 .. 2 |-> LoopLength(k)]
    BY DEF LoopShape
  <2>2. \A k \in 1 .. 2 : LoopShape[k] \in Nat
    BY ShapeIsPositive
  <2> QED
    BY <2>1, <2>2 DEF RunTyped
<1> HIDE DEF Rows
<1>2. /\ Created \in RunFiles /\ Created.rows = <<>> /\ Created.length = prRun.points
      /\ Created.open = TRUE /\ Created.kept = TRUE
  BY <1>1 DEF Created, RunFiles
<1>4. Left \in RunFiles /\ Left.rows = <<>> /\ Shut(Left)
  BY <1>2 DEF Left, RunFiles, Shut
<1>3. Len(Created.rows) <= Created.length
  BY <1>1, <1>2
<1> QED
  BY <1>2, <1>3, <1>4, ClosedShuts

LEMMA InitiateStep == ProcedureInv /\ Initiate => ProcedureInv' /\ SparesSample
<1> SUFFICES ASSUME ProcedureInv, Initiate PROVE ProcedureInv' /\ SparesSample
  OBVIOUS
<1>1. /\ prPhase = "built" /\ prRun.points >= 1 /\ prFile' = Created /\ prSet' = InitialSettings(Unset)
      /\ prAsked' = Asked(1) /\ prPhase' = "started" /\ prScanner' = prScanner /\ prRun' = prRun /\ prIndex' = prIndex
  BY DEF Initiate
<1>2. RunTyped /\ prIndex = 1 /\ prFile = NoFile /\ prScanner \in BOOLEAN /\ prRun.points \in Nat
  BY <1>1 DEF ProcedureInv, RunTyped
<1>3. /\ prFile' \in RunFiles /\ prFile'.rows = <<>> /\ prFile'.length = prRun.points
      /\ prFile'.open = TRUE /\ prFile'.kept = TRUE
  BY <1>1, <1>2, CreatedType
<1>4. /\ prSet' \in Settings
      /\ \A k \in InUse : ~IsLevel(prRun.slots[k]) => prSet'[prRun.slots[k].q] = prRun.slots[k].values[1]
  <2>1. Unset \in Settings
    BY DEF Unset, Settings
  <2> QED
    BY <1>1, <1>2, <2>1, InitialSets
<1>5. RunTyped' /\ RunFiles' = RunFiles /\ InUse' = InUse
  BY <1>1, <1>2, RunStays
<1>6. RowsRight'
  <2>1. (prFile.rows = <<>>)'
    BY <1>3
  <2>2. (prFile.rows = <<>> => RowsRight)'
    BY NoRowsRight, PTL
  <2> QED
    BY <2>1, <2>2
<1>7. Len(prFile'.rows) = prIndex' - 1
  BY <1>1, <1>2, <1>3
<1>8. UnderWay'
  BY <1>1, <1>2, <1>3, <1>4, <1>5, <1>7 DEF UnderWay, Asked, Swept, IsLevel
<1> QED
  BY <1>1, <1>2, <1>3, <1>4, <1>5, <1>6, <1>8 DEF ProcedureInv, SparesSample, Settings

\* A run that fails or ends: its file is shut with the rows it had.
LEMMA EndStep ==
  ASSUME ProcedureInv, prPhase # "idle", prPhase' \in {"ended", "failed"}, prRun' = prRun, prScanner' = prScanner,
         prFile' \in RunFiles, Shut(prFile'), prFile'.rows = prFile.rows, prSet' \in Settings
  PROVE  ProcedureInv'
<1>1. RunTyped' /\ RunFiles' = RunFiles /\ RowsRight'
  BY RunStays, RowsStay DEF ProcedureInv
<1>2. prPhase' # "idle" /\ prPhase' # "built" /\ prPhase' # "started" /\ prPhase' # "stepped"
  OBVIOUS
<1>3. prScanner \in BOOLEAN /\ Shut(prFile)'
  BY DEF ProcedureInv, Shut
<1> QED
  BY <1>1, <1>2, <1>3 DEF ProcedureInv, Settings

LEMMA InitiateFailsStep ==
  ASSUME ProcedureInv, NEW armed \in BOOLEAN, NEW done \in 0 .. 2, InitiateFails(armed, done)
  PROVE  ProcedureInv' /\ SparesSample
<1>1. /\ prPhase = "built" /\ prPhase' = "failed" /\ prScanner' = prScanner /\ prRun' = prRun
      /\ prFile' \in {NoFile, Left, Closed(Created)}
      /\ SafeOff(IF armed THEN prArmed \cup {prRun.vi} ELSE prArmed,
                 IF armed THEN InitialSettings(Unset) ELSE Unset, done)
  BY DEF InitiateFails, FileAfterRaise
<1>2. RunTyped /\ prFile = NoFile
  BY <1>1 DEF ProcedureInv
<1>3. prFile' \in RunFiles /\ prFile'.rows = prFile.rows /\ Shut(prFile')
  BY <1>1, <1>2, CreatedType, NoFileType
<1>4. prSet' \in Settings
  <2>1. Unset \in Settings
    BY DEF Unset, Settings
  <2>2. (IF armed THEN InitialSettings(Unset) ELSE Unset) \in Settings
    BY <1>2, <2>1, InitialSets
  <2> QED
    BY <1>1, <2>2, SafeOffSpares
<1> QED
  BY <1>1, <1>3, <1>4, EndStep DEF SparesSample

\* A file under way has room for the rows it has.
LEMMA RoomForRows ==
  ASSUME ProcedureInv, prPhase \in {"started", "stepped"}
  PROVE  /\ RunTyped /\ UnderWay /\ prFile \in RunFiles /\ Len(prFile.rows) <= prFile.length
         /\ prFile.rows \in Seq(Rows) /\ Len(prFile.rows) \in Nat /\ prRun.points \in Nat
         /\ prIndex \in Nat /\ prSet \in Settings
         /\ Closed(prFile) \in RunFiles /\ Closed(prFile).rows = prFile.rows /\ Shut(Closed(prFile))
<1>1. RunTyped /\ UnderWay /\ prFile \in RunFiles /\ prSet \in Settings
  BY DEF ProcedureInv
<1>2. prFile.rows \in Seq(Rows) /\ prRun.points \in Nat
  <2> HIDE DEF Rows
  <2> QED
    BY <1>1 DEF RunFiles, RunTyped
<1>3. Len(prFile.rows) \in Nat
  BY <1>2
<1>4. prIndex \in Nat /\ Len(prFile.rows) <= prFile.length
  BY <1>1, <1>2, <1>3 DEF UnderWay
<1> QED
  BY <1>1, <1>2, <1>3, <1>4, ClosedShuts

LEMMA MeasureStep == ProcedureInv /\ Measure => ProcedureInv' /\ SparesSample
<1> SUFFICES ASSUME ProcedureInv, Measure PROVE ProcedureInv' /\ SparesSample
  OBVIOUS
<1> DEFINE row == [index |-> prIndex, asked |-> prAsked, grid |-> Grid]
           rows == prFile.rows
           n == Len(rows)
<1>1. /\ prPhase = "started" /\ prPhase' = "stepped" /\ prSet' = LastSetting(prSet)
      /\ prScanner' = prScanner /\ prRun' = prRun /\ prIndex' = prIndex /\ prAsked' = prAsked
      /\ prFile' = [prFile EXCEPT !.rows = Append(rows, row), !.partial = FALSE]
  BY DEF Measure
<1>2. /\ RunTyped /\ UnderWay /\ prFile \in RunFiles /\ rows \in Seq(Rows) /\ n \in Nat /\ prIndex \in Nat
      /\ prSet \in Settings /\ prRun.points \in Nat
  BY <1>1, RoomForRows
<1>3. n = prIndex - 1 /\ prAsked = Asked(prIndex) /\ prIndex = n + 1
  BY <1>1, <1>2 DEF UnderWay
<1>4. ASSUME NEW r \in Readings, NEW k \in InUse
      PROVE  /\ Grid[r][k] \in LoopValues \cup {NoValue}
             /\ Grid[r][k] = prRun.slots[k].values[IF IsLevel(prRun.slots[k]) THEN r[k] ELSE 1]
  <2>1. Grid[r][k] = SettingAt(prSet, r[1], r[2])[prRun.slots[k].q] /\ prRun.slots[k].q \in Qualified
    BY <1>2 DEF Grid, RunTyped
  <2>2. Grid[r][k] = IF IsLevel(prRun.slots[k]) THEN prRun.slots[k].values[r[k]] ELSE prSet[prRun.slots[k].q]
    BY <1>2, <2>1, SettingSets
  <2>3. SettingAt(prSet, r[1], r[2]) \in Settings
    BY <1>2, SettingSets
  <2>4. ~IsLevel(prRun.slots[k]) => prSet[prRun.slots[k].q] = prRun.slots[k].values[1]
    BY <1>2 DEF UnderWay
  <2> QED
    BY <2>1, <2>2, <2>3, <2>4 DEF Settings
<1>5. row \in Rows
  <2>1. Grid = [r \in Readings |-> [k \in InUse |-> Grid[r][k]]]
    BY DEF Grid
  <2>2. Grid \in [Readings -> [InUse -> LoopValues \cup {NoValue}]]
    BY <1>4, <2>1
  <2>3. prAsked \in Nat
    BY <1>2, <1>3 DEF Asked
  <2> QED
    BY <1>2, <2>2, <2>3 DEF Rows
<1>6. RowRight(row, n + 1)
  <2>1. row.index = n + 1 /\ row.grid = Grid /\ row.asked = Asked(n + 1)
    BY <1>3
  <2> QED
    BY <1>4, <2>1 DEF RowRight, Asked
<1> HIDE DEF row, rows, n, Rows
<1>7. /\ Append(rows, row) \in Seq(Rows) /\ Len(Append(rows, row)) = n + 1
      /\ \A i \in 1 .. n + 1 : Append(rows, row)[i] = IF i = n + 1 THEN row ELSE rows[i]
      /\ DOMAIN Append(rows, row) = 1 .. n + 1 /\ DOMAIN rows = 1 .. n
  BY <1>2, <1>5 DEF n
<1>8. /\ prFile' \in RunFiles /\ prFile'.rows = Append(rows, row) /\ prFile'.length = prFile.length
      /\ prFile'.open = prFile.open /\ prFile'.kept = prFile.kept
  BY <1>1, <1>2, <1>7 DEF RunFiles
<1>9. RowsRight'
  <2>1. ASSUME NEW i \in 1 .. n + 1 PROVE RowRight(Append(rows, row)[i], i)
    <3>1. CASE i = n + 1
      BY <1>6, <1>7, <3>1
    <3>2. CASE i # n + 1
      <4>1. i \in 1 .. n
        BY <1>2, <3>2
      <4>2. RowRight(rows[i], i)
        BY <1>7, <4>1 DEF ProcedureInv, RowsRight, rows
      <4> QED
        BY <1>7, <3>2, <4>2
    <3> QED
      BY <3>1, <3>2
  <2>2. \A x, i : RowRight(x, i)' <=> RowRight(x, i)
    BY <1>1, RunStays
  <2>3. \A i \in DOMAIN prFile'.rows : RowRight(prFile'.rows[i], i)
    BY <1>7, <1>8, <2>1
  <2> QED
    BY <2>2, <2>3 DEF RowsRight
<1>10. /\ prSet' \in Settings /\ \A q \in Qualified : prSet[q] # NoValue => prSet'[q] # NoValue
       /\ \A k \in InUse : ~IsLevel(prRun.slots[k]) => prSet'[prRun.slots[k].q] = prSet[prRun.slots[k].q]
  <2> DEFINE last == <<LoopShape[1], LoopShape[2]>>
  <2>1. last \in Readings
    BY <1>2, ShapeIsPositive DEF Readings
  <2>2. LastSetting(prSet) = SettingAt(prSet, last[1], last[2])
    BY DEF LastSetting
  <2> HIDE DEF last
  <2> QED
    BY <1>1, <1>2, <2>1, <2>2, SettingSets
<1>11. RunTyped' /\ RunFiles' = RunFiles /\ InUse' = InUse
  BY <1>1, <1>2, RunStays
<1>12. Len(prFile'.rows) = prIndex
  BY <1>3, <1>7, <1>8
<1>13. UnderWay'
  <2>1. \A k \in InUse : ~IsLevel(prRun.slots[k]) => prSet'[prRun.slots[k].q] = prRun.slots[k].values[1]
    BY <1>2, <1>10 DEF UnderWay
  <2>2. /\ prIndex \in 1 .. prRun.points /\ prFile.length = prRun.points
        /\ prFile.open = TRUE /\ prFile.kept = TRUE
    BY <1>2 DEF UnderWay
  <2> QED
    BY <1>1, <1>3, <1>8, <1>11, <1>12, <2>1, <2>2 DEF UnderWay, Asked, Swept, IsLevel
<1>14. prScanner \in BOOLEAN
  BY DEF ProcedureInv
<1> QED
  BY <1>1, <1>8, <1>9, <1>10, <1>11, <1>13, <1>14 DEF ProcedureInv, SparesSample, Settings

LEMMA MeasureFailsStep ==
  ASSUME ProcedureInv, NEW written \in BOOLEAN, NEW done \in 0 .. 2, MeasureFails(written, done)
  PROVE  ProcedureInv' /\ SparesSample
<1> DEFINE file == [prFile EXCEPT !.partial = written]
<1>1. /\ prPhase = "started" /\ prPhase' = "failed" /\ prScanner' = prScanner /\ prRun' = prRun
      /\ prFile' = Closed(file)
  BY DEF MeasureFails
<1>2. RunTyped /\ prFile \in RunFiles /\ Len(prFile.rows) <= prFile.length /\ prSet \in Settings
  BY <1>1, RoomForRows
<1>3. file \in RunFiles /\ file.rows = prFile.rows /\ file.length = prFile.length
  <2> HIDE DEF Rows
  <2> QED
    BY <1>2 DEF RunFiles
<1>4. prFile' \in RunFiles /\ prFile'.rows = prFile.rows /\ Shut(prFile')
  <2> HIDE DEF file
  <2> QED
    BY <1>1, <1>2, <1>3, ClosedShuts
<1>5. PICK r \in Readings : SafeOff(prArmed, SettingAt(prSet, r[1], r[2]), done)
  BY DEF MeasureFails
<1>6. /\ SettingAt(prSet, r[1], r[2]) \in Settings
      /\ \A q \in Qualified : prSet[q] # NoValue => SettingAt(prSet, r[1], r[2])[q] # NoValue
  BY <1>2, SettingSets
<1>7. /\ prSet' \in Settings
      /\ \A q \in Qualified : prSet[q] # NoValue /\ prSet'[q] = NoValue => prRun.vi \notin prArmed'
  BY <1>5, <1>6, SafeOffSpares
<1> QED
  BY <1>1, <1>4, <1>7, EndStep DEF SparesSample

LEMMA StepStep ==
  ASSUME ProcedureInv, NEW reached \in BOOLEAN, Step(reached)
  PROVE  ProcedureInv' /\ SparesSample
<1>1. /\ prPhase = "stepped" /\ prPhase' = "started" /\ prIndex # prRun.points /\ prIndex' = prIndex + 1
      /\ prAsked' = Asked(prIndex + 1) /\ prScanner' = prScanner /\ prRun' = prRun /\ prFile' = prFile /\ prSet' = prSet
  BY DEF Step, Ends
<1>2. RunTyped /\ UnderWay /\ prFile \in RunFiles /\ prSet \in Settings /\ prRun.points \in Nat /\ prIndex \in Nat
  BY <1>1, RoomForRows
<1>3. RunTyped' /\ RunFiles' = RunFiles /\ InUse' = InUse /\ RowsRight'
  BY <1>1, <1>2, RunStays, RowsStay DEF ProcedureInv
<1>4. prIndex' \in 1 .. prRun.points /\ prIndex' - 1 = prIndex
  BY <1>1, <1>2 DEF UnderWay
<1>5. UnderWay'
  BY <1>1, <1>2, <1>3, <1>4 DEF UnderWay, Asked, Swept, IsLevel
<1>6. prScanner \in BOOLEAN
  BY DEF ProcedureInv
<1> QED
  BY <1>1, <1>2, <1>3, <1>5, <1>6 DEF ProcedureInv, SparesSample, Settings

LEMMA StandbyStep ==
  ASSUME ProcedureInv, NEW done \in 0 .. 2, (\E reached \in BOOLEAN : Standby(reached, done)) \/ Abort(done)
  PROVE  ProcedureInv' /\ SparesSample
<1>1. /\ prPhase \in {"started", "stepped"} /\ prPhase' \in {"ended", "failed"} /\ prScanner' = prScanner /\ prRun' = prRun
      /\ prFile' = Closed(prFile) /\ SafeOff(prArmed, prSet, done)
  BY DEF Standby, Abort
<1>2. prFile' \in RunFiles /\ prFile'.rows = prFile.rows /\ Shut(prFile') /\ prSet \in Settings
  BY <1>1, RoomForRows
<1>3. /\ prSet' \in Settings
      /\ \A q \in Qualified : prSet[q] # NoValue /\ prSet'[q] = NoValue => prRun.vi \notin prArmed'
  BY <1>1, <1>2, SafeOffSpares
<1> QED
  BY <1>1, <1>2, <1>3, EndStep DEF SparesSample

LEMMA ProcedureStep == ProcedureInv /\ ProcedureNext => ProcedureInv' /\ SparesSample
<1> SUFFICES ASSUME ProcedureInv, ProcedureNext PROVE ProcedureInv' /\ SparesSample
  OBVIOUS
<1>1. CASE \E sel \in Accepted[prScanner], kind \in SweepKinds, n \in 0 .. PointsBound,
             toggles \in SUBSET {"temperature_vti", "temperature_sample"} : Build(sel, kind, n, toggles)
  BY <1>1, BuildStep
<1>2. CASE ToggleScanner \/ Drop
  BY <1>2, DropStep
<1>3. CASE Initiate
  BY <1>3, InitiateStep
<1>4. CASE \E armed \in BOOLEAN, done \in 0 .. 2 : InitiateFails(armed, done)
  BY <1>4, InitiateFailsStep
<1>5. CASE Measure
  BY <1>5, MeasureStep
<1>6. CASE \E written \in BOOLEAN, done \in 0 .. 2 : MeasureFails(written, done)
  BY <1>6, MeasureFailsStep
<1>7. CASE \E reached \in BOOLEAN : Step(reached)
  BY <1>7, StepStep
<1>8. CASE \E reached \in BOOLEAN, done \in 0 .. 2 : Standby(reached, done)
  BY <1>8, StandbyStep
<1>9. CASE \E done \in 0 .. 2 : Abort(done)
  BY <1>9, StandbyStep
<1> QED
  BY <1>1, <1>2, <1>3, <1>4, <1>5, <1>6, <1>7, <1>8, <1>9 DEF ProcedureNext

ProcedureSpec == ProcedureInit /\ [][ProcedureNext]_prVars

\* From the offered form to the closed file a run measures what was asked, labels it so and leaves
\* its instruments in the order that spares the sample: for any instruments, parameters and values,
\* sweeps of any length, and a failure at any point.
THEOREM FileIsAsAskedHolds == ProcedureSpec => FileIsAsAsked
<1>1. ProcedureInv /\ [ProcedureNext]_prVars => ProcedureInv' /\ [SparesSample]_prVars
  <2> SUFFICES ASSUME ProcedureInv, [ProcedureNext]_prVars PROVE ProcedureInv' /\ [SparesSample]_prVars
    OBVIOUS
  <2>1. CASE ProcedureNext
    BY <2>1, ProcedureStep
  <2>2. CASE UNCHANGED prVars
    <3>1. /\ prScanner' = prScanner /\ prRun' = prRun /\ prIndex' = prIndex /\ prFile' = prFile
          /\ prSet' = prSet /\ prAsked' = prAsked /\ prPhase' = prPhase
      BY <2>2 DEF prVars
    <3>2. RowsRight' /\ RunFiles' = RunFiles /\ InUse' = InUse /\ (RunTyped => RunTyped')
      BY <3>1, RunStays, RowsStay DEF ProcedureInv
    <3>3. UnderWay => UnderWay'
      BY <3>1, <3>2 DEF UnderWay, Asked, Swept, IsLevel
    <3>4. Shut(prFile) => Shut(prFile)'
      BY <3>1 DEF Shut
    <3> QED
      BY <2>2, <3>1, <3>2, <3>3, <3>4 DEF ProcedureInv, Settings
  <2> QED
    BY <2>1, <2>2
<1>2. ProcedureInv => PointsMeasuredAsAsked
  BY DEF ProcedureInv, RowsRight, RowRight, PointsMeasuredAsAsked
<1>3. ProcedureInv => FileIsWhatWasMeasured
  <2> SUFFICES ASSUME ProcedureInv PROVE FileIsWhatWasMeasured
    OBVIOUS
  <2>1. \A n \in DOMAIN prFile.rows : prFile.rows[n].index = n
    BY DEF ProcedureInv, RowsRight, RowRight
  <2>2. CASE prPhase \in {"started", "stepped"}
    <3>1. prFile.open = TRUE /\ prFile.kept = TRUE
      BY <2>2 DEF ProcedureInv, UnderWay
    <3> QED
      BY <2>1, <2>2, <3>1 DEF FileIsWhatWasMeasured
  <2>3. CASE prPhase \notin {"started", "stepped"}
    <3>1. Shut(prFile)
      BY <2>3, NoFileType DEF ProcedureInv
    <3> QED
      BY <2>1, <2>3, <3>1 DEF FileIsWhatWasMeasured, Shut
  <2> QED
    BY <2>2, <2>3
<1>4. ProcedureInv => LabelsMatchFile
  BY DEF ProcedureInv, RunTyped, LabelsMatchFile
<1>5. ProcedureInv => OfferedIsAccepted
  BY OfferedHolds DEF ProcedureInv
<1>6. SparesSample => (prPhase # "built" =>
        \A q \in Qualified : q[1] = ScannerVI /\ prSet[q] # NoValue /\ prSet'[q] = NoValue => prRun.vi \notin prArmed')
  BY DEF SparesSample
<1> QED
  BY ProcedureInitInv, <1>1, <1>2, <1>3, <1>4, <1>5, <1>6, PTL
    DEF ProcedureSpec, FileIsAsAsked, SourceOffBeforeScanner

-----------------------------------------------------------------------------
(* Targets and parameters.                                                  *)

LEMMA NumbersAreIntegers ==
  ASSUME NEW v \in Limits, IsNumber(v)
  PROVE  v.n \in Int
<1>1. v \in [kind : {"int", "float"}, n : Numbers] \/ v \in Odd \/ v = None
  BY DEF Limits, RuleValues
<1>2. v \notin Odd /\ v # None
  BY DEF Odd, None, IsNumber
<1>3. v.n \in Numbers
  BY <1>1, <1>2
<1> QED
  BY <1>3, RulesAssumption

\* What is real and finite has a number, and numbers compare as integers do.
LEMMA NumbersCompare ==
  ASSUME NEW v \in Limits, NEW w \in Limits, IsNumber(v), IsNumber(w)
  PROVE  v.n \in Int /\ w.n \in Int /\ (Below(v, w) <=> v.n < w.n)
<1>1. v.n \in Int /\ w.n \in Int
  BY NumbersAreIntegers
<1>2. "nan" \notin {v.kind, w.kind} /\ v.kind # "inf" /\ w.kind # "inf"
  BY DEF IsNumber
<1> QED
  BY <1>1, <1>2 DEF Below

LEMMA InsideTheEnvelope ==
  ASSUME NEW v \in Limits, NEW lo \in Limits, NEW hi \in Limits,
         BoundAccepted([min |-> lo, max |-> hi]), IsNumber(v),
         ~Violates([min |-> lo, max |-> hi], v)
  PROVE  Within(v, lo, hi)
<1>1. IsReal(v)
  BY DEF IsNumber, IsReal
<1>2. (lo # None => ~Below(v, lo)) /\ (hi # None => ~Below(hi, v))
  BY <1>1 DEF Violates
<1>3. IsNumber(lo) => lo # None /\ v.n >= lo.n
  BY <1>2, NumbersCompare DEF IsNumber, None
<1>4. IsNumber(hi) => hi # None /\ v.n <= hi.n
  BY <1>2, NumbersCompare DEF IsNumber, None
<1> QED
  BY <1>3, <1>4 DEF Within

\* The check of a target.
LEMMA TargetsAgree ==
  ASSUME CheckTarget
  PROVE  RulesAgree'
<1>1. PICK v \in RuleValues, lo \in Limits, hi \in Limits :
        /\ BoundAccepted([min |-> lo, max |-> hi])
        /\ plCase' = [of |-> "target", value |-> v, bound |-> [min |-> lo, max |-> hi]]
  BY DEF CheckTarget
<1> DEFINE b == [min |-> lo, max |-> hi]
<1>2. plCase'.of = "target" /\ plCase'.value = v /\ plCase'.bound = b
  BY <1>1
<1>3. b.min = lo /\ b.max = hi /\ v \in Limits /\ BoundAccepted(b)
  BY <1>1 DEF Limits
<1>4. TargetAccepted([target |-> v, rate |-> None]) => IsNumber(v)
  BY DEF TargetAccepted, IsFinite, IsNumber
<1>5. EnvelopeRefuses([vi \in {"magnet"} |-> b], "magnet", v) <=> Violates(b, v)
  BY DEF EnvelopeRefuses
<1>6. IsNumber(v) /\ ~Violates(b, v) => Within(v, lo, hi)
  BY <1>3, InsideTheEnvelope
<1> HIDE DEF b
<1>7. EnvelopeAdmitsOnlyInside'
  BY <1>2, <1>3, <1>4, <1>5, <1>6 DEF EnvelopeAdmitsOnlyInside
<1> QED
  BY <1>2, <1>7 DEF RulesAgree, LoopKeepsTheDeclaration, ValidatedIsStored, SweepKeepsItsSteps, HysteresisTurnsOnce

\* A value keeps its place among the numbers when float() is taken of it.
LEMMA ConvertedCompares ==
  ASSUME NEW type, NEW v, NEW x, IsReal(v)
  PROVE  /\ Below(Converted(type, v), x) <=> Below(v, x)
         /\ Below(x, Converted(type, v)) <=> Below(x, v)
         /\ IsNumber(v) => Equal(Converted(type, v), v)
         /\ v.kind # "nan" => Equal(Converted(type, v), v)
<1>1. CASE type = "float" /\ v.kind = "int"
  <2> DEFINE w == [v EXCEPT !.kind = "float"]
  <2>1. Converted(type, v) = w
    BY <1>1 DEF Converted
  <2>2. w.kind = "float" /\ w.n = v.n
    BY <1>1
  <2> HIDE DEF w
  <2> QED
    BY <1>1, <2>1, <2>2 DEF Below, Equal, IsFinite
<1>2. CASE ~(type = "float" /\ v.kind = "int")
  <2>1. Converted(type, v) = v
    BY <1>2 DEF Converted
  <2> QED
    BY <2>1 DEF Equal, IsNumber
<1> QED
  BY <1>1, <1>2

\* What the loop takes is within the bounds of the declaration.
LEMMA LoopStaysWithin ==
  ASSUME NEW s, s.min \in Limits, s.max \in Limits, NEW entry \in RuleValues, LoopTakes(s, entry), IsNumber(entry)
  PROVE  Within(entry, s.min, s.max)
<1>1. IsReal(entry) /\ entry \in Limits
  BY DEF IsNumber, IsReal, Limits
<1>2. (s.min # None => ~Below(entry, s.min)) /\ (s.max # None => ~Below(s.max, entry))
  BY <1>1, ConvertedCompares DEF LoopTakes
<1>3. IsNumber(s.min) => s.min # None /\ entry.n >= s.min.n
  BY <1>1, <1>2, NumbersCompare DEF IsNumber, None
<1>4. IsNumber(s.max) => s.max # None /\ entry.n <= s.max.n
  BY <1>1, <1>2, NumbersCompare DEF IsNumber, None
<1> QED
  BY <1>3, <1>4 DEF Within

\* What a declaration has for its default, the loop takes.
LEMMA LoopTakesTheDefault ==
  ASSUME NEW s, SpecAccepted(s), s.type \in {"int", "float", "str"}, s.default.kind # "nan"
  PROVE  LoopTakes(s, s.default)
<1> DEFINE d == s.default
<1>1. Converts(s.type, d)
  BY DEF SpecAccepted, MatchesType, Converts
<1>2. CASE IsReal(d)
  <2>1. /\ \A x : Below(Converted(s.type, d), x) <=> Below(d, x)
        /\ \A x : Below(x, Converted(s.type, d)) <=> Below(x, d)
        /\ Equal(Converted(s.type, d), d)
    BY <1>2, ConvertedCompares
  <2>2. CASE s.enumerated
    <3>1. s.min = None /\ s.max = None /\ d \in s.choices
      BY <2>2 DEF SpecAccepted, ChoicesAccepted
    <3> QED
      BY <1>1, <2>1, <3>1 DEF LoopTakes
  <2>3. CASE ~s.enumerated
    <3>1. (s.min = None \/ ~Below(d, s.min)) /\ (s.max = None \/ ~Below(s.max, d))
      BY <2>3 DEF SpecAccepted, BoundsAccepted
    <3> QED
      BY <1>1, <2>1, <2>3, <3>1 DEF LoopTakes
  <2> QED
    BY <2>2, <2>3
\* What is not a number is a text: it has no bounds, and is found among the choices as it is.
<1>3. CASE ~IsReal(d)
  <2>1. s.type = "str" /\ Converted(s.type, d) = d /\ d.kind = "str"
    BY <1>1, <1>3 DEF Converts, Converted, IsReal
  <2>2. Equal(d, d)
    BY DEF Equal
  <2>3. s.min = None /\ s.max = None /\ (s.enumerated => d \in s.choices)
    BY <2>1 DEF SpecAccepted, ChoicesAccepted, BoundsAccepted
  <2> QED
    BY <1>1, <2>1, <2>2, <2>3 DEF LoopTakes
<1> QED
  BY <1>2, <1>3

\* The check of a parameter.
LEMMA ParametersAgree ==
  ASSUME CheckParameter
  PROVE  RulesAgree'
<1>1. PICK s : /\ plCase' = [of |-> "parameter", spec |-> s] /\ SpecAccepted(s)
               /\ s.type \in {"bool", "int", "float", "str"} /\ s.min \in Limits /\ s.max \in Limits
  <2>1. PICK t \in {"bool", "int", "float", "str"}, d \in RuleValues :
          \/ \E lo, hi \in Limits :
               LET s == [type |-> t, default |-> d, min |-> lo, max |-> hi, enumerated |-> FALSE, choices |-> {}]
               IN SpecAccepted(s) /\ plCase' = [of |-> "parameter", spec |-> s]
          \/ \E offered \in SUBSET RuleValues :
               LET s == [type |-> t, default |-> d, min |-> None, max |-> None, enumerated |-> TRUE, choices |-> offered]
               IN SpecAccepted(s) /\ plCase' = [of |-> "parameter", spec |-> s]
    BY DEF CheckParameter
  <2>2. ASSUME NEW lo \in Limits, NEW hi \in Limits,
               SpecAccepted([type |-> t, default |-> d, min |-> lo, max |-> hi, enumerated |-> FALSE, choices |-> {}]),
               plCase' = [of |-> "parameter", spec |->
                            [type |-> t, default |-> d, min |-> lo, max |-> hi, enumerated |-> FALSE, choices |-> {}]]
        PROVE  \E s : /\ plCase' = [of |-> "parameter", spec |-> s] /\ SpecAccepted(s)
                      /\ s.type \in {"bool", "int", "float", "str"} /\ s.min \in Limits /\ s.max \in Limits
    <3> DEFINE s == [type |-> t, default |-> d, min |-> lo, max |-> hi, enumerated |-> FALSE, choices |-> {}]
    <3>1. s.type = t /\ s.min = lo /\ s.max = hi /\ SpecAccepted(s) /\ plCase' = [of |-> "parameter", spec |-> s]
      BY <2>2
    <3> HIDE DEF s
    <3> QED
      BY <3>1
  <2>3. ASSUME NEW offered \in SUBSET RuleValues,
               SpecAccepted([type |-> t, default |-> d, min |-> None, max |-> None, enumerated |-> TRUE, choices |-> offered]),
               plCase' = [of |-> "parameter", spec |->
                            [type |-> t, default |-> d, min |-> None, max |-> None, enumerated |-> TRUE, choices |-> offered]]
        PROVE  \E s : /\ plCase' = [of |-> "parameter", spec |-> s] /\ SpecAccepted(s)
                      /\ s.type \in {"bool", "int", "float", "str"} /\ s.min \in Limits /\ s.max \in Limits
    <3> DEFINE s == [type |-> t, default |-> d, min |-> None, max |-> None, enumerated |-> TRUE, choices |-> offered]
    <3>1. s.type = t /\ s.min = None /\ s.max = None /\ SpecAccepted(s) /\ plCase' = [of |-> "parameter", spec |-> s]
      BY <2>3
    <3> HIDE DEF s
    <3> QED
      BY <3>1 DEF Limits
  <2> QED
    BY <2>1, <2>2, <2>3
<1>2. plCase'.of = "parameter" /\ plCase'.spec = s
  BY <1>1
<1>3. s.type # "bool" /\ s.default.kind # "nan" => LoopTakes(s, s.default)
  BY <1>1, LoopTakesTheDefault
<1>4. \A entry \in RuleValues : LoopTakes(s, entry) /\ IsNumber(entry) => Within(entry, s.min, s.max)
  BY <1>1, LoopStaysWithin
<1>5. LoopKeepsTheDeclaration'
  BY <1>2, <1>3, <1>4 DEF LoopKeepsTheDeclaration
<1> QED
  BY <1>2, <1>5 DEF RulesAgree, EnvelopeAdmitsOnlyInside, ValidatedIsStored, SweepKeepsItsSteps,
                    HysteresisTurnsOnce

-----------------------------------------------------------------------------
(* The shape of a point.                                                    *)

LEMMA PointsAgree ==
  ASSUME CheckPoint
  PROVE  RulesAgree'
<1>1. PICK loop \in [1 .. 2 -> Extents], block \in [1 .. 2 -> Extents], length \in Extents,
           column \in Columns, shape \in Shapes :
        LET schema == [loop |-> loop, length |-> length, block |-> block]
        IN /\ Validates(schema, column, [shape |-> shape, leaf |-> "number"])
           /\ plCase' = [of |-> "point", schema |-> schema, column |-> column, shape |-> shape]
  BY DEF CheckPoint
<1> DEFINE schema == [loop |-> loop, length |-> length, block |-> block]
           declared == DeclaredShape(schema, column)
<1>2. /\ plCase'.of = "point" /\ plCase'.schema = schema /\ plCase'.column = column
      /\ plCase'.shape = shape
  BY <1>1
<1>3. Len(declared) <= Len(shape) /\ SubSeq(shape, 1, Len(declared)) = declared
  BY <1>1 DEF Validates, Fits
<1>4. shape \in Seq(Extents)
  <2>1. PICK k \in 0 .. 4 : shape \in [1 .. k -> Extents]
    BY DEF Shapes
  <2> QED
    BY <2>1
<1>5. Allocated(schema, column) = declared
  BY DEF Allocated, DeclaredShape
<1> HIDE DEF declared, schema
<1>6. Len(shape) = Len(declared) => shape = declared
  <2>1. SubSeq(shape, 1, Len(shape)) = shape
    BY <1>4
  <2> QED
    BY <1>3, <2>1
<1>7. Len(shape) = Len(declared) => Stored(schema, column, [shape |-> shape, leaf |-> "number"]) = "exact"
  <2> DEFINE value == [shape |-> shape, leaf |-> "number"]
  <2>1. value.shape = shape /\ value.leaf = "number"
    OBVIOUS
  <2> HIDE DEF value
  <2>2. Len(shape) = Len(declared) => value.shape = Allocated(schema, column)
    BY <1>5, <1>6, <2>1
  <2>3. value.shape = Allocated(schema, column) => Stored(schema, column, value) = "exact"
    BY <2>1 DEF Stored
  <2> QED
    BY <2>2, <2>3 DEF value
<1>8. ValidatedIsStored'
  BY <1>2, <1>7 DEF ValidatedIsStored, declared
<1> QED
  BY <1>2, <1>8 DEF RulesAgree, EnvelopeAdmitsOnlyInside, LoopKeepsTheDeclaration, SweepKeepsItsSteps,
                    HysteresisTurnsOnce

-----------------------------------------------------------------------------
(* The points of a sweep.                                                   *)

SweepPoints == [num : Int, den : Int]

\* There and back again, over each point but the turn twice.
ThereAndBack(loop, points) ==
  /\ SubSeq(loop, 1, Len(points)) = points
  /\ loop = Reverse(loop)
  /\ Len(loop) = 2 * Len(points) - 1

LEMMA HysteresisReturns ==
  ASSUME NEW points \in Seq(SweepPoints), points # <<>>
  PROVE  ThereAndBack(WithHysteresis(points), points)
<1> DEFINE n == Len(points)
           loop == WithHysteresis(points)
<1>1. n \in Nat /\ n >= 1 /\ points \in [1 .. n -> SweepPoints]
  OBVIOUS
<1>2. CASE n < 2
  <2>1. n = 1 /\ loop = points
    BY <1>1, <1>2 DEF WithHysteresis
  <2>2. SubSeq(points, 1, 1) = points
    BY <2>1
  <2>3. Reverse(points) = [i \in 1 .. 1 |-> points[1]]
    BY <2>1 DEF Reverse
  <2>4. [i \in 1 .. 1 |-> points[1]] = points
    BY <1>1, <2>1
  <2> QED
    BY <2>1, <2>2, <2>3, <2>4 DEF ThereAndBack
<1>3. CASE n >= 2
  <2> DEFINE out == Front(points)
             back == Reverse(out)
  <2>1. loop = points \o back
    <3>1. ~(Len(points) < 2)
      BY <1>1, <1>3
    <3> QED
      BY <3>1 DEF WithHysteresis
  <2>2. out \in Seq(SweepPoints) /\ Len(out) = n - 1 /\ \A i \in 1 .. (n - 1) : out[i] = points[i]
    BY <1>1, <1>3 DEF Front
  <2> HIDE DEF out, loop
  <2>3. back = [i \in 1 .. (n - 1) |-> out[((n - 1) - i) + 1]]
    BY <2>2 DEF Reverse
  <2>4. back \in Seq(SweepPoints) /\ Len(back) = n - 1 /\ \A i \in 1 .. (n - 1) : back[i] = points[n - i]
    <3>1. \A i \in 1 .. (n - 1) : ((n - 1) - i) + 1 = n - i /\ n - i \in 1 .. (n - 1)
      BY <1>1
    <3> HIDE DEF n, back
    <3>2. \A i \in 1 .. (n - 1) : back[i] = points[n - i] /\ back[i] \in SweepPoints
      BY <1>1, <2>2, <2>3, <3>1
    <3>3. n - 1 \in Nat
      BY <1>1
    <3>4. back \in [1 .. (n - 1) -> SweepPoints]
      BY <2>3, <3>2
    <3> QED
      BY <3>2, <3>3, <3>4
  <2> HIDE DEF back
  <2>5. /\ loop \in Seq(SweepPoints) /\ Len(loop) = 2 * n - 1
        /\ \A i \in 1 .. n : loop[i] = points[i]
        /\ \A i \in (n + 1) .. (2 * n - 1) : loop[i] = points[2 * n - i]
    <3>1. Len(points \o back) = n + (n - 1)
      <4>1. Len(points \o back) = Len(points) + Len(back)
        BY <2>4, ConcatProperties
      <4> QED
        BY <2>4, <4>1
    <3>2. \A i \in 1 .. n : (points \o back)[i] = points[i]
      BY <1>1, <2>4
    <3>3. ASSUME NEW i \in (n + 1) .. (2 * n - 1) PROVE (points \o back)[i] = points[2 * n - i]
      <4>1. i - n \in 1 .. (n - 1) /\ n - (i - n) = 2 * n - i /\ i \in 1 .. (n + (n - 1)) /\ i > n
        BY <1>1
      <4>2. (points \o back)[i] = back[i - n]
        BY <2>4, <4>1
      <4> QED
        BY <2>4, <4>1, <4>2
    <3> QED
      BY <1>1, <2>1, <2>4, <3>1, <3>2, <3>3
  <2> HIDE DEF n
  <2>6. ASSUME NEW i \in 1 .. (2 * n - 1) PROVE loop[((2 * n - 1) - i) + 1] = loop[i]
    <3> DEFINE j == ((2 * n - 1) - i) + 1
    <3>1. j = 2 * n - i /\ 2 * n - j = i /\ (i \in 1 .. n \/ i \in (n + 1) .. (2 * n - 1))
      BY <1>1
    <3>2. CASE i = n
      BY <1>1, <3>1, <3>2
    <3>3. CASE i < n
      <4>1. i \in 1 .. n /\ j \in (n + 1) .. (2 * n - 1)
        BY <1>1, <3>1, <3>3
      <4> HIDE DEF j
      <4>2. loop[j] = points[i] /\ loop[i] = points[i]
        BY <2>5, <3>1, <4>1
      <4> QED
        BY <4>2 DEF j
    <3>4. CASE i > n
      <4>1. i \in (n + 1) .. (2 * n - 1) /\ j \in 1 .. n
        BY <1>1, <3>1, <3>4
      <4> HIDE DEF j
      <4>2. loop[j] = points[j] /\ loop[i] = points[j]
        BY <2>5, <3>1, <4>1
      <4> QED
        BY <4>2 DEF j
    <3> QED
      BY <1>1, <3>2, <3>3, <3>4
  <2>7. Reverse(loop) = loop
    <3>1. Reverse(loop) = [i \in 1 .. (2 * n - 1) |-> loop[((2 * n - 1) - i) + 1]]
      BY <2>5 DEF Reverse
    <3>2. loop = [i \in 1 .. (2 * n - 1) |-> loop[i]]
      BY <2>5
    <3> QED
      BY <2>6, <3>1, <3>2
  <2>8. SubSeq(loop, 1, n) = points
    <3>1. n <= Len(loop)
      BY <1>1, <2>5
    <3>2. SubSeq(loop, 1, n) = [i \in 1 .. n |-> loop[i]]
      BY <1>1, <2>5, <3>1
    <3>3. points = [i \in 1 .. n |-> points[i]]
      BY <1>1
    <3> QED
      BY <2>5, <3>2, <3>3
  <2> QED
    BY <2>5, <2>7, <2>8 DEF ThereAndBack, loop, n
<1> QED
  BY <1>1, <1>2, <1>3

LEMMA LinearHasPoints ==
  ASSUME NEW s \in Int, NEW e \in Int, NEW n \in Nat
  PROVE  Linear(s, e, n) \in Seq(SweepPoints) /\ Linear(s, e, n) # <<>>
<1>1. CASE AtLeastOne(n) = 1
  <2>1. Linear(s, e, n) = <<[num |-> s, den |-> 1]>>
    BY <1>1 DEF Linear
  <2> QED
    BY <2>1 DEF SweepPoints
<1>2. CASE AtLeastOne(n) # 1
  <2>1. n >= 2
    BY <1>2 DEF AtLeastOne
  <2>2. Linear(s, e, n) = [i \in 1 .. n |-> [num |-> s * (n - 1) + (i - 1) * (e - s), den |-> n - 1]]
    BY <1>2 DEF Linear
  <2>3. \A i \in 1 .. n : [num |-> s * (n - 1) + (i - 1) * (e - s), den |-> n - 1] \in SweepPoints
    BY DEF SweepPoints
  <2>4. Linear(s, e, n) \in [1 .. n -> SweepPoints]
    BY <2>2, <2>3
  <2>5. Linear(s, e, n) \in Seq(SweepPoints) /\ Len(Linear(s, e, n)) = n
    BY <2>4
  <2> QED
    BY <2>1, <2>5
<1> QED
  BY <1>1, <1>2

LEMMA HysteresisAgrees ==
  ASSUME NEW s \in SweepEnds, NEW e \in SweepEnds, NEW n \in SweepCounts,
         plCase' = [of |-> "hysteresis", out |-> Linear(s, e, n)]
  PROVE  RulesAgree'
<1> DEFINE out == Linear(s, e, n)
<1>1. plCase'.of = "hysteresis" /\ plCase'.out = out
  OBVIOUS
<1>2. out \in Seq(SweepPoints) /\ out # <<>>
  BY LinearHasPoints, RulesAssumption
<1> HIDE DEF out
<1>3. ThereAndBack(WithHysteresis(out), out)
  BY <1>2, HysteresisReturns
<1>4. HysteresisTurnsOnce'
  BY <1>1, <1>3 DEF HysteresisTurnsOnce, ThereAndBack
<1> QED
  BY <1>1, <1>4 DEF RulesAgree, EnvelopeAdmitsOnlyInside, LoopKeepsTheDeclaration, ValidatedIsStored,
                    SweepKeepsItsSteps

-----------------------------------------------------------------------------
(* The steps of a sweep.                                                    *)

\* Rounding leaves at least two thirds of the steps that were asked for, if there is one.
LEMMA RatioIsClose ==
  ASSUME NEW a \in Nat, NEW b \in Nat \ {0}
  PROVE  /\ AtLeastOne(RoundedRatio(a, b)) \in Nat \ {0}
         /\ 2 * a <= 3 * (b * AtLeastOne(RoundedRatio(a, b)))
<1> DEFINE q == a \div b
           m == a % b
           p == b * q
           R == RoundedRatio(a, b)
<1>1. /\ q \in Nat /\ m \in 0 .. (b - 1) /\ a = p + m /\ p \in Nat
  OBVIOUS
<1>2. R \in {q, q + 1} /\ (2 * m > b => R = q + 1)
  BY <1>1 DEF RoundedRatio
<1>3. b * (q + 1) = p + b
  BY <1>1
<1>4. q # 0 => p >= b
  <2>1. q # 0 => \E k \in Nat : q = k + 1
    <3>1. q # 0 => q - 1 \in Nat /\ q = (q - 1) + 1
      BY <1>1
    <3> QED
      BY <3>1
  <2>2. ASSUME NEW k \in Nat, q = k + 1 PROVE p >= b
    <3>1. b * (k + 1) = b * k + b /\ b * k \in Nat
      OBVIOUS
    <3> QED
      BY <2>2, <3>1
  <2> QED
    BY <2>1, <2>2
<1>5. q = 0 => p = 0
  OBVIOUS
<1>6. b * 1 = b
  OBVIOUS
<1> HIDE DEF q, m, p, R
<1>7. CASE R = q + 1
  <2>1. AtLeastOne(R) = q + 1
    BY <1>1, <1>7 DEF AtLeastOne
  <2>2. 2 * a <= 3 * (p + b)
    BY <1>1
  <2> QED
    BY <1>1, <1>3, <2>1, <2>2 DEF R
<1>8. CASE R = q /\ q # 0
  <2>1. AtLeastOne(R) = q /\ 2 * m <= b
    BY <1>1, <1>2, <1>8 DEF AtLeastOne
  <2>2. 2 * a <= 3 * p
    BY <1>1, <1>4, <1>8, <2>1
  <2> QED
    BY <1>1, <1>8, <2>1, <2>2 DEF R, p
<1>9. CASE R = q /\ q = 0
  <2>1. AtLeastOne(R) = 1 /\ 2 * m <= b
    BY <1>1, <1>2, <1>9 DEF AtLeastOne
  <2>2. 2 * a <= 3 * b
    BY <1>1, <1>5, <1>9, <2>1
  <2> QED
    BY <1>6, <2>1, <2>2 DEF R
<1> QED
  BY <1>2, <1>7, <1>8, <1>9

\* How far a segment goes.
Way(seg) == seg.end - seg.start

LEMMA StepsAreClose ==
  ASSUME NEW seg \in Segments
  PROVE  /\ Steps(seg) \in Nat \ {0} /\ Way(seg) \in Int /\ Abs(Way(seg)) \in Nat
         /\ seg.start \in Int /\ seg.end \in Int /\ seg.step \in Nat \ {0}
         /\ 2 * Abs(Way(seg)) <= 3 * (seg.step * Steps(seg))
<1>1. seg.start \in SweepEnds /\ seg.end \in SweepEnds /\ seg.step \in SweepSteps
  BY DEF Segments
<1>2. seg.start \in Int /\ seg.end \in Int /\ seg.step \in Nat \ {0}
  BY <1>1, RulesAssumption
<1>3. Way(seg) \in Int /\ Abs(Way(seg)) \in Nat
  BY <1>2 DEF Way, Abs
<1>4. Steps(seg) = AtLeastOne(RoundedRatio(Abs(Way(seg)), seg.step))
  BY DEF Steps, Way
<1> QED
  BY <1>2, <1>3, <1>4, RatioIsClose

\* A segment of a whole number of steps gets exactly these.
WholeSteps(seg) ==
  seg.start # seg.end /\ Abs(seg.end - seg.start) % seg.step = 0 =>
    Steps(seg) * seg.step = Abs(seg.end - seg.start)

LEMMA WholeRatio ==
  ASSUME NEW a \in Nat \ {0}, NEW b \in Nat \ {0}, a % b = 0
  PROVE  AtLeastOne(RoundedRatio(a, b)) * b = a
<1> DEFINE q == a \div b
           m == a % b
<1>1. q \in Nat /\ a = b * q + m
  OBVIOUS
<1>2. RoundedRatio(a, b) = q
  BY DEF RoundedRatio
<1>3. b * 0 = 0
  OBVIOUS
<1> HIDE DEF q
<1>4. a = b * q
  BY <1>1
<1>5. q # 0
  BY <1>3, <1>4
<1>6. AtLeastOne(q) = q
  BY <1>1, <1>5 DEF AtLeastOne
<1> QED
  BY <1>1, <1>2, <1>4, <1>6

LEMMA WholeStepsKept ==
  ASSUME NEW seg \in Segments
  PROVE  WholeSteps(seg)
<1>1. seg.start \in Int /\ seg.end \in Int /\ seg.step \in Nat \ {0}
  BY StepsAreClose
<1>2. seg.start # seg.end => Abs(seg.end - seg.start) \in Nat \ {0}
  BY <1>1 DEF Abs
<1> QED
  BY <1>1, <1>2, WholeRatio DEF WholeSteps, Steps

\* A gap of w, over denominators c and d, is within the bound of a step whose segment has c steps.
LEMMA GapOfAWay ==
  ASSUME NEW w \in Int, NEW step \in Nat, NEW c \in Nat, NEW d \in Nat,
         2 * Abs(w) <= 3 * (step * c)
  PROVE  2 * Abs(w * d) <= ((3 * step) * c) * d
<1> DEFINE u == Abs(w)
           v == step * c
<1>1. u \in Nat /\ v \in Nat
  BY DEF Abs
<1>2. Abs(w * d) = u * d
  <2>1. CASE w < 0
    <3>1. u = -w /\ w * d <= 0 /\ w * d \in Int /\ (-w) * d = -(w * d)
      BY <2>1 DEF Abs
    <3> QED
      BY <3>1 DEF Abs
  <2>2. CASE w >= 0
    <3>1. u = w /\ w * d >= 0 /\ w * d \in Int
      BY <2>2 DEF Abs
    <3> QED
      BY <3>1 DEF Abs
  <2> QED
    BY <2>1, <2>2
<1>3. ((3 * step) * c) * d = (3 * v) * d
  OBVIOUS
<1> HIDE DEF u, v
<1>4. (2 * u) * d <= (3 * v) * d
  <2>1. 2 * u <= 3 * v
    BY DEF u, v
  <2>2. \E k \in Nat : 3 * v = 2 * u + k
    <3>1. 3 * v - 2 * u \in Nat /\ 3 * v = 2 * u + (3 * v - 2 * u)
      BY <1>1, <2>1
    <3> QED
      BY <3>1
  <2>3. PICK k \in Nat : 3 * v = 2 * u + k
    BY <2>2
  <2>4. (2 * u + k) * d = (2 * u) * d + k * d /\ k * d \in Nat /\ (2 * u) * d \in Nat
    BY <1>1
  <2> QED
    BY <2>3, <2>4
<1>5. 2 * (u * d) = (2 * u) * d
  BY <1>1
<1> QED
  BY <1>2, <1>3, <1>4, <1>5

LEMMA SegmentPointsAre ==
  ASSUME NEW seg \in Segments
  PROVE  /\ SegmentPoints(seg) \in Seq(SweepPoints) /\ Len(SegmentPoints(seg)) = Steps(seg)
         /\ \A k \in 1 .. Steps(seg) :
              /\ SegmentPoints(seg)[k].num = seg.start * Steps(seg) + (k - 1) * Way(seg)
              /\ SegmentPoints(seg)[k].den = Steps(seg)
<1> DEFINE S == Steps(seg)
           point(k) == [num |-> seg.start * S + (k - 1) * Way(seg), den |-> S]
<1>1. S \in Nat \ {0} /\ Way(seg) \in Int /\ seg.start \in Int
  BY StepsAreClose
<1>2. SegmentPoints(seg) = [k \in 1 .. S |-> point(k)]
  BY DEF SegmentPoints, Way
<1> HIDE DEF S
<1>3. ASSUME NEW k \in 1 .. S PROVE point(k) \in SweepPoints
  <2>1. seg.start * S + (k - 1) * Way(seg) \in Int
    BY <1>1
  <2> QED
    BY <1>1, <2>1 DEF SweepPoints
<1>4. \A k \in 1 .. S : point(k).num = seg.start * S + (k - 1) * Way(seg) /\ point(k).den = S
  OBVIOUS
<1> HIDE DEF point
<1>5. SegmentPoints(seg) \in [1 .. S -> SweepPoints]
  BY <1>2, <1>3
<1>6. SegmentPoints(seg) \in Seq(SweepPoints) /\ Len(SegmentPoints(seg)) = S
  BY <1>1, <1>5
<1>7. \A k \in 1 .. S : SegmentPoints(seg)[k] = point(k)
  BY <1>2
<1> QED
  BY <1>4, <1>6, <1>7 DEF S

\* The points of two segments and the end, one behind the other.
TwoSegments(pts, a, b) ==
  /\ Len(pts) = (Steps(a) + Steps(b)) + 1
  /\ \A k \in 1 .. Steps(a) : pts[k] = SegmentPoints(a)[k]
  /\ \A k \in 1 .. Steps(b) : pts[Steps(a) + k] = SegmentPoints(b)[k]
  /\ pts[(Steps(a) + Steps(b)) + 1] = [num |-> b.end, den |-> 1]

LEMMA PairAppended ==
  ASSUME NEW T, NEW x \in T, NEW y \in T
  PROVE  Append(Append(<<>>, x), y) = <<x, y>>
<1>1. <<>> \in Seq(T) /\ <<x>> \in Seq(T) /\ <<x, y>> \in Seq(T)
  OBVIOUS
<1>2. Append(<<>>, x) \in Seq(T) /\ Len(Append(<<>>, x)) = 1 /\ Append(<<>>, x)[1] = x
  BY <1>1
<1> DEFINE one == Append(<<>>, x)
<1> HIDE DEF one
<1>3. one \in Seq(T) /\ Len(one) = 1 /\ one[1] = x
  BY <1>2 DEF one
<1>4. Append(one, y) \in Seq(T) /\ Len(Append(one, y)) = 2 /\ Append(one, y)[1] = x /\ Append(one, y)[2] = y
  <2>1. one \in Seq(T)
    BY <1>3
  <2>2. /\ Append(one, y) \in Seq(T)
        /\ Len(Append(one, y)) = Len(one) + 1
        /\ Append(one, y)[Len(one) + 1] = y
    BY <2>1, AppendProperties
  <2>3. \A i \in 1 .. Len(one) : Append(one, y)[i] = one[i]
    BY <2>1, AppendProperties
  <2> QED
    BY <1>3, <2>2, <2>3
<1> DEFINE two == Append(one, y)
<1> HIDE DEF two
<1>5. two \in Seq(T) /\ Len(two) = 2 /\ two[1] = x /\ two[2] = y
  BY <1>4 DEF two
<1>6. two = <<x, y>>
  BY <1>5
<1> QED
  BY <1>6 DEF one, two

LEMMA PiecewiseIs ==
  ASSUME NEW a \in Segments, NEW b \in Segments
  PROVE  TwoSegments(Piecewise(<<a, b>>), a, b)
<1> DEFINE segs == <<a, b>>
           pa == SegmentPoints(a)
           pb == SegmentPoints(b)
           last == [num |-> b.end, den |-> 1]
           ss == [i \in DOMAIN segs |-> SegmentPoints(segs[i])]
           both == pa \o pb
<1>1. /\ pa \in Seq(SweepPoints) /\ Len(pa) = Steps(a)
      /\ pb \in Seq(SweepPoints) /\ Len(pb) = Steps(b)
  BY SegmentPointsAre
<1>2. last \in SweepPoints /\ Steps(a) \in Nat /\ Steps(b) \in Nat
  BY StepsAreClose DEF SweepPoints
<1>3. Piecewise(segs) = FlattenSeq(ss) \o <<last>>
  <2>1. segs # <<>> /\ segs[Len(segs)] = b
    OBVIOUS
  <2> HIDE DEF segs
  <2> QED
    BY <2>1 DEF Piecewise
<1>4. ss = Append(Append(<<>>, pa), pb)
  <2>1. ss = [i \in 1 .. 2 |-> IF i = 1 THEN pa ELSE pb]
    OBVIOUS
  <2> HIDE DEF ss, pa, pb
  <2>2. Append(Append(<<>>, pa), pb) = <<pa, pb>>
    BY <1>1, PairAppended
  <2>3. <<pa, pb>> = [i \in 1 .. 2 |-> IF i = 1 THEN pa ELSE pb]
    OBVIOUS
  <2> QED
    BY <2>1, <2>2, <2>3
<1> HIDE DEF ss, pa, pb, segs, last, both
<1>5. FlattenSeq(ss) = both
  <2>1. FlattenSeq(<<>>) = <<>>
    BY DEF FlattenSeq
  <2>2. <<>> \in Seq(Seq(SweepPoints)) /\ Append(<<>>, pa) \in Seq(Seq(SweepPoints))
    BY <1>1
  <2>3. FlattenSeq(Append(<<>>, pa)) = <<>> \o pa
    BY <1>1, <2>1, <2>2, FlattenAppend
  <2>4. <<>> \o pa = pa
    BY <1>1, ConcatEmptySeq
  <2>5. FlattenSeq(ss) = FlattenSeq(Append(<<>>, pa)) \o pb
    BY <1>1, <1>4, <2>2, FlattenAppend
  <2> QED
    BY <2>3, <2>4, <2>5 DEF both
<1>6. /\ both \in Seq(SweepPoints) /\ Len(both) = Steps(a) + Steps(b)
      /\ \A k \in 1 .. Steps(a) : both[k] = pa[k]
      /\ \A k \in 1 .. Steps(b) : both[Steps(a) + k] = pb[k]
  <2>1. both \in Seq(SweepPoints) /\ Len(both) = Len(pa) + Len(pb)
    BY <1>1, ConcatProperties DEF both
  <2>2. \A k \in 1 .. Steps(a) : both[k] = pa[k]
    BY <1>1, <1>2 DEF both
  <2>3. ASSUME NEW k \in 1 .. Steps(b) PROVE both[Steps(a) + k] = pb[k]
    <3>1. /\ Steps(a) + k \in 1 .. (Len(pa) + Len(pb)) /\ Steps(a) + k > Len(pa)
          /\ (Steps(a) + k) - Len(pa) = k
      BY <1>1, <1>2
    <3>2. (pa \o pb)[Steps(a) + k] = pb[(Steps(a) + k) - Len(pa)]
      BY <1>1, <3>1
    <3> QED
      BY <3>1, <3>2 DEF both
  <2> QED
    BY <1>1, <2>1, <2>2, <2>3
<1> DEFINE pts == Append(both, last)
<1>7. Piecewise(segs) = pts
  <2>1. both \o <<last>> = Append(both, last)
    BY <1>2, <1>6
  <2> QED
    BY <1>3, <1>5, <2>1
<1>8. /\ Len(pts) = Len(both) + 1 /\ pts[Len(both) + 1] = last
      /\ \A k \in 1 .. Len(both) : pts[k] = both[k]
  BY <1>2, <1>6, AppendProperties
<1> HIDE DEF pts
<1>9. \A k \in 1 .. Steps(a) : k \in 1 .. Len(both)
  BY <1>2, <1>6
<1>10. \A k \in 1 .. Steps(b) : Steps(a) + k \in 1 .. Len(both)
  BY <1>2, <1>6
<1>11. TwoSegments(pts, a, b)
  BY <1>6, <1>8, <1>9, <1>10 DEF TwoSegments, pa, pb, last
<1> QED
  BY <1>7, <1>11 DEF segs

-----------------------------------------------------------------------------
(* What lies between two points that follow each other.                     *)

LEMMA AlongASegment ==
  ASSUME NEW s \in Int, NEW w \in Int, NEW c \in Int, NEW k \in Int
  PROVE  (s * c + ((k + 1) - 1) * w) * c - (s * c + (k - 1) * w) * c = w * c
<1> DEFINE u == s * c
           v == k * w
<1>1. u \in Int /\ v \in Int /\ w * c \in Int /\ v * c \in Int /\ u * c \in Int
  OBVIOUS
<1>2. ((k + 1) - 1) * w = v /\ (k - 1) * w = v - w
  OBVIOUS
<1> HIDE DEF u, v
<1>3. (u + v) * c = u * c + v * c
  BY <1>1
<1>4. (u + (v - w)) * c = (u * c + v * c) - w * c
  BY <1>1
<1> QED
  BY <1>1, <1>2, <1>3, <1>4 DEF u

LEMMA AtTheTurn ==
  ASSUME NEW s \in Int, NEW e \in Int, NEW c \in Int, NEW d \in Int
  PROVE  (e * d + (1 - 1) * 0) * c - (s * c + (c - 1) * (e - s)) * d = (e - s) * d
<1> DEFINE w == e - s
<1>1. w \in Int /\ e = s + w
  OBVIOUS
<1> HIDE DEF w
<1>2. (c - 1) * w = c * w - w /\ c * w \in Int /\ s * c \in Int
  BY <1>1
<1>3. s * c + c * w = e * c
  BY <1>1
<1> DEFINE p == e * c
<1>4. s * c + (c - 1) * w = p - w /\ p \in Int
  BY <1>1, <1>2, <1>3
<1>5. (e * d) * c = p * d
  OBVIOUS
<1> HIDE DEF p
<1>6. (p - w) * d = p * d - w * d /\ p * d \in Int /\ w * d \in Int
  BY <1>1, <1>4
<1>7. e * d + (1 - 1) * 0 = e * d
  OBVIOUS
<1> QED
  BY <1>4, <1>5, <1>6, <1>7 DEF w

\* From one point to the next the sweep goes no further than half again the step asked for.
WithinStep(p, q, step) == 2 * Gap(p, q) <= 3 * step * p.den * q.den

LEMMA WithinASegment ==
  ASSUME NEW seg \in Segments, NEW k \in 1 .. (Steps(seg) - 1)
  PROVE  WithinStep(SegmentPoints(seg)[k], SegmentPoints(seg)[k + 1], seg.step)
<1> DEFINE S == Steps(seg)
           w == Way(seg)
           s == seg.start
           p == SegmentPoints(seg)[k]
           q == SegmentPoints(seg)[k + 1]
<1>1. /\ S \in Nat /\ w \in Int /\ s \in Int /\ seg.step \in Nat
      /\ 2 * Abs(w) <= 3 * (seg.step * S)
  BY StepsAreClose
<1>2. k \in 1 .. S /\ k + 1 \in 1 .. S /\ k \in Int
  BY <1>1
<1>3. p.num = s * S + (k - 1) * w /\ p.den = S /\ q.num = s * S + ((k + 1) - 1) * w /\ q.den = S
  BY <1>2, SegmentPointsAre
<1> HIDE DEF S, w, s, p, q
<1>4. q.num * p.den - p.num * q.den = w * S
  BY <1>1, <1>2, <1>3, AlongASegment
<1>5. 2 * Abs(w * S) <= ((3 * seg.step) * S) * S
  BY <1>1, GapOfAWay
<1> QED
  BY <1>3, <1>4, <1>5 DEF WithinStep, Gap, p, q

LEMMA WithinTheTurn ==
  ASSUME NEW a \in Segments, NEW b \in Segments, b.start = a.end
  PROVE  WithinStep(SegmentPoints(a)[Steps(a)], SegmentPoints(b)[1], a.step)
<1> DEFINE c == Steps(a)
           d == Steps(b)
           w == Way(a)
           p == SegmentPoints(a)[c]
           q == SegmentPoints(b)[1]
<1>1. /\ c \in Nat \ {0} /\ d \in Nat \ {0} /\ w \in Int /\ Way(b) \in Int
      /\ a.start \in Int /\ a.end \in Int /\ a.step \in Nat
      /\ 2 * Abs(w) <= 3 * (a.step * c)
  BY StepsAreClose
<1>2. c \in 1 .. c /\ 1 \in 1 .. d
  BY <1>1
<1>3. p.num = a.start * c + (c - 1) * w /\ p.den = c /\ q.num = a.end * d + (1 - 1) * Way(b) /\ q.den = d
  BY <1>2, SegmentPointsAre
<1>4. w = a.end - a.start
  BY DEF Way
<1> HIDE DEF c, d, w, p, q
<1>5. (1 - 1) * Way(b) = (1 - 1) * 0
  BY <1>1
<1>6. q.num * p.den - p.num * q.den = w * d
  BY <1>1, <1>3, <1>4, <1>5, AtTheTurn
<1>7. 2 * Abs(w * d) <= ((3 * a.step) * c) * d
  BY <1>1, GapOfAWay
<1> QED
  BY <1>3, <1>6, <1>7 DEF WithinStep, Gap, p, q, c

LEMMA WithinTheEnd ==
  ASSUME NEW b \in Segments
  PROVE  WithinStep(SegmentPoints(b)[Steps(b)], [num |-> b.end, den |-> 1], b.step)
<1> DEFINE c == Steps(b)
           w == Way(b)
           p == SegmentPoints(b)[c]
           q == [num |-> b.end, den |-> 1]
<1>1. /\ c \in Nat \ {0} /\ w \in Int /\ b.start \in Int /\ b.end \in Int /\ b.step \in Nat
      /\ 2 * Abs(w) <= 3 * (b.step * c)
  BY StepsAreClose
<1>2. c \in 1 .. c
  BY <1>1
<1>3. p.num = b.start * c + (c - 1) * w /\ p.den = c /\ q.num = b.end /\ q.den = 1
  BY <1>2, SegmentPointsAre
<1>4. w = b.end - b.start
  BY DEF Way
<1> HIDE DEF c, w, p, q
<1>5. b.end * 1 + (1 - 1) * 0 = b.end
  BY <1>1
<1>6. (b.end * 1 + (1 - 1) * 0) * c - (b.start * c + (c - 1) * (b.end - b.start)) * 1 = (b.end - b.start) * 1
  BY <1>1, AtTheTurn
<1>7. q.num * p.den - p.num * q.den = w * 1
  BY <1>3, <1>4, <1>5, <1>6
<1>8. 2 * Abs(w * 1) <= ((3 * b.step) * c) * 1
  BY <1>1, GapOfAWay
<1> QED
  BY <1>3, <1>7, <1>8 DEF WithinStep, Gap, p, q, c

\* A sweep of two segments that join.
LEMMA SegmentsAgree ==
  ASSUME NEW a \in Segments, NEW b \in Segments, SegmentsAccepted(<<a, b>>),
         plCase' = [of |-> "segments", a |-> a, b |-> b]
  PROVE  RulesAgree'
<1> DEFINE pts == Piecewise(<<a, b>>)
           c == Steps(a)
           d == Steps(b)
           pa == SegmentPoints(a)
           pb == SegmentPoints(b)
<1>1. plCase'.of = "segments" /\ plCase'.a = a /\ plCase'.b = b
  OBVIOUS
<1>2. b.start = a.end
  <2> DEFINE segs == <<a, b>>
  <2>1. Len(segs) = 2 /\ segs[1] = a /\ segs[2] = b /\ 2 - 1 = 1
    OBVIOUS
  <2> HIDE DEF segs
  <2>2. SegmentsAccepted(segs)
    BY DEF segs
  <2> QED
    BY <2>1, <2>2 DEF SegmentsAccepted
<1>3. /\ c \in Nat \ {0} /\ d \in Nat \ {0} /\ Way(a) \in Int /\ Way(b) \in Int
      /\ a.start \in Int /\ a.end \in Int /\ b.end \in Int
  BY StepsAreClose
<1>4. TwoSegments(pts, a, b)
  BY PiecewiseIs
<1>5. /\ Len(pts) = (c + d) + 1
      /\ \A k \in 1 .. c : pts[k] = pa[k]
      /\ \A k \in 1 .. d : pts[c + k] = pb[k]
      /\ pts[(c + d) + 1] = [num |-> b.end, den |-> 1]
  BY <1>4 DEF TwoSegments
<1>6. /\ pa[1].num = a.start * c + (1 - 1) * Way(a) /\ pa[1].den = c
      /\ pb[1].num = b.start * d + (1 - 1) * Way(b) /\ pb[1].den = d
  <2>1. 1 \in 1 .. c /\ 1 \in 1 .. d
    BY <1>3
  <2> QED
    BY <2>1, SegmentPointsAre
<1>7. \A k \in 1 .. (c - 1) : WithinStep(pa[k], pa[k + 1], a.step)
  BY WithinASegment
<1>8. \A k \in 1 .. (d - 1) : WithinStep(pb[k], pb[k + 1], b.step)
  BY WithinASegment
<1>9. WithinStep(pa[c], pb[1], a.step)
  BY <1>2, WithinTheTurn
<1>10. WithinStep(pb[d], [num |-> b.end, den |-> 1], b.step)
  BY WithinTheEnd
<1> HIDE DEF pts, c, d, pa, pb
<1>11. pts[1].num = a.start * pts[1].den
  <2>1. pts[1] = pa[1] /\ (1 - 1) * Way(a) = 0
    BY <1>3, <1>5
  <2> QED
    BY <1>3, <1>6, <2>1
<1>12. pts[c + 1].num = a.end * pts[c + 1].den
  <2>1. pts[c + 1] = pb[1] /\ (1 - 1) * Way(b) = 0
    BY <1>3, <1>5
  <2> QED
    BY <1>2, <1>3, <1>6, <2>1
<1>13. ASSUME NEW i \in 1 .. (Len(pts) - 1)
       PROVE  WithinStep(pts[i], pts[i + 1], IF i < c + 1 THEN a.step ELSE b.step)
  <2>1. i \in Nat /\ i >= 1 /\ i <= c + d
    BY <1>3, <1>5
  <2>2. CASE i < c
    <3>1. i \in 1 .. c /\ i + 1 \in 1 .. c /\ i \in 1 .. (c - 1) /\ i < c + 1
      BY <1>3, <2>1, <2>2
    <3> QED
      BY <1>5, <1>7, <3>1
  <2>3. CASE i = c
    <3>1. i \in 1 .. c /\ 1 \in 1 .. d /\ i < c + 1
      BY <1>3, <2>1, <2>3
    <3>2. pts[i] = pa[c] /\ pts[i + 1] = pb[1]
      BY <1>5, <2>3, <3>1
    <3> QED
      BY <1>9, <3>1, <3>2
  <2>4. CASE i > c /\ i < c + d
    <3> DEFINE k == i - c
    <3>1. /\ k \in 1 .. d /\ k + 1 \in 1 .. d /\ k \in 1 .. (d - 1) /\ ~(i < c + 1)
          /\ i = c + k /\ i + 1 = c + (k + 1)
      BY <1>3, <2>1, <2>4
    <3> HIDE DEF k
    <3>2. pts[i] = pb[k] /\ pts[i + 1] = pb[k + 1]
      BY <1>5, <3>1
    <3> QED
      BY <1>8, <3>1, <3>2
  <2>5. CASE i = c + d
    <3>1. d \in 1 .. d /\ ~(i < c + 1)
      BY <1>3, <2>5
    <3>2. pts[i] = pb[d] /\ pts[i + 1] = [num |-> b.end, den |-> 1]
      BY <1>5, <2>5, <3>1
    <3> QED
      BY <1>10, <3>1, <3>2
  <2> QED
    BY <1>3, <2>1, <2>2, <2>3, <2>4, <2>5
<1>14. pts[Len(pts)].num = b.end
  BY <1>5
<1>15. \A seg \in {a, b} : WholeSteps(seg)
  BY WholeStepsKept
<1>16. SweepKeepsItsSteps'
  BY <1>1, <1>5, <1>11, <1>12, <1>13, <1>14, <1>15 DEF SweepKeepsItsSteps, WithinStep, WholeSteps, pts, c, d
<1> QED
  BY <1>1, <1>16 DEF RulesAgree, EnvelopeAdmitsOnlyInside, LoopKeepsTheDeclaration, ValidatedIsStored,
                     HysteresisTurnsOnce

-----------------------------------------------------------------------------
(* The theorem.                                                             *)

LEMMA NothingAsked ==
  ASSUME plCase.of = "none"
  PROVE  RulesAgree
BY DEF RulesAgree, EnvelopeAdmitsOnlyInside, LoopKeepsTheDeclaration, ValidatedIsStored,
       SweepKeepsItsSteps, HysteresisTurnsOnce

\* What one check lets pass no later one depends on having been refused (plan.py, procedure.py,
\* data_manager.py), and the points of a sweep are those its segments describe, in the steps
\* asked for where a segment is a whole number of them and in steps at most half again as wide
\* elsewhere: for all numbers, shapes and segments.
THEOREM RulesAgreeHolds == RulesSpec => []RulesAgree
<1>1. RulesInit => RulesAgree
  BY NothingAsked DEF RulesInit
<1>2. RulesAgree /\ [RulesNext]_plVars => RulesAgree'
  <2> SUFFICES ASSUME RulesAgree, [RulesNext]_plVars
               PROVE  RulesAgree'
    OBVIOUS
  <2>1. CASE CheckTarget
    BY <2>1, TargetsAgree
  <2>2. CASE CheckParameter
    BY <2>2, ParametersAgree
  <2>3. CASE CheckPoint
    BY <2>3, PointsAgree
  <2>4. CASE CheckSweep
    <3>1. CASE \E a, b \in Segments :
                 SegmentsAccepted(<<a, b>>) /\ plCase' = [of |-> "segments", a |-> a, b |-> b]
      BY <3>1, SegmentsAgree
    <3>2. CASE \E s, e \in SweepEnds, n \in SweepCounts :
                 plCase' = [of |-> "hysteresis", out |-> Linear(s, e, n)]
      BY <3>2, HysteresisAgrees
    <3> QED
      BY <2>4, <3>1, <3>2 DEF CheckSweep
  <2>5. CASE UNCHANGED plVars
    <3>1. plCase' = plCase
      BY <2>5 DEF plVars
    <3> QED
      BY <3>1 DEF RulesAgree, EnvelopeAdmitsOnlyInside, LoopKeepsTheDeclaration, ValidatedIsStored,
                  SweepKeepsItsSteps, HysteresisTurnsOnce
  <2> QED
    BY <2>1, <2>2, <2>3, <2>4, <2>5 DEF RulesNext
<1> QED
  BY <1>1, <1>2, PTL DEF RulesSpec
=============================================================================
