--------------------------- MODULE InstrumentProofs ---------------------------
(***************************************************************************)
(* Proofs about the instruments that have no module of proofs of their     *)
(* own: the rotator for every range of angles, the level meter for every   *)
(* size of its buffer, the temperature controller for every range of       *)
(* temperatures, the Tensormeter for any averaging times and numbers of    *)
(* rows, the switch matrix for any card and routes, the current sources    *)
(* for any methods that share them.  Each has an invariant that its steps  *)
(* keep, one lemma per step.                                               *)
(***************************************************************************)
EXTENDS Rotator, LevelMeter, TemperatureController, Tensormeter, SwitchMatrix, CurrentSource,
        Induction, SequenceTheorems

-----------------------------------------------------------------------------
(* The rotator.                                                             *)

StageType == rtStage \in [position : Angles, setpoint : Angles, status : {"HOLD", "MOVING"}]
RampType == rtRamp \in [state : {"none", "live", "broken", "exhausted"}, target : Angles]
RotatorType == StageType /\ RampType

\* A ramp that is exhausted and did not return short stays where it is: the stage holds,
\* and only another ramp sends it on.
ReachedInv ==
  rtRamp.state = "exhausted" /\ ~rtShort => Holds(rtStage) /\ rtStage.position = rtRamp.target

\* A stop that was heard has ended the generator as well.
FrozenInv ==
  rtFrozen => rtRamp.state = "none" /\ Holds(rtStage) /\ rtStage.setpoint = rtStage.position

RotatorInv == RotatorType /\ ReachedInv /\ FrozenInv

LEMMA RotatorInitInv == RotatorInit => RotatorInv
  BY AngleAssumption
  DEF RotatorInit, RotatorInv, RotatorType, StageType, RampType, ReachedInv, FrozenInv, Angles, Holds

\* What a command makes of the stage.
LEMMA StageCommands ==
  ASSUME StageType, NEW angle \in Angles
  PROVE  /\ SentTo(rtStage, angle) \in [position : Angles, setpoint : Angles, status : {"HOLD", "MOVING"}]
         /\ SentTo(rtStage, angle).position = rtStage.position
         /\ Frozen(rtStage) \in [position : Angles, setpoint : Angles, status : {"HOLD", "MOVING"}]
         /\ Frozen(rtStage).position = rtStage.position
         /\ Frozen(rtStage).setpoint = rtStage.position
         /\ Holds(Frozen(rtStage))
  BY DEF StageType, SentTo, Frozen, Holds

LEMMA StageMovesStep ==
  ASSUME RotatorInv, StageMoves PROVE RotatorInv' /\ MovingIsLeftAlone
<1> DEFINE next == CASE rtStage.setpoint > rtStage.position -> rtStage.position + 1
                     [] rtStage.setpoint < rtStage.position -> rtStage.position - 1
                     [] OTHER -> rtStage.position
<1>1. rtStage.position \in Angles /\ rtStage.setpoint \in Angles
  BY DEF RotatorInv, RotatorType, StageType
<1>2. next \in Angles
  BY <1>1, AngleAssumption DEF Angles
<1>3. /\ ~Holds(rtStage)
      /\ rtStage' = [rtStage EXCEPT !.position = next,
                                    !.status = IF next = rtStage.setpoint THEN "HOLD" ELSE "MOVING"]
      /\ UNCHANGED <<rtRamp, rtRate, rtShort, rtFrozen>>
  BY DEF StageMoves
<1> HIDE DEF next
<1>4. RotatorType'
  BY <1>2, <1>3 DEF RotatorInv, RotatorType, StageType, RampType
<1>5. ReachedInv' /\ FrozenInv'
  BY <1>3 DEF RotatorInv, ReachedInv, FrozenInv
<1>6. MovingIsLeftAlone
  BY <1>3 DEF MovingIsLeftAlone, RotatorInv, RotatorType, StageType
<1> QED
  BY <1>4, <1>5, <1>6 DEF RotatorInv

\* A step of the generator, whoever asks for it: it keeps the types, ends well only at
\* the target, and sends a stage on only when it holds.
LEMMA GeneratorEffect ==
  ASSUME RotatorType, NEW target \in Angles, NEW ok \in BOOLEAN, GeneratorStep(target, ok)
  PROVE  /\ RotatorType'
         /\ rtRamp'.target = target
         /\ rtRamp'.state = "exhausted" /\ ~rtShort' => Holds(rtStage') /\ rtStage'.position = target
         /\ ~Holds(rtStage) => rtStage' = rtStage
<1> USE DEF RotatorType, StageType, RampType
<1>1. CASE ok /\ Reached(target)
           /\ rtRamp' = [state |-> "exhausted", target |-> target]
           /\ rtShort' = ~Holds(rtStage) /\ UNCHANGED rtStage
  BY <1>1 DEF Reached, Holds
<1>2. CASE rtRamp' = [state |-> "live", target |-> target] /\ UNCHANGED rtStage
  BY <1>2
<1>3. CASE Commands(target)
           /\ rtRamp' = [state |-> "live", target |-> target] /\ rtStage' = SentTo(rtStage, target)
  BY <1>3, StageCommands DEF Commands
<1>4. CASE rtRamp' = [state |-> "broken", target |-> target] /\ UNCHANGED rtStage
  BY <1>4
<1> QED
  BY <1>1, <1>2, <1>3, <1>4 DEF GeneratorStep

LEMMA StartStep ==
  ASSUME RotatorInv, NEW target \in Angles, NEW ok \in BOOLEAN, StartRotation(target, ok)
  PROVE  RotatorInv' /\ MovingIsLeftAlone
  BY GeneratorEffect
  DEF RotatorInv, StartRotation, ReachedInv, FrozenInv, MovingIsLeftAlone

LEMMA AdvanceStep ==
  ASSUME RotatorInv, NEW ok \in BOOLEAN, AdvanceRotation(ok)
  PROVE  RotatorInv' /\ MovingIsLeftAlone
<1>1. rtRamp.target \in Angles
  BY DEF RotatorInv, RotatorType, RampType
<1>2. CASE rtRamp.state = "live" /\ GeneratorStep(rtRamp.target, ok)
  BY <1>1, <1>2, GeneratorEffect
  DEF RotatorInv, AdvanceRotation, ReachedInv, FrozenInv, MovingIsLeftAlone
<1>3. CASE /\ rtRamp.state = "broken"
           /\ rtRamp' = [rtRamp EXCEPT !.state = "exhausted"]
           /\ rtShort' = TRUE
           /\ UNCHANGED rtStage
  BY <1>3
  DEF RotatorInv, RotatorType, StageType, RampType, AdvanceRotation, ReachedInv, FrozenInv, MovingIsLeftAlone
<1> QED
  BY <1>2, <1>3 DEF AdvanceRotation

LEMMA StopStep ==
  ASSUME RotatorInv, NEW ok \in BOOLEAN, StopRotation(ok)
  PROVE  RotatorInv' /\ MovingIsLeftAlone
<1>1. /\ rtRamp' = [rtRamp EXCEPT !.state = "none"]
      /\ rtStage' = IF ok THEN Frozen(rtStage) ELSE rtStage
      /\ rtFrozen' = ok
  BY DEF StopRotation, StoppedStage
<1>2. RotatorType' /\ rtRamp'.state = "none"
  BY <1>1, StageCommands DEF RotatorInv, RotatorType, StageType, RampType, Angles
<1>3. ReachedInv' /\ FrozenInv' /\ MovingIsLeftAlone
  BY <1>1, <1>2, StageCommands
  DEF RotatorInv, RotatorType, StageType, Angles, ReachedInv, FrozenInv, MovingIsLeftAlone
<1> QED
  BY <1>2, <1>3 DEF RotatorInv

LEMMA StutterStep ==
  ASSUME RotatorInv, UNCHANGED <<rtStage, rtRamp, rtShort, rtFrozen>>
  PROVE  RotatorInv' /\ MovingIsLeftAlone
  BY DEF RotatorInv, RotatorType, StageType, RampType, ReachedInv, FrozenInv, MovingIsLeftAlone

LEMMA RotatorNextInv == RotatorInv /\ [RotatorNext]_rtVars => RotatorInv' /\ MovingIsLeftAlone
  BY StageMovesStep, StartStep, AdvanceStep, StopStep, StutterStep
  DEF RotatorNext, SetRotationRate, rtVars

LEMMA RotatorInvImplies == ASSUME RotatorInv PROVE ReachedIsThere /\ StopFreezes
  BY DEF RotatorInv, ReachedInv, FrozenInv, ReachedIsThere, RotationStatus, StopFreezes

\* For every range of angles, and whatever commands raise: a rotation that reports its target
\* is there or has returned short, a stop holds the stage, and a moving stage is left alone.
THEOREM RotationIsSoundHolds == RotatorSpec => RotationIsSound
<1>1. RotatorInv => ReachedIsThere /\ StopFreezes
  BY RotatorInvImplies
<1>2. RotatorInv' => ReachedIsThere' /\ StopFreezes'
  BY <1>1, PTL
<1>3. RotatorInv /\ [RotatorNext]_rtVars =>
        [ReachedIsThere' /\ StopFreezes' /\ MovingIsLeftAlone]_rtVars
  BY <1>2, RotatorNextInv
<1> QED
  BY RotatorInitInv, RotatorNextInv, <1>3, PTL DEF RotatorSpec, RotationIsSound

-----------------------------------------------------------------------------
(* The level meter.                                                         *)

Buffers == [1 .. BufferSize -> BOOLEAN]

\* The buffer holds every observation once: what has been folded in is not folded in again.
BufferInv ==
  /\ lmBuffer \in Buffers /\ lmSeen = lmBuffer
  /\ lmState = "disconnected" => lmFolded

\* The silence of a dead meter is the end of the buffer.
DeadInv ==
  /\ lmDead \in 0 .. BufferSize
  /\ \A i \in 1 .. BufferSize : i > BufferSize - lmDead => lmBuffer[i] = TRUE

LevelInv == BufferInv /\ DeadInv

-----------------------------------------------------------------------------
(* The buffer.                                                              *)

LEMMA BufferIsSequence == \A b \in Buffers : b \in Seq(BOOLEAN) /\ Len(b) = BufferSize
  BY LevelMeterAssumption DEF Buffers

\* A reading moves every other one place on and drops the oldest.
LEMMA AppendingShifts ==
  ASSUME NEW b \in Buffers, NEW low \in BOOLEAN
  PROVE  /\ Appending(b, low) \in Buffers
         /\ \A i \in 1 .. BufferSize : i < BufferSize => Appending(b, low)[i] = b[i + 1]
         /\ Appending(b, low)[BufferSize] = low
<1>1. b \in Seq(BOOLEAN) /\ Len(b) = BufferSize /\ BufferSize \in Nat \ {0}
  BY BufferIsSequence, LevelMeterAssumption
<1> DEFINE c == Append(b, low)
<1>2. /\ c \in Seq(BOOLEAN) /\ Len(c) = BufferSize + 1
      /\ \A i \in 1 .. BufferSize : c[i] = b[i]
      /\ c[BufferSize + 1] = low
  BY <1>1
<1> HIDE DEF c
<1>3. /\ Tail(c) \in Seq(BOOLEAN) /\ Len(Tail(c)) = BufferSize
      /\ \A i \in 1 .. BufferSize : Tail(c)[i] = c[i + 1]
  BY <1>1, <1>2
<1>4. Tail(c) \in Buffers
  BY <1>3, LenProperties DEF Buffers
<1>5. /\ \A i \in 1 .. BufferSize : i < BufferSize => Tail(c)[i] = b[i + 1]
      /\ Tail(c)[BufferSize] = low
  BY <1>1, <1>2, <1>3
<1> QED
  BY <1>4, <1>5 DEF Appending, c

LEMMA PolledType ==
  ASSUME NEW b \in Buffers, NEW level \in {"low", "fine", "none"}
  PROVE  Polled(b, level) \in Buffers
  BY AppendingShifts DEF Polled

LEMMA FreshType == Fresh \in Buffers
  BY DEF Fresh, Buffers

LEMMA MarkedIsFinite ==
  ASSUME NEW b \in Buffers
  PROVE  IsFiniteSet(Marked(b, TRUE)) /\ Cardinality(Marked(b, TRUE)) \in Nat
<1>1. IsFiniteSet(1 .. BufferSize)
  BY LevelMeterAssumption, FS_Interval
<1>2. Marked(b, TRUE) \in SUBSET (1 .. BufferSize)
  BY DEF Marked
<1>3. IsFiniteSet(Marked(b, TRUE))
  BY <1>1, <1>2, FS_Subset
<1> QED
  BY <1>3, FS_CardinalityType

\* A buffer that ends in more low readings than half of its size is low.
LEMMA LongSilenceWins ==
  ASSUME NEW b \in Buffers, NEW dead \in 0 .. BufferSize, 2 * dead > BufferSize,
         \A i \in 1 .. BufferSize : i > BufferSize - dead => b[i] = TRUE
  PROVE  HeliumLow(b)
<1> DEFINE tail == (BufferSize - dead + 1) .. BufferSize
           low == Marked(b, TRUE)
           count == Cardinality(low)
<1>1. BufferSize \in Nat \ {0}
  BY LevelMeterAssumption
<1>2. tail \subseteq low
  BY <1>1 DEF Marked, Buffers
<1>3. IsFiniteSet(low) /\ count \in Nat
  BY MarkedIsFinite
<1>4. Cardinality(tail) = dead
  BY <1>1, FS_Interval
<1>5. Cardinality(tail) <= count
  <2> HIDE DEF low, tail
  <2> QED
    BY <1>2, <1>3, FS_Subset
<1>6. 2 * count > BufferSize
  <2> HIDE DEF count, tail
  <2> QED
    BY <1>1, <1>3, <1>4, <1>5
<1> QED
  BY <1>6, Zenon DEF HeliumLow

LEMMA LowHasMajority ==
  ASSUME NEW b \in Buffers, HeliumLow(b)
  PROVE  2 * Cardinality(Marked(b, TRUE)) >= BufferSize
<1> DEFINE count == Cardinality(Marked(b, TRUE))
<1>1. BufferSize \in Nat \ {0}
  BY LevelMeterAssumption
<1>2. count \in Nat
  BY MarkedIsFinite
<1>3. 2 * count > BufferSize \/ 2 * count = BufferSize
  BY Zenon DEF HeliumLow
<1> HIDE DEF count
<1>4. 2 * count >= BufferSize
  BY <1>1, <1>2, <1>3
<1> QED
  BY <1>4 DEF count

-----------------------------------------------------------------------------
(* The steps.                                                               *)

LEMMA LevelInitInv == LevelMeterInit => LevelInv
  BY FreshType, LevelMeterAssumption DEF LevelMeterInit, LevelInv, BufferInv, DeadInv

\* A reading ends the silence, a tick without a meter adds to it.
LEMMA SilenceGrows ==
  ASSUME LevelInv, lmBuffer' = Appending(lmBuffer, TRUE),
         lmDead' = IF lmDead < BufferSize THEN lmDead + 1 ELSE lmDead
  PROVE  DeadInv'
<1>1. BufferSize \in Nat \ {0} /\ lmDead \in 0 .. BufferSize /\ lmBuffer \in Buffers
  BY LevelMeterAssumption DEF LevelInv, BufferInv, DeadInv
<1>2. /\ \A i \in 1 .. BufferSize : i < BufferSize => lmBuffer'[i] = lmBuffer[i + 1]
      /\ lmBuffer'[BufferSize] = TRUE
  BY <1>1, AppendingShifts
<1>3. \A i \in 1 .. BufferSize : i > BufferSize - lmDead => lmBuffer[i] = TRUE
  BY DEF LevelInv, DeadInv
<1>4. lmDead' \in 0 .. BufferSize /\ lmDead' <= lmDead + 1
  BY <1>1
<1>5. ASSUME NEW i \in 1 .. BufferSize, i > BufferSize - lmDead' PROVE lmBuffer'[i] = TRUE
  <2>1. CASE i = BufferSize
    BY <1>2, <2>1, Zenon
  <2>2. CASE i < BufferSize
    <3>1. i + 1 \in 1 .. BufferSize /\ i + 1 > BufferSize - lmDead
      BY <1>1, <1>4, <1>5, <2>2
    <3> QED
      BY <1>2, <1>3, <2>2, <3>1
  <2>3. i = BufferSize \/ i < BufferSize
    BY <1>1
  <2> QED
    BY <2>1, <2>2, <2>3, Zenon
<1> QED
  BY <1>4, <1>5 DEF DeadInv

LEMMA SilenceEnds == ASSUME lmDead' = 0 PROVE DeadInv'
<1>1. BufferSize \in Nat \ {0}
  BY LevelMeterAssumption
<1> QED
  BY <1>1 DEF DeadInv

LEMMA SilenceKept == ASSUME LevelInv, lmDead' = lmDead, lmBuffer' = lmBuffer PROVE DeadInv'
  BY DEF LevelInv, DeadInv

LEMMA TickInv ==
  ASSUME LevelInv, NEW level \in {"low", "fine", "none"}, NEW answers \in BOOLEAN, Tick(level, answers)
  PROVE  LevelInv'
<1> DEFINE polled == Polled(lmBuffer, level)
<1>1. polled \in Buffers /\ lmSeen = lmBuffer
  BY PolledType DEF LevelInv, BufferInv
<1>2. /\ lmFolded' = (lmState' = "disconnected")
      /\ lmBuffer' = IF lmState' = "disconnected" THEN Appending(polled, TRUE) ELSE polled
      /\ lmSeen' = lmBuffer'
      /\ lmDead' = IF level # "none" THEN 0
                   ELSE IF lmState' = "disconnected" /\ lmDead < BufferSize THEN lmDead + 1 ELSE lmDead
  BY <1>1 DEF Tick, Folds
<1>3. BufferInv'
  BY <1>1, <1>2, AppendingShifts DEF BufferInv
<1>4. DeadInv'
  <2>1. CASE level # "none"
    BY <1>2, <2>1, SilenceEnds
  <2>2. CASE level = "none" /\ lmState' = "disconnected"
    BY <1>2, <2>2, SilenceGrows DEF Polled
  <2>3. CASE level = "none" /\ lmState' # "disconnected"
    BY <1>2, <2>3, SilenceKept DEF Polled
  <2> QED
    BY <2>1, <2>2, <2>3
<1> QED
  BY <1>3, <1>4 DEF LevelInv

LEMMA JudgeInv == ASSUME LevelInv, JudgeAgain PROVE LevelInv'
<1>1. UNCHANGED <<lmBuffer, lmState, lmSeen, lmDead>> /\ (lmState = "disconnected" => lmFolded')
  BY DEF LevelInv, BufferInv, JudgeAgain, Folds
<1>2. BufferInv'
  BY <1>1 DEF LevelInv, BufferInv
<1> QED
  BY <1>1, <1>2, SilenceKept DEF LevelInv

LEMMA SampleInv == ASSUME LevelInv, NEW low \in BOOLEAN, SampleOfFill(low) PROVE LevelInv'
<1>1. BufferInv'
  BY AppendingShifts DEF LevelInv, BufferInv, SampleOfFill
<1> QED
  BY <1>1, SilenceEnds DEF LevelInv, SampleOfFill

LEMMA RetryInv ==
  ASSUME LevelInv, NEW level \in {"low", "fine", "none"}, NEW answers \in BOOLEAN,
         RetryStale(level, answers)
  PROVE  LevelInv'
<1>1. BufferInv'
  BY PolledType DEF LevelInv, BufferInv, RetryStale
<1>2. CASE level # "none"
  BY <1>1, <1>2, SilenceEnds DEF LevelInv, RetryStale
<1>3. CASE level = "none"
  BY <1>1, <1>3, SilenceKept DEF LevelInv, RetryStale, Polled
<1> QED
  BY <1>2, <1>3

LEMMA RebuildInv ==
  ASSUME LevelInv, NEW level \in {"low", "fine", "none"}, NEW answers \in BOOLEAN, Rebuild(level, answers)
  PROVE  LevelInv'
<1>1. BufferInv'
  BY FreshType, PolledType DEF BufferInv, Rebuild
<1> QED
  BY <1>1, SilenceEnds DEF LevelInv, Rebuild

LEMMA LevelNextInv == LevelInv /\ [LevelMeterNext]_lmVars => LevelInv'
<1> SUFFICES ASSUME LevelInv, [LevelMeterNext]_lmVars PROVE LevelInv'
  OBVIOUS
<1>1. CASE LevelMeterNext
  BY <1>1, TickInv, JudgeInv, SampleInv, RetryInv, RebuildInv DEF LevelMeterNext
<1>2. CASE UNCHANGED lmVars
  BY <1>2, SilenceKept DEF lmVars, LevelInv, BufferInv
<1> QED
  BY <1>1, <1>2

LEMMA LevelInvImplies == ASSUME LevelInv PROVE LowIsMajority /\ DeadMeterTrips
<1>1. lmBuffer \in Buffers /\ lmSeen = lmBuffer
  BY DEF LevelInv, BufferInv
<1>2. LowIsMajority
  BY <1>1, LowHasMajority DEF LowIsMajority
<1>3. DeadMeterTrips
  BY <1>1, LongSilenceWins DEF LevelInv, DeadInv, DeadMeterTrips
<1> QED
  BY <1>2, <1>3

\* For every size of the buffer and every threshold: low helium is the verdict of a majority,
\* a dead meter wins it, and a short silence changes nothing.
THEOREM LevelIsDebouncedHolds == LevelMeterSpec => LevelIsDebounced
<1>1. LevelInv => LowIsMajority /\ DeadMeterTrips
  BY LevelInvImplies
<1>2. LevelInv' => LowIsMajority' /\ DeadMeterTrips'
  BY <1>1, PTL
<1>3. LevelInv /\ LevelInv' => GlitchIsSmoothed
  BY DEF LevelInv, BufferInv, GlitchIsSmoothed
<1>4. LevelInv /\ LevelInv' => LowIsMajority' /\ DeadMeterTrips' /\ GlitchIsSmoothed
  BY <1>2, <1>3
<1>5. LevelInv /\ LevelInv' /\ [LevelMeterNext]_lmVars =>
        [LowIsMajority' /\ DeadMeterTrips' /\ GlitchIsSmoothed]_lmVars
  BY <1>4
<1> QED
  BY LevelInitInv, LevelNextInv, <1>5, PTL DEF LevelMeterSpec, LevelIsDebounced

-----------------------------------------------------------------------------
(* The temperature controller.                                              *)

Fields == {"setpoint", "mode", "output", "valveMode", "valve"}
Devices == [setpoint : Temperatures, mode : {"AUTO", "MANUAL"}, output : {0, 1},
            valveMode : {"AUTO", "MANUAL"}, valve : {0, 1}]
Ramps == [state : {"none", "live", "broken", "spent"}, from : Temperatures, target : Temperatures,
          elapsed : Temperatures]

HeatingType ==
  /\ tcTemperature \in Temperatures /\ tcDevice \in Devices /\ tcRamp \in Ramps
  /\ tcStood \in BOOLEAN

HeatingInv == HeatingType /\ HeatingIsBounded

-----------------------------------------------------------------------------
\* Commands to different fields: each field has what its own command wrote, or what it had.
LEMMA DeviceWritten ==
  ASSUME tcDevice \in Devices, NEW commands, NEW n \in Nat,
         \A i, j \in 1 .. n : commands[i][1] = commands[j][1] => i = j
  PROVE  /\ \A i \in 1 .. n : commands[i][1] \in Fields =>
              DeviceAfter(commands, n)[commands[i][1]] = commands[i][2]
         /\ \A field \in Fields : (\A i \in 1 .. n : commands[i][1] # field) =>
              DeviceAfter(commands, n)[field] = tcDevice[field]
         /\ DeviceAfter(commands, n) = [field \in Fields |-> DeviceAfter(commands, n)[field]]
<1> DEFINE written(field) == {i \in 1 .. n : commands[i][1] = field}
           last(field) == CHOOSE i \in written(field) : \A j \in written(field) : j <= i
           after == [field \in Fields |-> IF written(field) = {} THEN tcDevice[field]
                                          ELSE commands[last(field)][2]]
<1>1. DOMAIN tcDevice = Fields
  BY DEF Devices, Fields
<1>2. DeviceAfter(commands, n) = after
  BY <1>1 DEF DeviceAfter
<1>3. ASSUME NEW i \in 1 .. n, commands[i][1] \in Fields
      PROVE  after[commands[i][1]] = commands[i][2]
  <2>1. written(commands[i][1]) = {i}
    BY <1>3
  <2>2. last(commands[i][1]) = i
    BY <2>1
  <2> QED
    BY <1>3, <2>1, <2>2
<1>4. ASSUME NEW field \in Fields, \A i \in 1 .. n : commands[i][1] # field
      PROVE  after[field] = tcDevice[field]
  BY <1>4
<1> QED
  BY <1>2, <1>3, <1>4

\* What initiate() has written when it breaks off behind n commands.
LEMMA InitiatedDevice ==
  ASSUME HeatingType, NEW n \in 0 .. 2
  PROVE  LET after == DeviceAfter(InitiateCommands, n)
         IN /\ after \in Devices
            /\ IF n >= 1 THEN after.setpoint = tcTemperature ELSE after.setpoint = tcDevice.setpoint
            /\ IF n >= 2 THEN after.mode = "AUTO" ELSE after.mode = tcDevice.mode
            /\ \A field \in {"output", "valveMode", "valve"} : after[field] = tcDevice[field]
<1> DEFINE commands == InitiateCommands
           after == DeviceAfter(commands, n)
<1>1. /\ commands[1][1] = "setpoint" /\ commands[1][2] = tcTemperature
      /\ commands[2][1] = "mode" /\ commands[2][2] = "AUTO"
  BY DEF InitiateCommands
<1> HIDE DEF commands
<1>2. \A i \in 1 .. n : i = 1 \/ i = 2
  OBVIOUS
<1>3. \A i, j \in 1 .. n : commands[i][1] = commands[j][1] => i = j
  BY <1>1, <1>2
<1>4. /\ \A i \in 1 .. n : commands[i][1] \in Fields => after[commands[i][1]] = commands[i][2]
      /\ \A field \in Fields : (\A i \in 1 .. n : commands[i][1] # field) => after[field] = tcDevice[field]
      /\ after = [field \in Fields |-> after[field]]
  BY <1>3, DeviceWritten DEF HeatingType
<1> HIDE DEF after
<1>5. /\ n >= 1 => after["setpoint"] = tcTemperature
      /\ n = 0 => after["setpoint"] = tcDevice["setpoint"]
  BY <1>1, <1>2, <1>4 DEF Fields
<1>6. /\ n >= 2 => after["mode"] = "AUTO"
      /\ n < 2 => after["mode"] = tcDevice["mode"]
  BY <1>1, <1>2, <1>4 DEF Fields
<1>7. \A field \in {"output", "valveMode", "valve"} : after[field] = tcDevice[field]
  BY <1>1, <1>2, <1>4 DEF Fields
<1>8. after \in Devices
  BY <1>2, <1>4, <1>5, <1>6, <1>7 DEF Fields, Devices, HeatingType
<1> QED
  BY <1>5, <1>6, <1>7, <1>8 DEF after, commands

\* What standby() has written when it breaks off behind n commands.
LEMMA StoodDevice ==
  ASSUME HeatingType, NEW n \in 0 .. 4
  PROVE  LET after == DeviceAfter(StandbyCommands, n)
         IN /\ after \in Devices /\ after.setpoint = tcDevice.setpoint
            /\ IF n >= 1 THEN after.mode = "MANUAL" ELSE after.mode = tcDevice.mode
            /\ IF n >= 2 THEN after.output = 0 ELSE after.output = tcDevice.output
            /\ IF n >= 3 THEN after.valveMode = "MANUAL" ELSE after.valveMode = tcDevice.valveMode
            /\ IF n >= 4 THEN after.valve = 0 ELSE after.valve = tcDevice.valve
<1> DEFINE commands == StandbyCommands
           after == DeviceAfter(commands, n)
<1>1. /\ commands[1][1] = "mode" /\ commands[1][2] = "MANUAL"
      /\ commands[2][1] = "output" /\ commands[2][2] = 0
      /\ commands[3][1] = "valveMode" /\ commands[3][2] = "MANUAL"
      /\ commands[4][1] = "valve" /\ commands[4][2] = 0
  BY DEF StandbyCommands
<1> HIDE DEF commands
<1>2. \A i \in 1 .. n : i = 1 \/ i = 2 \/ i = 3 \/ i = 4
  OBVIOUS
<1>3. \A i, j \in 1 .. n : commands[i][1] = commands[j][1] => i = j
  BY <1>1, <1>2
<1>4. /\ \A i \in 1 .. n : commands[i][1] \in Fields => after[commands[i][1]] = commands[i][2]
      /\ \A field \in Fields : (\A i \in 1 .. n : commands[i][1] # field) => after[field] = tcDevice[field]
      /\ after = [field \in Fields |-> after[field]]
  BY <1>3, DeviceWritten DEF HeatingType
<1> HIDE DEF after
<1>5. /\ n >= 1 => after["mode"] = "MANUAL"
      /\ n < 1 => after["mode"] = tcDevice["mode"]
  BY <1>1, <1>2, <1>4 DEF Fields
<1>6. /\ n >= 2 => after["output"] = 0
      /\ n < 2 => after["output"] = tcDevice["output"]
  BY <1>1, <1>2, <1>4 DEF Fields
<1>7. /\ n >= 3 => after["valveMode"] = "MANUAL"
      /\ n < 3 => after["valveMode"] = tcDevice["valveMode"]
  BY <1>1, <1>2, <1>4 DEF Fields
<1>8. /\ n >= 4 => after["valve"] = 0
      /\ n < 4 => after["valve"] = tcDevice["valve"]
  BY <1>1, <1>2, <1>4 DEF Fields
<1>9. after["setpoint"] = tcDevice["setpoint"]
  BY <1>1, <1>2, <1>4 DEF Fields
<1>10. after \in Devices
  BY <1>4, <1>5, <1>6, <1>7, <1>8, <1>9 DEF Fields, Devices, HeatingType
<1> QED
  BY <1>5, <1>6, <1>7, <1>8, <1>9, <1>10 DEF after, commands

-----------------------------------------------------------------------------
(* The steps.                                                               *)

LEMMA NoRampType == NoRamp \in Ramps
  BY TemperatureAssumption DEF NoRamp, Ramps, Temperatures

LEMMA HeatingInitInv == TemperatureInit => HeatingInv
  BY NoRampType
  DEF TemperatureInit, HeatingInv, HeatingType, HeatingIsBounded, StandbyIsCold, NoStaleHeating,
      SetpointOnItsWay, Devices

LEMMA TimePassesInv == ASSUME HeatingInv, TimePasses PROVE HeatingInv'
<1> USE DEF HeatingInv, HeatingType, Temperatures
<1>1. tcTemperature' \in Temperatures
  <2> DEFINE goal == IF tcDevice.mode = "AUTO" THEN tcDevice.setpoint ELSE tcDevice.output * TopTemperature
  <2>1. goal \in Temperatures
    <3>1. tcDevice.setpoint \in Temperatures /\ (tcDevice.output = 0 \/ tcDevice.output = 1)
      BY DEF Devices
    <3>2. 0 * TopTemperature = 0 /\ 1 * TopTemperature = TopTemperature
      BY TemperatureAssumption
    <3> QED
      BY <3>1, <3>2, TemperatureAssumption
  <2>2. tcTemperature' = CASE tcTemperature < goal -> tcTemperature + 1
                           [] tcTemperature > goal -> tcTemperature - 1
                           [] OTHER -> tcTemperature
    BY DEF TimePasses
  <2> HIDE DEF goal
  <2> QED
    BY <2>1, <2>2, TemperatureAssumption
<1>2. /\ tcRamp' \in Ramps /\ tcRamp'.state = tcRamp.state /\ tcRamp'.from = tcRamp.from
      /\ tcRamp'.target = tcRamp.target /\ tcRamp'.elapsed >= tcRamp.elapsed
  BY TemperatureAssumption DEF TimePasses, Ramps
<1>3. UNCHANGED <<tcDevice, tcSetBy, tcAutoBy, tcStood>>
  BY DEF TimePasses
<1>4. SetpointOnItsWay'
  BY <1>2, <1>3 DEF HeatingIsBounded, SetpointOnItsWay, Ramps, Devices
<1>5. StandbyIsCold' /\ NoStaleHeating'
  BY <1>3 DEF HeatingIsBounded, StandbyIsCold, NoStaleHeating
<1> QED
  BY <1>1, <1>2, <1>3, <1>4, <1>5 DEF HeatingIsBounded

\* What a ramp commands is on the way from its start to its target, as far as its clock is.
LEMMA SetpointBetween ==
  ASSUME NEW ramp \in Ramps
  PROVE  /\ SetpointOf(ramp) \in Temperatures
         /\ SetpointOf(ramp) \in (ramp.from .. ramp.target) \cup (ramp.target .. ramp.from)
         /\ SetpointOf(ramp) \in (ramp.from - ramp.elapsed) .. (ramp.from + ramp.elapsed)
  BY TemperatureAssumption DEF Ramps, SetpointOf, Temperatures

LEMMA StepOfInv ==
  ASSUME HeatingInv, NEW ramp \in Ramps, NEW ok \in BOOLEAN, StepOf(ramp, ok),
         UNCHANGED <<tcTemperature, tcAutoBy, tcStood>>
  PROVE  HeatingInv'
<1>1. /\ tcDevice' \in Devices
      /\ tcDevice'.mode = tcDevice.mode /\ tcDevice'.output = tcDevice.output
      /\ tcDevice'.valveMode = tcDevice.valveMode /\ tcDevice'.valve = tcDevice.valve
      /\ ok => tcDevice'.setpoint = SetpointOf(ramp)
      /\ tcSetBy' = IF ok THEN "ramp" ELSE tcSetBy
  BY SetpointBetween DEF StepOf, HeatingInv, HeatingType, Devices
<1>2. /\ tcRamp' \in Ramps /\ tcRamp'.from = ramp.from /\ tcRamp'.target = ramp.target
      /\ tcRamp'.elapsed = ramp.elapsed
      /\ tcRamp'.state = "live" => ok
  BY DEF StepOf, Ramps
<1>3. SetpointOnItsWay'
  BY <1>1, <1>2, SetpointBetween DEF SetpointOnItsWay
<1>4. StandbyIsCold' /\ NoStaleHeating'
  BY <1>1 DEF HeatingInv, HeatingIsBounded, StandbyIsCold, NoStaleHeating
<1> QED
  BY <1>1, <1>2, <1>3, <1>4 DEF HeatingInv, HeatingType, HeatingIsBounded

LEMMA RampInv ==
  ASSUME HeatingInv, NEW ok \in BOOLEAN,
         \/ \E target \in Temperatures : StartTemperatureRamp(target, ok)
         \/ AdvanceTemperatureRamp(ok) \/ StopTemperatureRamp(ok)
  PROVE  HeatingInv'
<1>1. ASSUME NEW target \in Temperatures, StartTemperatureRamp(target, ok) PROVE HeatingInv'
  <2>1. [state |-> "live", from |-> tcTemperature, target |-> target, elapsed |-> 0] \in Ramps
    BY TemperatureAssumption DEF HeatingInv, HeatingType, Ramps, Temperatures
  <2> QED
    BY <1>1, <2>1, StepOfInv DEF StartTemperatureRamp
<1>2. CASE AdvanceTemperatureRamp(ok)
  <2>1. CASE tcRamp.state = "live"
    BY <1>2, <2>1, StepOfInv DEF AdvanceTemperatureRamp, HeatingInv, HeatingType
  <2>2. CASE tcRamp.state # "live"
    BY <1>2, <2>2
    DEF AdvanceTemperatureRamp, HeatingInv, HeatingType, HeatingIsBounded, StandbyIsCold,
        NoStaleHeating, SetpointOnItsWay, Ramps
  <2> QED
    BY <2>1, <2>2
<1>3. CASE StopTemperatureRamp(ok)
  <2>1. tcRamp' \in Ramps /\ tcRamp'.state # "live"
    BY <1>3, NoRampType DEF StopTemperatureRamp, NoRamp
  <2>2. /\ tcDevice' \in Devices /\ tcDevice'.mode = tcDevice.mode /\ tcDevice'.output = tcDevice.output
        /\ tcDevice'.valveMode = tcDevice.valveMode /\ tcDevice'.valve = tcDevice.valve
    BY <1>3 DEF StopTemperatureRamp, HeatingInv, HeatingType, Devices
  <2> QED
    BY <1>3, <2>1, <2>2
    DEF StopTemperatureRamp, HeatingInv, HeatingType, HeatingIsBounded, StandbyIsCold,
        NoStaleHeating, SetpointOnItsWay
<1> QED
  BY <1>1, <1>2, <1>3

LEMMA InitiateInv ==
  ASSUME HeatingInv, NEW n \in 0 .. Len(InitiateCommands), InitiateTemperature(n) PROVE HeatingInv'
<1>1. n \in 0 .. 2
  BY DEF InitiateCommands
<1>2. /\ (\E i \in 1 .. n : InitiateCommands[i][1] = "setpoint") <=> n >= 1
      /\ (\E i \in 1 .. n : InitiateCommands[i][1] = "mode") <=> n >= 2
  <2>1. InitiateCommands[1][1] = "setpoint" /\ InitiateCommands[2][1] = "mode"
    BY DEF InitiateCommands
  <2>2. \A i \in 1 .. n : i = 1 \/ i = 2
    BY <1>1
  <2> QED
    BY <1>1, <2>1, <2>2
<1>3. /\ tcSetBy' = IF n >= 1 THEN "call" ELSE tcSetBy
      /\ tcAutoBy' = IF n >= 2 THEN "initiate" ELSE tcAutoBy
      /\ tcStood' = (tcStood /\ ~(n >= 2))
      /\ UNCHANGED <<tcTemperature, tcRamp>>
  BY <1>2 DEF InitiateTemperature
<1>4. /\ tcDevice' \in Devices
      /\ IF n >= 1 THEN tcDevice'.setpoint = tcTemperature ELSE tcDevice'.setpoint = tcDevice.setpoint
      /\ IF n >= 2 THEN tcDevice'.mode = "AUTO" ELSE tcDevice'.mode = tcDevice.mode
      /\ \A field \in {"output", "valveMode", "valve"} : tcDevice'[field] = tcDevice[field]
  BY <1>1, InitiatedDevice DEF InitiateTemperature, HeatingInv
<1>5. HeatingType'
  BY <1>3, <1>4 DEF HeatingInv, HeatingType
<1>6. StandbyIsCold'
  <2>1. tcStood' => tcStood /\ n < 2
    <3>1. ~(n >= 2) => n < 2
      BY <1>1
    <3> QED
      BY <1>3, <3>1, Zenon
  <2>2. n < 2 => tcDevice'.mode = tcDevice.mode
    BY <1>1, <1>4
  <2> QED
    BY <1>4, <2>1, <2>2 DEF HeatingInv, HeatingIsBounded, StandbyIsCold
<1>7. NoStaleHeating' /\ SetpointOnItsWay'
  BY <1>1, <1>3, <1>4 DEF HeatingInv, HeatingIsBounded, NoStaleHeating, SetpointOnItsWay
<1> QED
  BY <1>5, <1>6, <1>7 DEF HeatingInv, HeatingIsBounded

LEMMA StandbyInv ==
  ASSUME HeatingInv, NEW n \in 0 .. Len(StandbyCommands), StandbyTemperature(n) PROVE HeatingInv'
<1>1. n \in 0 .. 4 /\ Len(StandbyCommands) = 4
  BY DEF StandbyCommands
<1>2. /\ tcDevice' \in Devices /\ tcDevice'.setpoint = tcDevice.setpoint
      /\ IF n >= 1 THEN tcDevice'.mode = "MANUAL" ELSE tcDevice'.mode = tcDevice.mode
      /\ IF n >= 2 THEN tcDevice'.output = 0 ELSE tcDevice'.output = tcDevice.output
      /\ IF n >= 3 THEN tcDevice'.valveMode = "MANUAL" ELSE tcDevice'.valveMode = tcDevice.valveMode
      /\ IF n >= 4 THEN tcDevice'.valve = 0 ELSE tcDevice'.valve = tcDevice.valve
  BY <1>1, StoodDevice DEF StandbyTemperature, HeatingInv
<1>3. /\ tcStood' = (tcStood \/ n = 4)
      /\ tcSetBy' = IF n = 4 THEN "before" ELSE tcSetBy
      /\ UNCHANGED <<tcTemperature, tcRamp, tcAutoBy>>
  BY <1>1 DEF StandbyTemperature
<1>4. HeatingType'
  BY <1>2, <1>3 DEF HeatingInv, HeatingType
<1>5. StandbyIsCold' /\ NoStaleHeating' /\ SetpointOnItsWay'
  BY <1>1, <1>2, <1>3
  DEF HeatingInv, HeatingType, HeatingIsBounded, StandbyIsCold, NoStaleHeating, SetpointOnItsWay, Devices
<1> QED
  BY <1>4, <1>5 DEF HeatingInv, HeatingIsBounded

LEMMA PanelInv ==
  ASSUME HeatingInv,
         \/ \E mode \in {"AUTO", "MANUAL"} : SetHeaterMode(mode) \/ SetNeedleValveMode(mode)
         \/ \E level \in {0, 1} : SetHeaterOutput(level) \/ SetNeedleValve(level)
  PROVE  HeatingInv'
  BY DEF SetHeaterMode, SetNeedleValveMode, SetHeaterOutput, SetNeedleValve, HeatingInv, HeatingType,
         HeatingIsBounded, StandbyIsCold, NoStaleHeating, SetpointOnItsWay, Devices

LEMMA HeatingNextInv == HeatingInv /\ [TemperatureNext]_tcVars => HeatingInv'
<1> SUFFICES ASSUME HeatingInv, [TemperatureNext]_tcVars PROVE HeatingInv'
  OBVIOUS
<1>1. CASE TemperatureNext
  BY <1>1, TimePassesInv, RampInv, InitiateInv, StandbyInv, PanelInv DEF TemperatureNext
<1>2. CASE UNCHANGED tcVars
  BY <1>2
  DEF tcVars, HeatingInv, HeatingType, HeatingIsBounded, StandbyIsCold, NoStaleHeating, SetpointOnItsWay
<1> QED
  BY <1>1, <1>2

\* For every temperature range: behind standby() nothing heats, initiate() closes the loop on a setpoint
\* of its own, and a ramp commands what lies on its way, wherever a command raises.
THEOREM HeatingIsBoundedHolds == TemperatureSpec => []HeatingIsBounded
<1>1. HeatingInv => HeatingIsBounded
  BY DEF HeatingInv
<1> QED
  BY HeatingInitInv, HeatingNextInv, <1>1, PTL DEF TemperatureSpec

-----------------------------------------------------------------------------
(* The Tensormeter.                                                         *)

TensormeterType ==
  /\ tmDevice \in Settings /\ tmStep \in 0 .. 3
  /\ tmRequest \in Averagings /\ tmAveraging \in Averagings
  /\ tmUnread \in Seq({"old", "fresh"}) /\ tmTouched \in BOOLEAN

\* An initiation is one of an instrument of CryoSoft's own, and has set what the commands
\* before the next one set.
StepInv ==
  tmStep > 0 =>
    /\ tmExternal = FALSE /\ tmStood = FALSE
    /\ tmStep >= 2 => tmDevice.ceiling = TRUE
    /\ tmStep >= 3 => tmDevice.averaging = tmRequest

\* The VI waits for the windows that the instrument has, unless somebody changed them.
WindowInv ==
  tmInRun = TRUE /\ tmStep = 0 /\ tmTouched = FALSE => tmDevice.averaging = tmAveraging

TensormeterInv == TensormeterType /\ StepInv /\ WindowInv /\ TensormeterIsSound

LEMMA TensormeterInitInv == TensormeterInit => TensormeterInv
<1> SUFFICES ASSUME TensormeterInit PROVE TensormeterInv
  OBVIOUS
<1>1. TensormeterType /\ StepInv /\ WindowInv
  <2>1. tmTouched \in BOOLEAN
    BY DEF TensormeterInit
  <2> QED
    BY <2>1 DEF TensormeterInit, TensormeterType, StepInv, WindowInv
<1>2. "old" \notin ToSet(tmReading)
  BY DEF TensormeterInit, ToSet
<1>3. TensormeterIsSound
  BY <1>2
  DEF TensormeterInit, TensormeterIsSound, StandbyIsZero, DriveIsCapped, ToolOwnsDrive, ReadingIsSettled
<1> QED
  BY <1>1, <1>3 DEF TensormeterInv

\* What a command has done when it returns and when it raises.
LEMMA CommandEffect ==
  ASSUME tmDevice \in Settings, NEW s \in {"current", "ceiling", "averaging"},
         NEW v, NEW reaches \in BOOLEAN, NEW confirmed \in BOOLEAN,
         s = "current" => v \in {0, 1}, s = "ceiling" => v \in BOOLEAN, s = "averaging" => v \in Averagings,
         Sent(s, v, reaches, confirmed)
  PROVE  /\ tmDevice' \in Settings
         /\ tmDevice'[s] = v \/ tmDevice'[s] = tmDevice[s]
         /\ confirmed => tmDevice'[s] = v
         /\ \A f \in {"current", "ceiling", "averaging"} \ {s} : tmDevice'[f] = tmDevice[f]
<1>1. CASE reaches /\ tmAttached /\ ~tmHung
  <2>1. tmDevice' = [tmDevice EXCEPT ![s] = v]
    BY <1>1, Zenon DEF Sent
  <2> QED
    BY <2>1 DEF Settings
<1>2. CASE ~(reaches /\ tmAttached /\ ~tmHung)
  <2>1. tmDevice' = tmDevice
    BY <1>2, Zenon DEF Sent
  <2>2. confirmed => tmDevice[s] = v
    BY <1>2, Zenon DEF Sent, Confirmed
  <2> QED
    BY <2>1, <2>2
<1> QED
  BY <1>1, <1>2

LEMMA InitiationStepInv ==
  ASSUME TensormeterInv, NEW reaches \in BOOLEAN, InitiationStep(reaches)
  PROVE  TensormeterInv'
<1> DEFINE s == InitiationSteps[tmStep]
           v == ValueOfStep(s)
<1>1. /\ tmStep \in 1 .. 3 /\ tmExternal = FALSE /\ tmStood = FALSE /\ Len(InitiationSteps) = 3
      /\ tmRequest \in Averagings /\ tmDevice \in Settings
  BY DEF TensormeterInv, TensormeterType, StepInv, InitiationStep, InitiationSteps
<1>2. /\ tmStep = 1 => s = "ceiling" /\ v = TRUE
      /\ tmStep = 2 => s = "averaging" /\ v = tmRequest
      /\ tmStep = 3 => s = "current" /\ v = 1
  <2>1. /\ InitiationSteps[1] = "ceiling" /\ InitiationSteps[2] = "averaging"
        /\ InitiationSteps[3] = "current"
    BY DEF InitiationSteps
  <2> QED
    BY <2>1 DEF ValueOfStep
<1>3. PICK confirmed \in BOOLEAN :
        /\ Sent(s, v, reaches, confirmed)
        /\ tmStep' = IF confirmed /\ ~(tmStep = Len(InitiationSteps)) THEN tmStep + 1 ELSE 0
        /\ tmDriven' = (tmDriven \/ (s = "current" /\ tmDevice'.current = 1))
        /\ IF confirmed /\ tmStep = Len(InitiationSteps)
           THEN /\ tmInitiated' = TRUE /\ tmAveraging' = tmRequest
                /\ tmUnread' = <<>> /\ tmReading' = <<>>
           ELSE UNCHANGED <<tmInitiated, tmAveraging, tmUnread, tmReading>>
        /\ tmInRun' = (confirmed /\ tmStep = Len(InitiationSteps))
  BY DEF InitiationStep
<1>4. UNCHANGED <<tmQuiet, tmAttached, tmRequest, tmStood, tmWanted, tmTouched>>
  BY DEF InitiationStep
<1> HIDE DEF s, v
<1>5. /\ tmDevice' \in Settings
      /\ confirmed => tmDevice'[s] = v
      /\ tmDevice'[s] = v \/ tmDevice'[s] = tmDevice[s]
      /\ \A f \in {"current", "ceiling", "averaging"} \ {s} : tmDevice'[f] = tmDevice[f]
  <2>1. tmStep = 1 \/ tmStep = 2 \/ tmStep = 3
    BY <1>1
  <2>2. s \in {"current", "ceiling", "averaging"}
    BY <1>2, <2>1
  <2>3. /\ s = "current" => v \in {0, 1}
        /\ s = "ceiling" => v \in BOOLEAN
        /\ s = "averaging" => v \in Averagings
    BY <1>1, <1>2, <2>1
  <2>4. Sent(s, v, reaches, confirmed)
    BY <1>3
  <2> QED
    BY <1>1, <2>2, <2>3, <2>4, CommandEffect
<1>6. /\ tmStep' \in 0 .. 3
      /\ tmStep' > 0 => confirmed = TRUE /\ tmStep' = tmStep + 1
      /\ tmStep' = 0 => (confirmed = TRUE => tmStep = 3)
  BY <1>1, <1>3
<1>7. /\ tmAveraging' \in Averagings /\ tmUnread' \in Seq({"old", "fresh"})
      /\ tmReading' = <<>> \/ tmReading' = tmReading
      /\ tmInRun' = TRUE => confirmed = TRUE /\ tmStep = 3 /\ tmAveraging' = tmRequest
  <2>1. <<>> \in Seq({"old", "fresh"})
    OBVIOUS
  <2>2. tmAveraging \in Averagings /\ tmUnread \in Seq({"old", "fresh"})
    BY DEF TensormeterInv, TensormeterType
  <2>3. CASE confirmed = TRUE /\ tmStep = 3
    BY <1>1, <1>3, <2>1, <2>3
  <2>4. CASE ~(confirmed = TRUE /\ tmStep = 3)
    BY <1>1, <1>3, <2>2, <2>4
  <2> QED
    BY <2>3, <2>4
<1>8. TensormeterType'
  <2>1. tmTouched' \in BOOLEAN
    BY <1>4, Zenon DEF TensormeterInv, TensormeterType
  <2> QED
    BY <1>1, <1>4, <1>5, <1>6, <1>7, <2>1 DEF TensormeterType
<1>9. /\ tmStep = 1 /\ confirmed = TRUE => tmDevice'.ceiling = TRUE
      /\ tmStep >= 2 => tmDevice.ceiling = TRUE /\ tmDevice'.ceiling = TRUE
      /\ tmStep = 2 /\ confirmed = TRUE => tmDevice'.averaging = tmRequest
      /\ tmStep = 3 => tmDevice'.averaging = tmRequest
      /\ tmStep # 3 => tmDevice'.current = tmDevice.current
  <2>1. /\ tmStep >= 2 => tmDevice.ceiling = TRUE
        /\ tmStep = 3 => tmDevice.averaging = tmRequest
    BY <1>1 DEF TensormeterInv, StepInv
  <2>2. CASE tmStep = 1
    <3>1. s = "ceiling" /\ v = TRUE
      BY <1>2, <2>2
    <3>2. /\ confirmed = TRUE => tmDevice'["ceiling"] = TRUE
          /\ tmDevice'["current"] = tmDevice["current"]
      BY <1>5, <3>1
    <3> QED
      BY <2>2, <3>2
  <2>3. CASE tmStep = 2
    <3>1. s = "averaging" /\ v = tmRequest /\ tmDevice["ceiling"] = TRUE
      BY <1>2, <2>1, <2>3
    <3>2. /\ confirmed = TRUE => tmDevice'["averaging"] = tmRequest
          /\ tmDevice'["current"] = tmDevice["current"] /\ tmDevice'["ceiling"] = tmDevice["ceiling"]
      BY <1>5, <3>1
    <3> QED
      BY <2>3, <3>1, <3>2
  <2>4. CASE tmStep = 3
    <3>1. s = "current" /\ tmDevice["ceiling"] = TRUE /\ tmDevice["averaging"] = tmRequest
      BY <1>2, <2>1, <2>4
    <3>2. tmDevice'["averaging"] = tmDevice["averaging"] /\ tmDevice'["ceiling"] = tmDevice["ceiling"]
      BY <1>5, <3>1
    <3> QED
      BY <2>4, <3>1, <3>2
  <2>5. tmStep = 1 \/ tmStep = 2 \/ tmStep = 3
    BY <1>1
  <2> QED
    BY <2>2, <2>3, <2>4, <2>5, Zenon
<1>10. StepInv'
  BY <1>1, <1>4, <1>6, <1>9 DEF StepInv, tmQuiet
<1>11. WindowInv'
  BY <1>7, <1>9 DEF WindowInv
<1>12. DriveIsCapped'
  <2>1. tmDriven' => tmDriven \/ s = "current"
    BY <1>3
  <2>2. s = "current" => tmStep = 3
    BY <1>1, <1>2
  <2>3. tmDriven => tmDevice.ceiling = TRUE
    BY <1>1 DEF TensormeterInv, TensormeterIsSound, DriveIsCapped, Settings
  <2>4. tmDevice.ceiling = TRUE => tmDevice'.ceiling = TRUE
    <3>1. tmStep = 1 => (tmDevice.ceiling = TRUE => tmDevice'.ceiling = TRUE)
      BY <1>2, <1>5
    <3> QED
      BY <1>1, <1>9, <3>1
  <2>5. tmStep = 3 => tmDevice'.ceiling = TRUE
    BY <1>9
  <2> QED
    BY <2>1, <2>2, <2>3, <2>4, <2>5, Zenon DEF DriveIsCapped
<1>13. StandbyIsZero' /\ ToolOwnsDrive'
  BY <1>1, <1>4 DEF StandbyIsZero, ToolOwnsDrive, tmQuiet
<1>14. ReadingIsSettled'
  <2>1. "old" \notin ToSet(<<>>)
    BY DEF ToSet
  <2> QED
    BY <1>4, <1>7, <2>1 DEF TensormeterInv, TensormeterIsSound, ReadingIsSettled
<1> QED
  BY <1>8, <1>10, <1>11, <1>12, <1>13, <1>14 DEF TensormeterInv, TensormeterIsSound

-----------------------------------------------------------------------------
(* The rows of a reading.                                                   *)

\* A window that is asked for and one that is measured are the same as long as the averaging is.
LEMMA WindowsAsked ==
  ASSUME NEW a \in Nat \ {0}, NEW n \in Nat PROVE (a * n) \div a = n
  OBVIOUS

\* Behind the triggers come more rows than are taken, so that no older one is taken.
LEMMA FreshSelected ==
  ASSUME NEW rows \in Seq({"old", "fresh"}), NEW windows \in Nat, windows > ReadingsPerPoint
  PROVE  "old" \notin ToSet(Selected(rows \o [i \in 1 .. windows |-> "fresh"]))
<1> DEFINE fresh == [i \in 1 .. windows |-> "fresh"]
           all == rows \o fresh
<1>1. ReadingsPerPoint \in Nat \ {0}
  BY TensormeterAssumption
<1>2. fresh \in Seq({"old", "fresh"}) /\ Len(fresh) = windows
  OBVIOUS
<1>3. /\ all \in Seq({"old", "fresh"}) /\ Len(all) = Len(rows) + windows
      /\ \A i \in 1 .. Len(all) : i > Len(rows) => all[i] = "fresh"
  <2>1. \A i \in 1 .. windows : fresh[i] = "fresh"
    OBVIOUS
  <2> HIDE DEF fresh
  <2> QED
    BY <1>2, <2>1
<1> HIDE DEF fresh, all
<1>4. ~(Len(all) <= ReadingsPerPoint)
  BY <1>1, <1>3
<1>5. Selected(all) = SubSeq(all, Len(all) - ReadingsPerPoint + 1, Len(all))
  BY <1>4 DEF Selected
<1>6. \A i \in DOMAIN Selected(all) : Selected(all)[i] = "fresh"
  BY <1>1, <1>3, <1>5
<1> QED
  BY <1>6 DEF ToSet, all, fresh

LEMMA TakeRowsInv == ASSUME TensormeterInv, TakeRows PROVE TensormeterInv'
<1> DEFINE windows == (tmAveraging * (ReadingsPerPoint + 1)) \div tmDevice.averaging
<1>1. /\ tmInRun /\ tmStep = 0
      /\ tmReading' = Selected(tmUnread \o [i \in 1 .. windows |-> "fresh"])
      /\ tmUnread' = <<>>
      /\ UNCHANGED <<tmExternal, tmDevice, tmStep, tmRequest, tmAveraging, tmInRun, tmDriven, tmStood, tmWanted, tmTouched>>
  BY DEF TakeRows, tmQuiet
<1>2. ReadingIsSettled'
  <2> SUFFICES ASSUME ~tmTouched PROVE "old" \notin ToSet(tmReading')
    BY <1>1 DEF ReadingIsSettled
  <2>1. tmDevice.averaging = tmAveraging
    <3>1. tmInRun = TRUE /\ tmTouched = FALSE
      BY <1>1 DEF TensormeterInv, TensormeterType
    <3> QED
      BY <1>1, <3>1 DEF TensormeterInv, WindowInv
  <2>2. tmAveraging \in Nat \ {0} /\ ReadingsPerPoint + 1 \in Nat
    BY TensormeterAssumption DEF TensormeterInv, TensormeterType
  <2>3. windows = ReadingsPerPoint + 1
    BY <2>1, <2>2, WindowsAsked
  <2>4. windows \in Nat /\ windows > ReadingsPerPoint
    BY <2>3, TensormeterAssumption
  <2>5. tmUnread \in Seq({"old", "fresh"})
    BY DEF TensormeterInv, TensormeterType
  <2> HIDE DEF windows
  <2> QED
    BY <1>1, <2>4, <2>5, FreshSelected
<1>3. TensormeterType' /\ StepInv' /\ WindowInv'
  BY <1>1 DEF TensormeterInv, TensormeterType, StepInv, WindowInv
<1>4. StandbyIsZero' /\ DriveIsCapped' /\ ToolOwnsDrive'
  BY <1>1 DEF TensormeterInv, TensormeterIsSound, StandbyIsZero, DriveIsCapped, ToolOwnsDrive
<1> QED
  BY <1>2, <1>3, <1>4 DEF TensormeterInv, TensormeterIsSound

-----------------------------------------------------------------------------
(* The other steps.                                                         *)

LEMMA BeginInitiationInv ==
  ASSUME TensormeterInv, NEW averaging \in Averagings, BeginInitiation(averaging)
  PROVE  TensormeterInv'
  BY DEF BeginInitiation, tmQuiet, TensormeterInv, TensormeterType, StepInv, WindowInv, TensormeterIsSound,
         StandbyIsZero, DriveIsCapped, ToolOwnsDrive, ReadingIsSettled

LEMMA InitiateExternalInv ==
  ASSUME TensormeterInv, NEW averaging \in Averagings, NEW reacquired \in BOOLEAN,
         InitiateExternal(averaging, reacquired)
  PROVE  TensormeterInv'
<1>1. /\ tmExternal /\ tmStood' = FALSE /\ tmStep = 0
      /\ UNCHANGED <<tmExternal, tmDevice, tmStep, tmRequest, tmDriven, tmWanted>>
  BY DEF InitiateExternal, tmQuiet, TensormeterInv, TensormeterType, StepInv
<1>2. CASE tmAttached' /\ ~tmHung
  <2>1. /\ tmAveraging' = tmDevice.averaging /\ tmUnread' = <<>> /\ tmReading' = <<>>
    BY <1>2 DEF InitiateExternal, AveragingReadBack
  <2>2. tmDevice.averaging \in Averagings
    BY DEF TensormeterInv, TensormeterType, Settings
  <2>3. "old" \notin ToSet(tmReading')
    BY <2>1 DEF ToSet
  <2>4. tmTouched' \in BOOLEAN
    BY <1>2 DEF InitiateExternal
  <2>5. TensormeterType' /\ StepInv' /\ WindowInv'
    BY <1>1, <2>1, <2>2, <2>4 DEF TensormeterInv, TensormeterType, StepInv, WindowInv
  <2> QED
    BY <1>1, <2>3, <2>5
    DEF TensormeterInv, TensormeterIsSound, StandbyIsZero, DriveIsCapped, ToolOwnsDrive, ReadingIsSettled
<1>3. CASE ~(tmAttached' /\ ~tmHung)
  <2>1. tmInRun' = FALSE /\ UNCHANGED <<tmAveraging, tmUnread, tmReading, tmTouched>>
    BY <1>3 DEF InitiateExternal
  <2> QED
    BY <1>1, <2>1
    DEF TensormeterInv, TensormeterType, StepInv, WindowInv, TensormeterIsSound, StandbyIsZero,
        DriveIsCapped, ToolOwnsDrive, ReadingIsSettled
<1> QED
  BY <1>2, <1>3

LEMMA TensormeterStandbyInv ==
  ASSUME TensormeterInv, NEW reaches \in BOOLEAN, TensormeterStandby(reaches)
  PROVE  TensormeterInv'
<1>1. /\ tmStep = 0 /\ tmInRun' = FALSE
      /\ tmDriven' = (tmDriven /\ tmDevice'.current = 1)
      /\ UNCHANGED <<tmExternal, tmStep, tmRequest, tmAveraging, tmUnread, tmReading, tmWanted, tmTouched>>
  BY DEF TensormeterStandby, tmQuiet
<1>2. PICK confirmed \in BOOLEAN :
        /\ IF StandbyWrites THEN Sent("current", 0, reaches, confirmed)
           ELSE UNCHANGED tmDevice /\ confirmed = TRUE
        /\ tmStood' = (tmStood \/ confirmed)
  BY DEF TensormeterStandby
<1>3. tmDevice \in Settings
  BY DEF TensormeterInv, TensormeterType
<1>4. /\ tmDevice' \in Settings /\ tmDevice'.ceiling = tmDevice.ceiling
      /\ tmExternal => tmDevice' = tmDevice
      /\ ~tmExternal => tmDevice'.current = 0 \/ tmDevice'.current = tmDevice.current
      /\ ~tmExternal /\ confirmed => tmDevice'.current = 0
  <2>1. CASE tmExternal
    BY <1>2, <1>3, <2>1 DEF StandbyWrites
  <2>2. CASE ~tmExternal
    <3>1. Sent("current", 0, reaches, confirmed)
      BY <1>2, <2>2, Zenon DEF StandbyWrites
    <3> QED
      BY <1>3, <2>2, <3>1, CommandEffect
  <2> QED
    BY <2>1, <2>2
<1>5. TensormeterType' /\ StepInv' /\ WindowInv'
  BY <1>1, <1>4 DEF TensormeterInv, TensormeterType, StepInv, WindowInv
<1>6. StandbyIsZero'
  <2>1. tmStood' => tmStood \/ confirmed
    BY <1>2
  <2> QED
    BY <1>1, <1>4, <2>1, Zenon DEF TensormeterInv, TensormeterIsSound, StandbyIsZero
<1>7. DriveIsCapped' /\ ToolOwnsDrive' /\ ReadingIsSettled'
  BY <1>1, <1>4 DEF TensormeterInv, TensormeterIsSound, DriveIsCapped, ToolOwnsDrive, ReadingIsSettled
<1> QED
  BY <1>5, <1>6, <1>7 DEF TensormeterInv, TensormeterIsSound

LEMMA ToolInv ==
  ASSUME TensormeterInv, NEW s \in {"averaging", "current"}, NEW v,
         s = "averaging" => v \in Averagings, s = "current" => v \in {0, 1}, ToolSets(s, v)
  PROVE  TensormeterInv'
<1>1. /\ tmExternal /\ tmStep = 0
      /\ tmDevice' = [tmDevice EXCEPT ![s] = v] /\ tmWanted' = [tmWanted EXCEPT ![s] = v]
      /\ UNCHANGED <<tmExternal, tmStep, tmRequest, tmAveraging, tmInRun, tmUnread, tmReading, tmDriven, tmStood>>
  BY DEF ToolSets, tmQuiet, TensormeterInv, TensormeterType, StepInv
<1>2. tmTouched' \in BOOLEAN /\ (tmTouched' <=> tmTouched \/ s = "averaging")
  BY DEF ToolSets
<1>3. /\ tmDevice' \in Settings /\ tmDevice'.ceiling = tmDevice.ceiling
      /\ s # "averaging" => tmDevice'.averaging = tmDevice.averaging
  BY <1>1 DEF TensormeterInv, TensormeterType, Settings
<1>4. tmDevice' = tmWanted'
  BY <1>1 DEF TensormeterInv, TensormeterIsSound, ToolOwnsDrive
<1>5. TensormeterType' /\ StepInv'
  BY <1>1, <1>2, <1>3 DEF TensormeterInv, TensormeterType, StepInv
<1>6. WindowInv'
  <2>1. tmTouched' = FALSE => tmTouched = FALSE /\ s # "averaging"
    <3>1. tmTouched \in BOOLEAN
      BY DEF TensormeterInv, TensormeterType
    <3> QED
      BY <1>2, <3>1
  <2> QED
    BY <1>1, <1>3, <2>1 DEF TensormeterInv, WindowInv
<1>7. ReadingIsSettled'
  BY <1>1, <1>2, Zenon DEF TensormeterInv, TensormeterIsSound, ReadingIsSettled
<1>8. StandbyIsZero' /\ DriveIsCapped' /\ ToolOwnsDrive'
  BY <1>1, <1>3, <1>4 DEF TensormeterInv, TensormeterIsSound, StandbyIsZero, DriveIsCapped, ToolOwnsDrive
<1> QED
  BY <1>5, <1>6, <1>7, <1>8 DEF TensormeterInv, TensormeterIsSound

LEMMA TensormeterQuietInv ==
  ASSUME TensormeterInv, tmUnread' \in Seq({"old", "fresh"}),
         UNCHANGED <<tmExternal, tmDevice, tmStep, tmRequest, tmAveraging, tmInRun, tmReading, tmDriven, tmStood, tmWanted, tmTouched>>
  PROVE  TensormeterInv'
  BY DEF TensormeterInv, TensormeterType, StepInv, WindowInv, TensormeterIsSound,
         StandbyIsZero, DriveIsCapped, ToolOwnsDrive, ReadingIsSettled

LEMMA TensormeterNextInv == TensormeterInv /\ [TensormeterNext]_tmVars => TensormeterInv'
<1> SUFFICES ASSUME TensormeterInv, [TensormeterNext]_tmVars PROVE TensormeterInv'
  OBVIOUS
<1>1. CASE RunsFreely
  <2>1. tmUnread' \in Seq({"old", "fresh"})
    BY <1>1 DEF RunsFreely, TensormeterInv, TensormeterType
  <2> QED
    BY <1>1, <2>1, TensormeterQuietInv DEF RunsFreely, tmQuiet
<1>2. CASE Ping \/ HangsOrRecovers \/ UNCHANGED tmVars
  <2>1. UNCHANGED <<tmExternal, tmDevice, tmStep, tmRequest, tmAveraging, tmInRun, tmUnread, tmReading, tmDriven, tmStood, tmWanted, tmTouched>>
    BY <1>2 DEF Ping, HangsOrRecovers, tmVars, tmQuiet
  <2>2. tmUnread' \in Seq({"old", "fresh"})
    BY <2>1 DEF TensormeterInv, TensormeterType
  <2> QED
    BY <2>1, <2>2, TensormeterQuietInv
<1>3. CASE TakeRows
  BY <1>3, TakeRowsInv
<1>4. CASE \E averaging \in Averagings : BeginInitiation(averaging)
  BY <1>4, BeginInitiationInv
<1>5. CASE \E averaging \in Averagings, reacquired \in BOOLEAN : InitiateExternal(averaging, reacquired)
  BY <1>5, InitiateExternalInv
<1>6. CASE \E reaches \in BOOLEAN : InitiationStep(reaches) \/ TensormeterStandby(reaches)
  BY <1>6, InitiationStepInv, TensormeterStandbyInv
<1>7. CASE \E averaging \in Averagings : ToolSets("averaging", averaging)
  BY <1>7, ToolInv
<1>8. CASE \E on \in {0, 1} : ToolSets("current", on)
  BY <1>8, ToolInv
<1> QED
  BY <1>1, <1>2, <1>3, <1>4, <1>5, <1>6, <1>7, <1>8 DEF TensormeterNext

\* For any averaging times and numbers of rows: a standby that returned is off, the drive is
\* capped, the tool's settings are its own, and a reading has rows of its own point.
THEOREM TensormeterIsSoundHolds == TensormeterSpec => []TensormeterIsSound
<1>1. TensormeterInv => TensormeterIsSound
  BY DEF TensormeterInv
<1> QED
  BY TensormeterInitInv, TensormeterNextInv, <1>1, PTL DEF TensormeterSpec

-----------------------------------------------------------------------------
(* The switch matrix: what a sequence of writes leaves closed.              *)

\* The instrument has closed only channels that the card has.
OnCard == 0 .. LastChannel[swPoles]
SwitchInv == swPoles \in PoleModes /\ swClosed \in SUBSET OnCard

Specs == [form : {"configured"}, number : Nat]
Writes == [cmd : {"close", "open", "open_all"}, ch : Nat]

LEMMA CardHasAnEnd == SwitchInv => LastChannel[swPoles] \in Nat
  BY SwitchAssumption DEF SwitchInv, PoleModes

LEMMA WrittenStaysOnCard ==
  ASSUME SwitchInv, NEW closed \in SUBSET OnCard, NEW write \in Writes
  PROVE  Written(closed, write) \in SUBSET OnCard
<1>1. write.ch \in Nat /\ write.cmd \in {"close", "open", "open_all"}
  BY DEF Writes
<1>2. write.ch <= LastChannel[swPoles] => write.ch \in OnCard
  BY <1>1, CardHasAnEnd DEF OnCard
<1> HIDE DEF OnCard
<1> QED
  BY <1>1, <1>2 DEF Written

\* A sequence of writes is executed one after another.
LEMMA WriteByWrite ==
  ASSUME SwitchInv, NEW w \in Seq(Writes)
  PROVE  /\ ClosedBehind(w)[0] = swClosed
         /\ \A k \in 1 .. Len(w) : ClosedBehind(w)[k] = Written(ClosedBehind(w)[k - 1], w[k])
<1> DEFINE N == Len(w)
           X == SUBSET OnCard
           step == [q \in X \X (1 .. N) |-> Written(q[1], w[q[2]])]
           Behind(f) == f = [k \in 0 .. N |-> IF k = 0 THEN swClosed ELSE Written(f[k - 1], w[k])]
<1>1. N \in Nat /\ swClosed \in X
  BY DEF SwitchInv
<1>2. step \in [X \X (1 .. N) -> X]
  <2>1. ASSUME NEW q \in X \X (1 .. N) PROVE Written(q[1], w[q[2]]) \in X
    <3>1. q[1] \in SUBSET OnCard /\ w[q[2]] \in Writes
      BY <1>1
    <3> QED
      BY <3>1, WrittenStaysOnCard
  <2> QED
    BY <2>1
<1>3. PICK g \in [0 .. N -> X] : Iterates(g, swClosed, N, step)
  <2> HIDE DEF step, X, N
  <2> QED
    BY <1>1, <1>2, IterationExists
<1>4. ASSUME NEW k \in 1 .. N PROVE g[k] = Written(g[k - 1], w[k])
  <2>1. k - 1 \in 0 .. N
    BY <1>1
  <2>2. g[k - 1] \in X
    BY <2>1
  <2>3. step[<<g[k - 1], k>>] = Written(g[k - 1], w[k])
    <3> HIDE DEF X, N
    <3> QED
      BY <1>4, <2>2
  <2> HIDE DEF step, X, N
  <2> QED
    BY <1>3, <1>4, <2>3 DEF Iterates
<1>5. Behind(g)
  <2>1. \A k \in 0 .. N : g[k] = IF k = 0 THEN swClosed ELSE Written(g[k - 1], w[k])
    <3>1. \A k \in 0 .. N : k = 0 \/ k \in 1 .. N
      BY <1>1
    <3> HIDE DEF step, X, N
    <3> QED
      BY <1>3, <1>4, <3>1 DEF Iterates
  <2>2. g = [k \in 0 .. N |-> g[k]]
    OBVIOUS
  <2> HIDE DEF X, N
  <2> QED
    BY <2>1, <2>2
<1>6. Behind(ClosedBehind(w))
  <2>1. ClosedBehind(w) = CHOOSE f : Behind(f)
    BY DEF ClosedBehind
  <2> HIDE DEF Behind
  <2> QED
    BY <1>5, <2>1
<1> DEFINE F == ClosedBehind(w)
<1>7. F = [k \in 0 .. N |-> IF k = 0 THEN swClosed ELSE Written(F[k - 1], w[k])]
  BY <1>6
<1> HIDE DEF F, step, X, Behind
<1>8. F[0] = swClosed /\ \A k \in 1 .. N : F[k] = Written(F[k - 1], w[k])
  <2>1. 0 \in 0 .. N /\ \A k \in 1 .. N : k \in 0 .. N /\ k # 0
    BY <1>1
  <2> HIDE DEF N
  <2> QED
    BY <1>7, <2>1
<1> QED
  BY <1>8 DEF F, N

-----------------------------------------------------------------------------
\* The channels of the first k specifications that the card has.
Taken(specs, k) == {specs[i].number : i \in 1 .. k} \cap OnCard

\* The channels that were closed and are not among these.
Others(specs) == swClosed \ {specs[i].number : i \in DOMAIN specs}

\* What is closed behind k writes of a connection, by the switching mode.
Connecting(specs, k) ==
  LET n == Len(specs)
      opened == InOrder(Others(specs))
  IN IF swHot
     THEN IF k <= n THEN swClosed \cup Taken(specs, k)
          ELSE (swClosed \cup Taken(specs, n)) \ {opened[i] : i \in 1 .. (k - n)}
     ELSE IF k = 0 THEN swClosed ELSE Taken(specs, k - 1)

LEMMA OthersAreStale ==
  ASSUME NEW specs \in Seq(Specs) PROVE {s.number : s \in Stale(specs)} = Others(specs)
<1>1. \A ch : Readback(ch).number = ch
  BY DEF Readback
<1>2. \A s \in CurrentlyClosed : s = Readback(s.number) /\ s.number \in swClosed
  BY <1>1 DEF CurrentlyClosed
<1>3. \A ch \in swClosed : Readback(ch) \in CurrentlyClosed
  BY DEF CurrentlyClosed
<1> QED
  BY <1>1, <1>2, <1>3 DEF Stale, SpecKey, Others

LEMMA OthersInOrder ==
  ASSUME SwitchInv, NEW specs \in Seq(Specs)
  PROVE  /\ Cardinality(Others(specs)) \in Nat
         /\ Ascends(InOrder(Others(specs)), Others(specs), Cardinality(Others(specs)))
         /\ Opens(Stale(specs)) =
              [i \in 1 .. Cardinality(Others(specs)) |-> Open(InOrder(Others(specs))[i])]
<1> DEFINE S == Others(specs)
<1>1. S \in SUBSET Nat /\ IsFiniteSet(S)
  <2>1. S \subseteq OnCard
    BY DEF SwitchInv, Others
  <2>2. IsFiniteSet(OnCard) /\ OnCard \subseteq Nat
    <3> DEFINE last == LastChannel[swPoles]
    <3>1. last \in Nat
      BY CardHasAnEnd
    <3> HIDE DEF last
    <3>2. IsFiniteSet(0 .. last)
      BY <3>1, FS_Interval
    <3>3. 0 .. last \subseteq Nat
      BY <3>1
    <3> QED
      BY <3>2, <3>3 DEF OnCard, last
  <2> HIDE DEF S
  <2> QED
    BY <2>1, <2>2, FS_Subset
<1>2. Ascends(InOrder(S), S, Cardinality(S)) /\ Cardinality(S) \in Nat
  <2> HIDE DEF S
  <2> QED
    BY <1>1, InOrderAscends
<1>3. DOMAIN InOrder(S) = 1 .. Cardinality(S)
  <2> HIDE DEF S
  <2> QED
    BY <1>2 DEF Ascends
<1>4. Opens(Stale(specs)) = [i \in DOMAIN InOrder(S) |-> Open(InOrder(S)[i])]
  BY OthersAreStale DEF Opens
<1> HIDE DEF S
<1> QED
  BY <1>2, <1>3, <1>4 DEF S

\* The writes of a connection, one by one.
LEMMA ConnectIsWrites ==
  ASSUME SwitchInv, NEW specs \in Seq(Specs)
  PROVE  LET n == Len(specs)
             m == Cardinality(Others(specs))
             w == ConnectWrites(specs)
         IN /\ n \in Nat /\ m \in Nat /\ w \in Seq(Writes)
            /\ Len(w) = IF swHot THEN n + m ELSE n + 1
            /\ swHot => /\ \A k \in 1 .. n : w[k] = Close(specs[k].number)
                        /\ \A k \in (n + 1) .. (n + m) : w[k] = Open(InOrder(Others(specs))[k - n])
            /\ ~swHot => /\ w[1] = OpenEvery
                         /\ \A k \in 2 .. (n + 1) : w[k] = Close(specs[k - 1].number)
<1> DEFINE n == Len(specs)
           m == Cardinality(Others(specs))
           closes == [i \in 1 .. n |-> Close(specs[i].number)]
           opened == InOrder(Others(specs))
           opens == [i \in 1 .. m |-> Open(opened[i])]
<1>1. n \in Nat /\ m \in Nat /\ DOMAIN specs = 1 .. n
  BY OthersInOrder
<1>2. closes \in Seq(Writes) /\ Len(closes) = n
  <2>1. \A i \in 1 .. n : Close(specs[i].number) \in Writes
    <3>1. \A i \in 1 .. n : specs[i] \in Specs
      BY <1>1
    <3> QED
      BY <3>1 DEF Close, Writes, Specs
  <2>2. closes \in [1 .. n -> Writes]
    BY <2>1
  <2> HIDE DEF closes, n
  <2> QED
    BY <1>1, <2>2 DEF closes
<1>3. opens \in Seq(Writes) /\ Len(opens) = m
  <2>1. \A i \in 1 .. m : Open(opened[i]) \in Writes
    <3>1. \A i \in 1 .. m : opened[i] \in OnCard
      BY OthersInOrder DEF Ascends, Others, SwitchInv
    <3> QED
      BY <3>1, CardHasAnEnd DEF Open, Writes, OnCard
  <2>2. opens \in [1 .. m -> Writes]
    BY <2>1
  <2> HIDE DEF opens, m
  <2> QED
    BY <1>1, <2>2 DEF opens
<1>4. <<OpenEvery>> \in Seq(Writes) /\ Len(<<OpenEvery>>) = 1 /\ <<OpenEvery>>[1] = OpenEvery
  BY DEF OpenEvery, Writes
<1>5. Closes(specs) = closes /\ Opens(Stale(specs)) = opens
  BY <1>1, OthersInOrder DEF Closes
<1>6. ConnectWrites(specs) = IF swHot THEN closes \o opens ELSE <<OpenEvery>> \o closes
  BY <1>5 DEF ConnectWrites
<1>7. \A i \in 1 .. n : closes[i] = Close(specs[i].number)
  OBVIOUS
<1>8. \A i \in 1 .. m : opens[i] = Open(opened[i])
  OBVIOUS
<1> HIDE DEF closes, opens, n, m
<1>9. CASE swHot
  <2>1. /\ closes \o opens \in Seq(Writes) /\ Len(closes \o opens) = n + m
        /\ \A k \in 1 .. n : (closes \o opens)[k] = closes[k]
        /\ \A k \in (n + 1) .. (n + m) : (closes \o opens)[k] = opens[k - n] /\ k - n \in 1 .. m
    BY <1>1, <1>2, <1>3
  <2> QED
    BY <1>1, <1>6, <1>7, <1>8, <1>9, <2>1 DEF n, m
<1>10. CASE ~swHot
  <2>1. /\ <<OpenEvery>> \o closes \in Seq(Writes) /\ Len(<<OpenEvery>> \o closes) = n + 1
        /\ (<<OpenEvery>> \o closes)[1] = OpenEvery
        /\ \A k \in 2 .. (n + 1) : (<<OpenEvery>> \o closes)[k] = closes[k - 1] /\ k - 1 \in 1 .. n
    BY <1>1, <1>2, <1>4
  <2> QED
    BY <1>1, <1>6, <1>7, <1>10, <2>1 DEF n, m
<1> QED
  BY <1>9, <1>10

LEMMA TakenGrows ==
  ASSUME NEW specs \in Seq(Specs), NEW k \in 1 .. Len(specs)
  PROVE  Taken(specs, k) = Taken(specs, k - 1) \cup ({specs[k].number} \cap OnCard)
<1>1. 1 .. k = (1 .. (k - 1)) \cup {k}
  OBVIOUS
<1> HIDE DEF OnCard
<1> QED
  BY <1>1 DEF Taken

LEMMA ClosedOnCard ==
  ASSUME SwitchInv, NEW specs \in Seq(Specs), NEW k \in 1 .. Len(specs), NEW closed
  PROVE  Written(closed, Close(specs[k].number)) = closed \cup ({specs[k].number} \cap OnCard)
<1>1. specs[k].number \in Nat
  <2>1. specs[k] \in Specs
    OBVIOUS
  <2> QED
    BY <2>1 DEF Specs
<1>2. specs[k].number \in OnCard <=> specs[k].number <= LastChannel[swPoles]
  BY <1>1, CardHasAnEnd DEF OnCard
<1> HIDE DEF OnCard
<1> QED
  BY <1>2 DEF Written, Close

\* A connection passes through these states and no others.
LEMMA ConnectPasses ==
  ASSUME SwitchInv, NEW specs \in Seq(Specs)
  PROVE  \A k \in 0 .. Len(ConnectWrites(specs)) :
           ClosedBehind(ConnectWrites(specs))[k] = Connecting(specs, k)
<1> DEFINE n == Len(specs)
           m == Cardinality(Others(specs))
           opened == InOrder(Others(specs))
           w == ConnectWrites(specs)
           F == ClosedBehind(w)
           T == {k \in Nat : k <= Len(w) => F[k] = Connecting(specs, k)}
<1>1. /\ n \in Nat /\ m \in Nat /\ w \in Seq(Writes)
      /\ Len(w) = IF swHot THEN n + m ELSE n + 1
      /\ swHot => /\ \A k \in 1 .. n : w[k] = Close(specs[k].number)
                  /\ \A k \in (n + 1) .. (n + m) : w[k] = Open(opened[k - n])
      /\ ~swHot => /\ w[1] = OpenEvery
                   /\ \A k \in 2 .. (n + 1) : w[k] = Close(specs[k - 1].number)
  BY ConnectIsWrites
<1>2. F[0] = swClosed /\ \A k \in 1 .. Len(w) : F[k] = Written(F[k - 1], w[k])
  <2> HIDE DEF w
  <2> QED
    BY <1>1, WriteByWrite
<1> HIDE DEF w, F
<1>3. Taken(specs, 0) = {}
  BY DEF Taken
<1>4. 0 \in T
  <2>1. Connecting(specs, 0) = swClosed
    BY <1>1, <1>3 DEF Connecting
  <2> QED
    BY <1>2, <2>1
<1>5. ASSUME NEW k \in T PROVE k + 1 \in T
  <2> SUFFICES ASSUME k + 1 <= Len(w) PROVE F[k + 1] = Connecting(specs, k + 1)
    OBVIOUS
  <2>1. k \in Nat /\ k + 1 \in 1 .. Len(w) /\ k + 1 - 1 = k /\ Len(w) \in Nat
    BY <1>1
  <2>2. F[k] = Connecting(specs, k)
    BY <2>1
  <2>3. F[k + 1] = Written(Connecting(specs, k), w[k + 1])
    BY <1>2, <2>1, <2>2
  <2>4. CASE swHot /\ k + 1 <= n
    <3>1. k + 1 \in 1 .. n /\ k <= n /\ w[k + 1] = Close(specs[k + 1].number)
      BY <1>1, <2>1, <2>4
    <3>2. Connecting(specs, k) = swClosed \cup Taken(specs, k)
      BY <2>4, <3>1 DEF Connecting
    <3>3. Connecting(specs, k + 1) = swClosed \cup Taken(specs, k + 1)
      BY <2>4 DEF Connecting
    <3>4. Taken(specs, k + 1) = Taken(specs, k) \cup ({specs[k + 1].number} \cap OnCard)
      BY <2>1, <3>1, TakenGrows
    <3>5. F[k + 1] = Connecting(specs, k) \cup ({specs[k + 1].number} \cap OnCard)
      BY <2>3, <3>1, ClosedOnCard
    <3> QED
      BY <3>2, <3>3, <3>4, <3>5
  <2>5. CASE swHot /\ k + 1 > n
    <3>1. k + 1 \in (n + 1) .. (n + m) /\ w[k + 1] = Open(opened[k + 1 - n])
      BY <1>1, <2>1, <2>5
    <3>2. Connecting(specs, k) = (swClosed \cup Taken(specs, n)) \ {opened[i] : i \in 1 .. (k - n)}
      <4>1. CASE k <= n
        <5>1. k = n /\ 1 .. (k - n) = {}
          BY <1>1, <2>1, <2>5, <4>1
        <5> HIDE DEF n, opened
        <5> QED
          BY <2>5, <5>1 DEF Connecting, n, opened
      <4>2. CASE ~(k <= n)
        BY <2>5, <4>2 DEF Connecting
      <4> QED
        BY <4>1, <4>2
    <3>3. Connecting(specs, k + 1) = (swClosed \cup Taken(specs, n)) \ {opened[i] : i \in 1 .. (k + 1 - n)}
      BY <1>1, <2>1, <2>5 DEF Connecting
    <3>4. 1 .. (k + 1 - n) = (1 .. (k - n)) \cup {k + 1 - n}
      BY <1>1, <2>1, <3>1
    <3>5. F[k + 1] = Connecting(specs, k) \ {opened[k + 1 - n]}
      BY <2>3, <3>1 DEF Written, Open
    <3> HIDE DEF n, opened
    <3> QED
      BY <3>2, <3>3, <3>4, <3>5
  <2>6. CASE ~swHot /\ k = 0
    <3>1. w[k + 1] = OpenEvery
      BY <1>1, <2>6
    <3>2. F[k + 1] = {}
      BY <2>3, <3>1 DEF Written, OpenEvery
    <3>3. Connecting(specs, k + 1) = Taken(specs, 0)
      BY <2>6 DEF Connecting
    <3> QED
      BY <1>3, <3>2, <3>3
  <2>7. CASE ~swHot /\ k # 0
    <3>1. k + 1 \in 2 .. (n + 1) /\ k \in 1 .. n
      BY <1>1, <2>1, <2>7
    <3>2. w[k + 1] = Close(specs[k].number)
      BY <1>1, <2>1, <2>7, <3>1
    <3>3. Connecting(specs, k) = Taken(specs, k - 1) /\ Connecting(specs, k + 1) = Taken(specs, k)
      BY <2>1, <2>7 DEF Connecting
    <3>4. Taken(specs, k) = Taken(specs, k - 1) \cup ({specs[k].number} \cap OnCard)
      BY <3>1, TakenGrows
    <3>5. F[k + 1] = Connecting(specs, k) \cup ({specs[k].number} \cap OnCard)
      BY <2>3, <3>1, <3>2, ClosedOnCard
    <3> QED
      BY <3>3, <3>4, <3>5
  <2> QED
    BY <1>1, <2>1, <2>4, <2>5, <2>6, <2>7
<1>6. T = Nat
  <2> HIDE DEF T
  <2>1. T \in SUBSET Nat
    BY DEF T
  <2> QED
    BY <1>4, <1>5, <2>1, NatInd
<1>7. Len(w) \in Nat
  BY <1>1
<1> QED
  BY <1>6, <1>7 DEF F, w

\* The channels that a connection to these specifications is to leave closed.
WantedOf(specs) == Taken(specs, Len(specs))

\* Where a connection ends, and what it passes through on the way.
LEMMA ConnectEnds ==
  ASSUME SwitchInv, NEW specs \in Seq(Specs)
  PROVE  /\ Len(ConnectWrites(specs)) \in Nat
         /\ Connecting(specs, Len(ConnectWrites(specs))) = WantedOf(specs)
         /\ ~swHot => \A k \in 1 .. Len(ConnectWrites(specs)) : Connecting(specs, k) \subseteq WantedOf(specs)
         /\ swHot /\ swClosed # {} /\ specs # <<>> /\ (\A i \in DOMAIN specs : specs[i].number \in OnCard)
              => \A k \in 1 .. Len(ConnectWrites(specs)) : Connecting(specs, k) # {}
<1> DEFINE n == Len(specs)
           S == Others(specs)
           m == Cardinality(S)
           opened == InOrder(S)
           N == Len(ConnectWrites(specs))
<1>1. n \in Nat /\ m \in Nat /\ N = (IF swHot THEN n + m ELSE n + 1) /\ DOMAIN specs = 1 .. n
  BY ConnectIsWrites
<1>2. Ascends(opened, S, m)
  BY OthersInOrder
<1>3. swClosed \subseteq OnCard
  BY DEF SwitchInv
<1>4. S = swClosed \ {specs[i].number : i \in 1 .. n}
  BY <1>1 DEF Others
<1>5. \A k \in 0 .. n : Taken(specs, k) \subseteq Taken(specs, n)
  <2>1. \A k \in 0 .. n : 1 .. k \subseteq 1 .. n
    BY <1>1
  <2> HIDE DEF n, OnCard
  <2> QED
    BY <2>1 DEF Taken
<1>6. {opened[i] : i \in 1 .. m} = S /\ \A j \in 0 .. m : {opened[i] : i \in 1 .. j} \subseteq S
  <2>1. \A j \in 0 .. m : 1 .. j \subseteq 1 .. m
    BY <1>1
  <2>2. \A i \in 1 .. m : opened[i] \in S
    BY <1>2 DEF Ascends
  <2>3. \A e \in S : \E i \in 1 .. m : opened[i] = e
    BY <1>2 DEF Ascends
  <2> HIDE DEF opened, S, m
  <2> QED
    BY <2>1, <2>2, <2>3
<1>7. Taken(specs, n) \cap S = {}
  BY <1>4 DEF Taken
<1>8. (swClosed \cup Taken(specs, n)) \ S = Taken(specs, n)
  <2>1. swClosed \ S \subseteq Taken(specs, n)
    <3> HIDE DEF OnCard, S, n
    <3> QED
      BY <1>3, <1>4 DEF Taken
  <2> QED
    BY <1>7, <2>1
<1>9. CASE swHot
  <2>1. N = n + m
    BY <1>1, <1>9
  <2>2. Connecting(specs, N) = Taken(specs, n)
    <3>1. CASE m = 0
      <4>1. N = n /\ 1 .. m = {}
        <5> HIDE DEF N, n, m
        <5> QED
          BY <1>1, <2>1, <3>1
      <4>2. Connecting(specs, n) = swClosed \cup Taken(specs, n)
        BY <1>1, <1>9 DEF Connecting
      <4>3. S = {}
        BY <1>6, <4>1
      <4> HIDE DEF N, n, S
      <4> QED
        BY <1>8, <4>1, <4>2, <4>3
    <3>2. CASE m # 0
      <4>1. ~(N <= n) /\ N - n = m
        BY <1>1, <2>1, <3>2
      <4>2. Connecting(specs, N) = (swClosed \cup Taken(specs, n)) \ {opened[i] : i \in 1 .. (N - n)}
        <5> HIDE DEF N
        <5> QED
          BY <1>9, <4>1 DEF Connecting
      <4> QED
        BY <1>6, <1>8, <4>1, <4>2
    <3> QED
      BY <3>1, <3>2
  <2>3. ASSUME swClosed # {}, specs # <<>>, \A i \in DOMAIN specs : specs[i].number \in OnCard, NEW k \in 1 .. N
        PROVE  Connecting(specs, k) # {}
    <3>1. CASE k <= n
      <4>1. Connecting(specs, k) = swClosed \cup Taken(specs, k)
        BY <1>9, <3>1 DEF Connecting
      <4> QED
        BY <2>3, <4>1
    <3>2. CASE ~(k <= n)
      <4>1. Connecting(specs, k) = (swClosed \cup Taken(specs, n)) \ {opened[i] : i \in 1 .. (k - n)}
        BY <1>9, <3>2 DEF Connecting
      <4>2. k - n \in 0 .. m
        BY <1>1, <2>1, <3>2
      <4>3. Taken(specs, n) \subseteq Connecting(specs, k)
        <5>1. {opened[i] : i \in 1 .. (k - n)} \subseteq S
          BY <1>6, <4>2
        <5> HIDE DEF n, S, opened
        <5> QED
          BY <1>7, <4>1, <5>1
      <4>4. n # 0
        <5>1. n = 0 => specs = <<>>
          OBVIOUS
        <5> QED
          BY <2>3, <5>1
      <4>5. specs[1].number \in Taken(specs, n)
        BY <1>1, <2>3, <4>4 DEF Taken
      <4> QED
        BY <4>3, <4>5
    <3> QED
      BY <3>1, <3>2
  <2> QED
    BY <1>1, <1>9, <2>2, <2>3 DEF WantedOf
<1>10. CASE ~swHot
  <2>1. N = n + 1 /\ N # 0 /\ N - 1 = n
    BY <1>1, <1>10
  <2>2. \A k \in 1 .. N : k # 0 /\ k - 1 \in 0 .. n
    BY <1>1, <2>1
  <2>3. \A k \in 1 .. N : Connecting(specs, k) = Taken(specs, k - 1)
    BY <1>10, <2>2 DEF Connecting
  <2>4. N \in 1 .. N
    BY <1>1, <2>1
  <2> HIDE DEF N, n
  <2> QED
    BY <1>1, <1>5, <1>10, <2>1, <2>2, <2>3, <2>4 DEF WantedOf, N, n
<1> QED
  BY <1>9, <1>10

\* A connection, whether it is written in full or breaks off.
LEMMA ConnectStep ==
  ASSUME SwitchInv, NEW specs \in Seq(Specs), NEW done \in BOOLEAN,
         Executed(ConnectWrites(specs), "connect", specs, done), swPoles' = swPoles
  PROVE  /\ swClosed' \in SUBSET OnCard
         /\ swLast'.kind = "connect" /\ swLast'.ok = done /\ swLast'.specs = specs
         /\ done => swClosed' = WantedOf(specs)
         /\ \A k \in DOMAIN swLast'.passed :
              /\ ~swHot => swLast'.passed[k] \subseteq WantedOf(specs)
              /\ swHot /\ swClosed # {} /\ specs # <<>> /\ (\A i \in DOMAIN specs : specs[i].number \in OnCard)
                   => swLast'.passed[k] # {}
<1> DEFINE w == ConnectWrites(specs)
<1>1. PICK k \in 0 .. Len(w) :
        /\ done <=> k = Len(w)
        /\ swClosed' = ClosedBehind(w)[k]
        /\ swLast' = [kind |-> "connect", ok |-> done, specs |-> specs,
                      passed |-> [i \in 1 .. k |-> ClosedBehind(w)[i]]]
  BY DEF Executed
<1>2. Len(w) \in Nat /\ \A i \in 0 .. Len(w) : ClosedBehind(w)[i] = Connecting(specs, i)
  BY ConnectEnds, ConnectPasses
<1>3. swClosed' = Connecting(specs, k)
  BY <1>1, <1>2
<1>4. \A i \in 1 .. k : i \in 1 .. Len(w) /\ i \in 0 .. Len(w)
  BY <1>1, <1>2
<1>5. DOMAIN swLast'.passed = 1 .. k /\ \A i \in 1 .. k : swLast'.passed[i] = Connecting(specs, i)
  BY <1>1, <1>2, <1>4
<1>6. done => swClosed' = WantedOf(specs)
  BY <1>1, <1>3, ConnectEnds
<1>7. swClosed' \in SUBSET OnCard
  <2>1. \A i \in Nat : Taken(specs, i) \subseteq OnCard
    BY DEF Taken
  <2>2. swClosed \subseteq OnCard /\ Len(specs) \in Nat
    BY DEF SwitchInv
  <2>3. k \in Nat /\ (k # 0 => k - 1 \in Nat)
    BY <1>1
  <2> HIDE DEF OnCard
  <2> QED
    BY <1>3, <2>1, <2>2, <2>3 DEF Connecting
<1> HIDE DEF w
<1>8. \A i \in 1 .. k :
        /\ ~swHot => Connecting(specs, i) \subseteq WantedOf(specs)
        /\ swHot /\ swClosed # {} /\ specs # <<>> /\ (\A j \in DOMAIN specs : specs[j].number \in OnCard)
             => Connecting(specs, i) # {}
  BY <1>4, ConnectEnds DEF w
<1>9. swLast'.kind = "connect" /\ swLast'.ok = done /\ swLast'.specs = specs
  BY <1>1
<1> QED
  BY <1>5, <1>6, <1>7, <1>8, <1>9

\* ExclusiveMux, MakeBeforeBreak and BreakBeforeMake of one step.
RouteChanges ==
  swLast'.kind = "connect" =>
    /\ swLast'.ok => swClosed' = Wanted(swLast', swPoles)
    /\ swHot /\ swClosed # {} /\ (\A i \in DOMAIN swLast'.specs : swLast'.specs[i].number <= LastChannel[swPoles])
         => \A k \in DOMAIN swLast'.passed : swLast'.passed[k] # {}
    /\ ~swHot => \A k \in DOMAIN swLast'.passed : swLast'.passed[k] \subseteq Wanted(swLast', swPoles)

LEMMA ConnectIsExclusive ==
  ASSUME SwitchInv, NEW specs \in Seq(Specs), specs # <<>>, NEW done \in BOOLEAN,
         Executed(ConnectWrites(specs), "connect", specs, done), swPoles' = swPoles
  PROVE  SwitchInv' /\ RouteChanges
<1>1. \A i \in DOMAIN specs : /\ specs[i].number \in Nat
                              /\ specs[i].number \in OnCard <=> specs[i].number <= LastChannel[swPoles]
  <2>1. \A i \in DOMAIN specs : specs[i] \in Specs
    OBVIOUS
  <2> QED
    BY <2>1, CardHasAnEnd DEF Specs, OnCard
<1>2. swLast'.specs = specs => Wanted(swLast', swPoles) = WantedOf(specs)
  <2>1. DOMAIN specs = 1 .. Len(specs)
    OBVIOUS
  <2> HIDE DEF OnCard
  <2> QED
    BY <1>1, <2>1 DEF Wanted, WantedOf, Taken
<1>3. SwitchInv'
  BY ConnectStep DEF SwitchInv, OnCard
<1> HIDE DEF OnCard
<1> QED
  BY <1>1, <1>2, <1>3, ConnectStep DEF RouteChanges


LEMMA OneWrite ==
  ASSUME SwitchInv, NEW write \in Writes, Executed(<<write>>, "open", <<>>, TRUE), swPoles' = swPoles
  PROVE  SwitchInv' /\ swLast'.kind = "open"
<1> DEFINE w == <<write>>
<1>1. w \in Seq(Writes) /\ Len(w) = 1 /\ w[1] = write
  OBVIOUS
<1>2. ClosedBehind(w)[0] = swClosed /\ \A k \in 1 .. Len(w) : ClosedBehind(w)[k] = Written(ClosedBehind(w)[k - 1], w[k])
  <2> HIDE DEF w
  <2> QED
    BY <1>1, WriteByWrite
<1>3. swClosed' = ClosedBehind(w)[1] /\ swLast'.kind = "open"
  <2> HIDE DEF w
  <2> QED
    BY <1>1 DEF Executed, w
<1> HIDE DEF w
<1>4. swClosed' = Written(swClosed, write)
  BY <1>1, <1>2, <1>3
<1>5. swClosed' \in SUBSET OnCard
  BY <1>4, WrittenStaysOnCard DEF SwitchInv
<1> QED
  BY <1>3, <1>5 DEF SwitchInv, OnCard

\* A command that is no connection: it leaves no channel closed that the card does not have.
LEMMA OtherCommands ==
  ASSUME SwitchInv, NEW ch \in Nat,
         \/ OpenChannel(ch) \/ OpenAll \/ ByHand(ch) \/ InitiateSwitch
         \/ \E p \in PoleModes : SetPoleMode(p)
         \/ \E e \in BOOLEAN : SetHotSwitching(e)
  PROVE  SwitchInv' /\ swLast'.kind # "connect"
<1>1. CASE OpenChannel(ch)
  <2>1. Open(ch) \in Writes
    BY DEF Open, Writes
  <2> QED
    BY <1>1, <2>1, OneWrite DEF OpenChannel
<1>2. CASE OpenAll
  <2>1. OpenEvery \in Writes
    BY DEF OpenEvery, Writes
  <2> QED
    BY <1>2, <2>1, OneWrite DEF OpenAll
<1>3. CASE ByHand(ch)
  BY <1>3, CardHasAnEnd DEF ByHand, SwitchInv, OnCard
<1>4. CASE InitiateSwitch \/ \E p \in PoleModes : SetPoleMode(p)
  BY <1>4 DEF InitiateSwitch, SetPoleMode, Repoled, SwitchInv
<1>5. CASE \E e \in BOOLEAN : SetHotSwitching(e)
  BY <1>5 DEF SetHotSwitching, SwitchInv, OnCard
<1> QED
  BY <1>1, <1>2, <1>3, <1>4, <1>5

LEMMA SwitchStep == SwitchInv /\ SwitchNext => SwitchInv' /\ RouteChanges
<1> SUFFICES ASSUME SwitchInv, SwitchNext PROVE SwitchInv' /\ RouteChanges
  OBVIOUS
<1>1. Channels \subseteq Nat
  BY DEF Channels
<1>2. ASSUME NEW r \in Routes, SelectRoute(r) PROVE SwitchInv' /\ RouteChanges
  <2>1. Configured(r) \in Seq(Specs) /\ Configured(r) # <<>>
    <3>1. RouteSpecs[r] \in Seq(Nat) /\ RouteSpecs[r] # <<>>
      BY SwitchAssumption
    <3>2. \A i \in DOMAIN RouteSpecs[r] : Spec(RouteSpecs[r][i]) \in Specs
      BY <3>1 DEF Spec, Specs
    <3>3. Configured(r) \in [1 .. Len(RouteSpecs[r]) -> Specs] /\ Len(RouteSpecs[r]) \in Nat
      BY <3>1, <3>2 DEF Configured
    <3>4. Len(RouteSpecs[r]) # 0
      BY <3>1
    <3>5. Configured(r) \in Seq(Specs) /\ Len(Configured(r)) = Len(RouteSpecs[r])
      BY <3>3
    <3> QED
      BY <3>4, <3>5
  <2> QED
    BY <1>2, <2>1, ConnectIsExclusive DEF SelectRoute
<1>3. ASSUME NEW ch \in Channels, CloseChannel(ch) PROVE SwitchInv' /\ RouteChanges
  <2>1. <<Spec(ch)>> \in Seq(Specs) /\ <<Spec(ch)>> # <<>>
    BY <1>1 DEF Spec, Specs
  <2> QED
    BY <1>3, <2>1, ConnectIsExclusive DEF CloseChannel
<1>4. ASSUME NEW ch \in Channels, OpenChannel(ch) \/ ByHand(ch) PROVE SwitchInv' /\ RouteChanges
  BY <1>1, <1>4, OtherCommands DEF RouteChanges
<1>5. ASSUME OpenAll \/ InitiateSwitch \/ (\E p \in PoleModes : SetPoleMode(p)) \/ (\E e \in BOOLEAN : SetHotSwitching(e))
      PROVE  SwitchInv' /\ RouteChanges
  <2>1. 0 \in Nat
    OBVIOUS
  <2> QED
    BY <1>5, <2>1, OtherCommands DEF RouteChanges
<1> QED
  BY <1>2, <1>3, <1>4, <1>5 DEF SwitchNext

SwitchSpec == SwitchInit /\ [][SwitchNext]_swVars

\* A change of route ends with the channels of the new one and with no other, with hot switching
\* without an open circuit on the way and with cold switching without two routes at once: for every
\* card, every configuration of routes and every write at which a command breaks off.
THEOREM RoutesAreExclusiveHolds == SwitchSpec => RoutesAreExclusive
<1>1. SwitchInit => SwitchInv
  BY SwitchAssumption DEF SwitchInit, SwitchInv
<1>2. SwitchInv /\ [SwitchNext]_swVars => SwitchInv' /\ [RouteChanges]_swVars
  <2>1. SwitchInv /\ UNCHANGED swVars => SwitchInv'
    BY DEF swVars, SwitchInv, OnCard
  <2> QED
    BY <2>1, SwitchStep
<1>3. RouteChanges => /\ swLast'.kind = "connect" /\ swLast'.ok => swClosed' = Wanted(swLast', swPoles)
                      /\ /\ swLast'.kind = "connect"
                         /\ swHot
                         /\ swClosed # {}
                         /\ \A i \in DOMAIN swLast'.specs : swLast'.specs[i].number <= LastChannel[swPoles]
                         => \A k \in DOMAIN swLast'.passed : swLast'.passed[k] # {}
                      /\ swLast'.kind = "connect" /\ ~swHot =>
                           \A k \in DOMAIN swLast'.passed : swLast'.passed[k] \subseteq Wanted(swLast', swPoles)
  BY DEF RouteChanges
<1> QED
  BY <1>1, <1>2, <1>3, PTL DEF SwitchSpec, RoutesAreExclusive, ExclusiveMux, MakeBeforeBreak, BreakBeforeMake

-----------------------------------------------------------------------------
(* The current sources: a relayed reading.                                  *)

Tallies == [got : Nat, fails : Nat, stop : BOOLEAN]

\* _poll_readings() answer by answer.
LEMMA PollStepByStep ==
  ASSUME NEW n \in Nat, NEW answers \in [1 .. n -> Answers]
  PROVE  \E f \in [0 .. n -> Tallies] :
           /\ f[0] = NothingTallied
           /\ \A k \in 1 .. n : f[k] = Tallied(f[k - 1], answers[k])
           /\ PollReadings(answers) = f[n].got
<1> DEFINE step == [q \in Tallies \X (1 .. n) |-> Tallied(q[1], answers[q[2]])]
           Behind(f) == f = [k \in 0 .. n |-> IF k = 0 THEN NothingTallied ELSE Tallied(f[k - 1], answers[k])]
           F == CHOOSE f : Behind(f)
<1>1. answers \in Seq(Answers) /\ Len(answers) = n
  OBVIOUS
<1>2. NothingTallied \in Tallies /\ \A acc \in Tallies, a \in Answers : Tallied(acc, a) \in Tallies
  BY DEF NothingTallied, Tallied, Tallies
<1>3. step \in [Tallies \X (1 .. n) -> Tallies]
  BY <1>2
<1>4. PICK g \in [0 .. n -> Tallies] : Iterates(g, NothingTallied, n, step)
  <2> HIDE DEF step
  <2> QED
    BY <1>2, <1>3, IterationExists
<1>5. ASSUME NEW k \in 1 .. n PROVE g[k] = Tallied(g[k - 1], answers[k])
  <2>1. g[k - 1] \in Tallies
    <3>1. k - 1 \in 0 .. n
      OBVIOUS
    <3> QED
      BY <3>1
  <2>2. step[<<g[k - 1], k>>] = Tallied(g[k - 1], answers[k])
    BY <1>5, <2>1
  <2> HIDE DEF step
  <2> QED
    BY <1>4, <1>5, <2>2 DEF Iterates
<1>6. g[0] = NothingTallied
  BY <1>4 DEF Iterates
<1>7. Behind(g)
  <2>1. \A k \in 0 .. n : g[k] = IF k = 0 THEN NothingTallied ELSE Tallied(g[k - 1], answers[k])
    <3>1. \A k \in 0 .. n : k = 0 \/ k \in 1 .. n
      OBVIOUS
    <3> HIDE DEF step
    <3> QED
      BY <1>5, <1>6, <3>1
  <2>2. g = [k \in 0 .. n |-> g[k]]
    OBVIOUS
  <2> HIDE DEF step
  <2> QED
    BY <2>1, <2>2
<1>8. Behind(F)
  BY <1>7
<1>9. F = g
  <2>1. F = [k \in 0 .. n |-> IF k = 0 THEN NothingTallied ELSE Tallied(F[k - 1], answers[k])]
    BY <1>8
  <2> HIDE DEF F, step, Behind
  <2> DEFINE T == {k \in Nat : k <= n => F[k] = g[k]}
  <2>2. 0 \in T
    BY <1>6, <2>1
  <2>3. ASSUME NEW k \in T PROVE k + 1 \in T
    <3> SUFFICES ASSUME k + 1 <= n PROVE F[k + 1] = g[k + 1]
      OBVIOUS
    <3>1. k \in Nat /\ k + 1 \in 1 .. n /\ k + 1 \in 0 .. n /\ k + 1 # 0 /\ k + 1 - 1 = k
      OBVIOUS
    <3>2. F[k] = g[k]
      BY <3>1
    <3>3. F[k + 1] = Tallied(F[k], answers[k + 1])
      BY <2>1, <3>1
    <3>4. g[k + 1] = Tallied(g[k], answers[k + 1])
      BY <1>5, <3>1
    <3> QED
      BY <3>2, <3>3, <3>4
  <2>4. T = Nat
    <3> HIDE DEF T
    <3>1. T \in SUBSET Nat
      BY DEF T
    <3> QED
      BY <2>2, <2>3, <3>1, NatInd
  <2>5. \A k \in 0 .. n : F[k] = g[k]
    BY <2>4
  <2>6. F = [k \in 0 .. n |-> F[k]]
    <3> DEFINE rhs == [k \in 0 .. n |-> IF k = 0 THEN NothingTallied ELSE Tallied(F[k - 1], answers[k])]
    <3>1. rhs = [k \in 0 .. n |-> rhs[k]]
      OBVIOUS
    <3>2. F = rhs
      BY <2>1
    <3> HIDE DEF rhs
    <3> QED
      BY <3>1, <3>2
  <2>7. g = [k \in 0 .. n |-> g[k]]
    OBVIOUS
  <2> QED
    BY <2>5, <2>6, <2>7
<1>10. PollReadings(answers) = F[n].got
  BY <1>1 DEF PollReadings
<1> QED
  BY <1>5, <1>6, <1>9, <1>10

Failed(answers, n) == {i \in 1 .. n : answers[i] # "value"}
ThirdFailures(answers, n) ==
  {i \in Failed(answers, n) : i >= 3 /\ i - 1 \in Failed(answers, n) /\ i - 2 \in Failed(answers, n)}
Good(answers, n, k) == Cardinality((1 .. k) \ Failed(answers, n))

\* How many of the last k answers failed in a row: not yet three.
RowIsRight(answers, n, k, fails) ==
  /\ fails <= 2 /\ fails <= k
  /\ \A j \in (k - fails + 1) .. k : j \in Failed(answers, n)
  /\ fails < k => k - fails \notin Failed(answers, n)
  /\ \A j \in ThirdFailures(answers, n) : j > k

\* What the tally says behind k answers: how many were values, how many of the last ones
\* failed, and where the third failure in a row was if it has stopped.
TallyIsRight(answers, n, k, tally) ==
  IF tally.stop
  THEN \E e \in ThirdFailures(answers, n) :
         /\ \A j \in ThirdFailures(answers, n) : e <= j
         /\ tally.got = Good(answers, n, e)
  ELSE tally.got = Good(answers, n, k) /\ RowIsRight(answers, n, k, tally.fails)

LEMMA GoodGrows ==
  ASSUME NEW n \in Nat, NEW answers, NEW k \in Nat, k + 1 <= n
  PROVE  /\ Good(answers, n, k) \in Nat
         /\ Good(answers, n, k + 1) =
              IF k + 1 \in Failed(answers, n) THEN Good(answers, n, k) ELSE Good(answers, n, k) + 1
<1> DEFINE F == Failed(answers, n)
           G == (1 .. k) \ F
<1>1. IsFiniteSet(G)
  <2>1. IsFiniteSet(1 .. k)
    BY FS_Interval
  <2> HIDE DEF F
  <2> QED
    BY <2>1, FS_Subset
<1>2. 1 .. (k + 1) = (1 .. k) \cup {k + 1} /\ k + 1 \notin 1 .. k
  OBVIOUS
<1>3. CASE k + 1 \in F
  <2>1. (1 .. (k + 1)) \ F = G
    <3> HIDE DEF F
    <3> QED
      BY <1>2, <1>3
  <2> HIDE DEF F, G
  <2>2. Cardinality(G) \in Nat
    BY <1>1, FS_CardinalityType
  <2> QED
    BY <1>3, <2>1, <2>2 DEF Good, F, G
<1>4. CASE k + 1 \notin F
  <2>1. (1 .. (k + 1)) \ F = G \cup {k + 1} /\ k + 1 \notin G
    <3> HIDE DEF F
    <3> QED
      BY <1>2, <1>4
  <2> HIDE DEF F, G
  <2>2. Cardinality(G) \in Nat
    BY <1>1, FS_CardinalityType
  <2>3. Cardinality(G \cup {k + 1}) = Cardinality(G) + 1
    BY <1>1, <2>1, FS_AddElement
  <2> QED
    BY <1>4, <2>1, <2>2, <2>3 DEF Good, F, G
<1> QED
  BY <1>3, <1>4

\* One answer more.
LEMMA TallyStep ==
  ASSUME NEW n \in Nat, NEW answers \in [1 .. n -> Answers], NEW k \in Nat, k + 1 <= n,
         NEW tally \in Tallies, TallyIsRight(answers, n, k, tally)
  PROVE  TallyIsRight(answers, n, k + 1, Tallied(tally, answers[k + 1]))
<1> DEFINE F == Failed(answers, n)
           E == ThirdFailures(answers, n)
           after == Tallied(tally, answers[k + 1])
<1>1. /\ tally.got \in Nat /\ tally.fails \in Nat /\ tally.stop \in BOOLEAN
      /\ tally = [got |-> tally.got, fails |-> tally.fails, stop |-> tally.stop]
  BY DEF Tallies
<1>2. k + 1 \in 1 .. n /\ (k + 1 \in F <=> answers[k + 1] # "value")
  BY DEF Failed
<1>3. \A i \in E : i \in F /\ i >= 3 /\ i - 1 \in F /\ i - 2 \in F /\ i \in Nat
  BY DEF ThirdFailures, Failed
<1>4. \A i \in F : i \in Nat /\ 1 <= i /\ i <= n
  BY DEF Failed
<1>5. Good(answers, n, k) \in Nat /\ Good(answers, n, k + 1) = IF k + 1 \in F THEN Good(answers, n, k) ELSE Good(answers, n, k) + 1
  BY GoodGrows
<1>6. CASE tally.stop
  <2>1. after = tally
    BY <1>6 DEF Tallied
  <2> QED
    BY <1>6, <2>1 DEF TallyIsRight
<1>7. CASE ~tally.stop
  <2>0. /\ tally.got = Good(answers, n, k)
        /\ tally.fails <= 2 /\ tally.fails <= k
        /\ \A j \in (k - tally.fails + 1) .. k : j \in F
        /\ tally.fails < k => k - tally.fails \notin F
        /\ \A j \in E : j > k
    BY <1>7 DEF TallyIsRight, RowIsRight
  <2>1. CASE k + 1 \notin F
    <3>1. after = [got |-> tally.got + 1, fails |-> 0, stop |-> FALSE]
      BY <1>2, <1>7, <2>1 DEF Tallied
    <3>2. \A j \in E : j > k + 1
      BY <1>3, <2>0, <2>1
    <3> HIDE DEF F, E, after
    <3>3. /\ after.got = Good(answers, n, k + 1)
          /\ after.fails = 0 /\ after.stop = FALSE
      BY <1>5, <2>0, <2>1, <3>1
    <3>4. /\ after.fails <= 2 /\ after.fails <= k + 1
          /\ \A j \in (k + 1 - after.fails + 1) .. (k + 1) : j \in F
          /\ after.fails < k + 1 => k + 1 - after.fails \notin F
      BY <2>1, <3>3
    <3> QED
      BY <3>2, <3>3, <3>4 DEF TallyIsRight, RowIsRight, F, E, after
  <2>2. CASE k + 1 \in F /\ tally.fails = 2
    <3>1. after.stop /\ after.got = tally.got
      <4>1. after = [got |-> tally.got, fails |-> tally.fails + 1, stop |-> tally.fails + 1 >= 3]
        BY <1>2, <1>7, <2>2 DEF Tallied
      <4>2. tally.fails + 1 >= 3
        BY <2>2
      <4> HIDE DEF after
      <4> QED
        BY <4>1, <4>2
    <3>2. k - 1 \in (k - tally.fails + 1) .. k /\ k \in (k - tally.fails + 1) .. k /\ k >= 2
      BY <2>0, <2>2
    <3>3. k + 1 \in E
      <4>1. k + 1 \in F /\ k + 1 - 1 \in F /\ k + 1 - 2 \in F /\ k + 1 >= 3
        <5>1. k + 1 - 1 = k /\ k + 1 - 2 = k - 1
          OBVIOUS
        <5> HIDE DEF F
        <5> QED
          BY <2>0, <2>2, <3>2, <5>1
      <4> QED
        BY <4>1 DEF ThirdFailures
    <3>4. \A j \in E : k + 1 <= j
      BY <1>3, <2>0
    <3>5. after.got = Good(answers, n, k + 1)
      BY <1>5, <2>0, <2>2, <3>1
    <3> HIDE DEF F, E, after
    <3> QED
      BY <3>1, <3>3, <3>4, <3>5 DEF TallyIsRight, F, E, after
  <2>3. CASE k + 1 \in F /\ tally.fails # 2
    <3>1. after.got = tally.got /\ after.fails = tally.fails + 1 /\ after.stop = FALSE /\ after.fails <= 2
      <4>1. after = [got |-> tally.got, fails |-> tally.fails + 1, stop |-> tally.fails + 1 >= 3]
        BY <1>2, <1>7, <2>3 DEF Tallied
      <4>2. (tally.fails + 1 >= 3) = FALSE /\ tally.fails + 1 <= 2
        <5>1. ~(tally.fails + 1 >= 3) /\ tally.fails + 1 <= 2
          BY <1>1, <2>0, <2>3
        <5> QED
          BY <5>1
      <4> HIDE DEF after
      <4> QED
        BY <4>1, <4>2
    <3>2. \A j \in E : j > k + 1
      <4> SUFFICES ASSUME k + 1 \in E PROVE FALSE
        BY <1>3, <2>0
      <4>1. k \in F /\ k - 1 \in F /\ k >= 2
        <5>1. k + 1 - 1 = k /\ k + 1 - 2 = k - 1
          OBVIOUS
        <5> HIDE DEF F, E
        <5> QED
          BY <1>3, <5>1
      <4>2. tally.fails = 0 \/ tally.fails = 1
        BY <1>1, <2>0, <2>3
      <4>3. k - 0 = k
        OBVIOUS
      <4> HIDE DEF F, E
      <4> QED
        BY <2>0, <4>1, <4>2, <4>3
    <3>3. \A j \in (k + 1 - after.fails + 1) .. (k + 1) : j = k + 1 \/ j \in (k - tally.fails + 1) .. k
      BY <1>1, <3>1
    <3>4. k + 1 - after.fails = k - tally.fails /\ (after.fails < k + 1 <=> tally.fails < k) /\ after.fails <= k + 1
      <4> HIDE DEF after
      <4> QED
        BY <1>1, <2>0, <3>1
    <3> HIDE DEF F, E, after
    <3>5. after.got = Good(answers, n, k + 1)
      BY <1>5, <2>0, <2>3, <3>1
    <3>6. \A j \in (k + 1 - after.fails + 1) .. (k + 1) : j \in F
      BY <2>0, <2>3, <3>3
    <3>7. after.fails < k + 1 => k + 1 - after.fails \notin F
      BY <2>0, <3>4
    <3>8. RowIsRight(answers, n, k + 1, after.fails)
      <4>1. after.fails \in Nat /\ after.fails <= 2 /\ after.fails <= k + 1
        BY <1>1, <3>1, <3>4
      <4>2. \A j \in (k + 1 - after.fails + 1) .. (k + 1) : j \in Failed(answers, n)
        BY <3>6 DEF F
      <4>3. after.fails < k + 1 => k + 1 - after.fails \notin Failed(answers, n)
        BY <3>7 DEF F
      <4>4. \A j \in ThirdFailures(answers, n) : j > k + 1
        BY <3>2 DEF E
      <4> QED
        BY <4>1, <4>2, <4>3, <4>4 DEF RowIsRight
    <3>9. TallyIsRight(answers, n, k + 1, after)
      BY <3>1, <3>5, <3>8 DEF TallyIsRight
    <3> QED
      BY <3>9 DEF after
  <2> QED
    BY <2>1, <2>2, <2>3
<1> QED
  BY <1>1, <1>6, <1>7

Upto(answers, n) ==
  LET ends == ThirdFailures(answers, n)
  IN IF ends = {} THEN n ELSE CHOOSE i \in ends : \A j \in ends : i <= j

\* What is read of a relay is what was a value before the third failure in a row.
LEMMA PollCounts ==
  ASSUME NEW n \in Nat, NEW answers \in [1 .. n -> Answers]
  PROVE  /\ PollReadings(answers) = Good(answers, n, Upto(answers, n))
         /\ PollReadings(answers) \in Nat /\ PollReadings(answers) <= n
<1> DEFINE E == ThirdFailures(answers, n)
<1>1. PICK f \in [0 .. n -> Tallies] :
        /\ f[0] = NothingTallied
        /\ \A k \in 1 .. n : f[k] = Tallied(f[k - 1], answers[k])
        /\ PollReadings(answers) = f[n].got
  BY PollStepByStep
<1>2. E \subseteq 1 .. n /\ \A i \in E : i \in Nat /\ 1 <= i /\ i <= n
  BY DEF ThirdFailures, Failed
<1> DEFINE T == {k \in Nat : k <= n => TallyIsRight(answers, n, k, f[k])}
<1>3. 0 \in T
  <2>1. Good(answers, n, 0) = 0
    <3>1. (1 .. 0) \ Failed(answers, n) = {}
      OBVIOUS
    <3> QED
      BY <3>1, FS_EmptySet DEF Good
  <2>2. f[0].got = 0 /\ f[0].fails = 0 /\ f[0].stop = FALSE
    BY <1>1 DEF NothingTallied
  <2>3. \A j \in E : j > 0
    BY <1>2
  <2>4. \A j \in (0 - f[0].fails + 1) .. 0 : FALSE
    BY <2>2
  <2> HIDE DEF E
  <2>5. TallyIsRight(answers, n, 0, f[0])
    BY <2>1, <2>2, <2>3, <2>4 DEF TallyIsRight, RowIsRight, E
  <2> QED
    BY <2>5
<1>4. ASSUME NEW k \in T PROVE k + 1 \in T
  <2> SUFFICES ASSUME k + 1 <= n PROVE TallyIsRight(answers, n, k + 1, f[k + 1])
    OBVIOUS
  <2>1. k \in Nat /\ k \in 0 .. n /\ k + 1 \in 1 .. n /\ k + 1 - 1 = k
    OBVIOUS
  <2>2. TallyIsRight(answers, n, k, f[k]) /\ f[k] \in Tallies
    BY <2>1
  <2>3. f[k + 1] = Tallied(f[k], answers[k + 1])
    BY <1>1, <2>1
  <2> QED
    BY <2>1, <2>2, <2>3, TallyStep
<1>5. T = Nat
  <2> HIDE DEF T
  <2>1. T \in SUBSET Nat
    BY DEF T
  <2> QED
    BY <1>3, <1>4, <2>1, NatInd
<1>6. TallyIsRight(answers, n, n, f[n]) /\ f[n].stop \in BOOLEAN
  BY <1>1, <1>5 DEF Tallies
<1>7. \A k \in 0 .. n : Good(answers, n, k) \in Nat /\ Good(answers, n, k) <= n
  <2> SUFFICES ASSUME NEW k \in 0 .. n PROVE Good(answers, n, k) \in Nat /\ Good(answers, n, k) <= n
    OBVIOUS
  <2> DEFINE G == (1 .. k) \ Failed(answers, n)
  <2>1. G \subseteq 1 .. n
    OBVIOUS
  <2>2. IsFiniteSet(1 .. n) /\ Cardinality(1 .. n) = n
    BY FS_Interval
  <2> HIDE DEF G
  <2>3. IsFiniteSet(G) /\ Cardinality(G) <= Cardinality(1 .. n) /\ Cardinality(G) \in Nat
    BY <2>1, <2>2, FS_Subset, FS_CardinalityType
  <2> QED
    BY <2>2, <2>3 DEF Good, G
<1>8. f[n].got = Good(answers, n, Upto(answers, n)) /\ Upto(answers, n) \in 0 .. n
  <2>1. CASE f[n].stop
    <3>1. PICK e \in E : (\A j \in E : e <= j) /\ f[n].got = Good(answers, n, e)
      BY <1>6, <2>1 DEF TallyIsRight
    <3>2. Upto(answers, n) = CHOOSE i \in E : \A j \in E : i <= j
      BY <3>1 DEF Upto
    <3> DEFINE u == Upto(answers, n)
    <3> HIDE DEF E, u
    <3>3. u \in E /\ \A j \in E : u <= j
      BY <3>1, <3>2 DEF u
    <3>4. u = e
      BY <1>2, <3>1, <3>3
    <3> QED
      BY <1>2, <3>1, <3>4 DEF u
  <2>2. CASE ~f[n].stop
    <3>1. f[n].got = Good(answers, n, n) /\ \A j \in E : j > n
      BY <1>6, <2>2 DEF TallyIsRight, RowIsRight
    <3>2. E = {}
      BY <1>2, <3>1
    <3> QED
      BY <3>1, <3>2 DEF Upto
  <2> QED
    BY <1>6, <2>1, <2>2
<1> QED
  BY <1>1, <1>7, <1>8

\* A reading has at most as many values as there were answers.
LEMMA ValidIsBounded ==
  ASSUME NEW m \in Methods, NEW n \in Nat, NEW answers \in [1 .. n -> Answers]
  PROVE  Valid(m, answers) \in Nat /\ Valid(m, answers) <= n
<1>1. Len(answers) = n
  OBVIOUS
<1>2. ReadUntilError(answers) \in 0 .. n
  <2> DEFINE T == {k \in 0 .. n : k < n => answers[k + 1] # "value"}
  <2>1. T \in SUBSET Nat /\ n \in T
    OBVIOUS
  <2>2. PICK k \in T : \A j \in T : k <= j
    <3> HIDE DEF T
    <3> QED
      BY <2>1, NatLeast
  <2>3. ASSUME NEW i \in 1 .. k PROVE answers[i] = "value"
    <3>1. i - 1 \in 0 .. n /\ i - 1 < k /\ i - 1 < n /\ i - 1 + 1 = i
      BY <2>2
    <3>2. i - 1 \notin T
      BY <2>2, <3>1
    <3> QED
      BY <3>1, <3>2
  <2>4. \E j \in 0 .. Len(answers) : /\ \A i \in 1 .. j : answers[i] = "value"
                                     /\ j < Len(answers) => answers[j + 1] # "value"
    BY <1>1, <2>2, <2>3
  <2> QED
    BY <1>1, <2>4 DEF ReadUntilError
<1> QED
  BY <1>1, <1>2, PollCounts DEF Valid

-----------------------------------------------------------------------------
MethodTyped ==
  /\ msArmed \subseteq Methods
  /\ msCurrent \in [Methods -> Amps \cup {0}] /\ msCount \in [Methods -> Nat]
  /\ DOMAIN srcMode = Sources /\ DOMAIN srcAmps = Sources /\ DOMAIN srcOwner = Sources
  /\ msReading.did \in {"armed", "read", "standby"} => msReading.by \in Methods

\* ModeDiscipline of one method: what holds in doubt, armed or not, and what holds beyond.
InMode(m) ==
  srcOwner[SourceOf[m]] = m /\ srcAmps[SourceOf[m]] # 0 => srcMode[SourceOf[m]] = ModeOf(m)
Believes(m) ==
  srcOwner[SourceOf[m]] = m /\ m \notin msDoubt =>
    srcMode[SourceOf[m]] = ModeOf(m) /\ srcAmps[SourceOf[m]] = msCurrent[m]

OwnersInMode == (\A m \in Methods : InMode(m)) /\ (\A m \in msArmed : Believes(m))

SourceInv == MethodTyped /\ OwnersInMode /\ ReadingsFillTheirRows

\* StandbyIsQuiet, of one step.
Quietens == msReading'.did = "standby" => srcAmps'[SourceOf[msReading'.by]] = 0

LEMMA SourcesAreTheirs == \A m \in Methods : SourceOf[m] \in Sources
  BY SourceAssumption

LEMMA SourceInitInv == SourceInit => SourceInv
  BY SourceAssumption
  DEF SourceInit, SourceInv, MethodTyped, OwnersInMode, InMode, Believes, ReadingsFillTheirRows, Quiet

LEMMA DisciplineFollows == SourceInv => ModeDiscipline
  BY DEF SourceInv, MethodTyped, OwnersInMode, InMode, Believes, ModeDiscipline

\* What a command writes, it writes to the instrument of its method and in its mode.
WritesOwn(m, amps) ==
  /\ Owns(m)
  /\ SetCurrent(SourceOf[m], 0) \/ Sourced(m, amps)

LEMMA WrittenOwn ==
  ASSUME SourceInv, NEW m \in Methods, NEW amps, WritesOwn(m, amps)
  PROVE  /\ DOMAIN srcMode' = Sources /\ DOMAIN srcAmps' = Sources /\ DOMAIN srcOwner' = Sources
         /\ srcOwner'[SourceOf[m]] = m
         /\ srcAmps'[SourceOf[m]] # 0 => srcMode'[SourceOf[m]] = ModeOf(m)
         /\ \A i \in Sources \ {SourceOf[m]} :
              srcMode'[i] = srcMode[i] /\ srcAmps'[i] = srcAmps[i] /\ srcOwner'[i] = srcOwner[i]
  BY SourcesAreTheirs
  DEF SourceInv, MethodTyped, WritesOwn, Owns, Sourced, SetCurrent, StartDelta, ModeOf

LEMMA SourcedIsBelieved ==
  ASSUME SourceInv, NEW m \in Methods, NEW amps, Sourced(m, amps)
  PROVE  srcMode'[SourceOf[m]] = ModeOf(m) /\ srcAmps'[SourceOf[m]] = amps
  BY SourcesAreTheirs DEF SourceInv, MethodTyped, Sourced, SetCurrent, StartDelta, ModeOf

\* The other methods remember what they did, are armed as they were, and doubt as they did.
OthersRemember(m) ==
  /\ \A k \in Methods \ {m} : msCurrent'[k] = msCurrent[k] /\ (k \in msDoubt' <=> k \in msDoubt)
  /\ msArmed' \subseteq msArmed \cup {m}

\* Their instrument is untouched, or no longer theirs.
LEMMA OthersKeepTheirMode ==
  ASSUME SourceInv, NEW m \in Methods, NEW amps, WritesOwn(m, amps), OthersRemember(m)
  PROVE  /\ \A k \in Methods : InMode(k)'
         /\ \A k \in msArmed' \ {m} : Believes(k)'
<1>1. ASSUME NEW k \in Methods, k # m
      PROVE  InMode(k)' /\ (k \in msArmed' => Believes(k)')
  <2>1. SourceOf[k] \in Sources /\ SourceOf[m] \in Sources
    BY SourcesAreTheirs
  <2>2. InMode(k) /\ (k \in msArmed => Believes(k))
    BY DEF SourceInv, OwnersInMode
  <2>3. CASE SourceOf[k] = SourceOf[m]
    <3>1. srcOwner'[SourceOf[k]] = m
      BY <2>3, WrittenOwn
    <3> QED
      BY <1>1, <3>1 DEF InMode, Believes
  <2>4. CASE SourceOf[k] # SourceOf[m]
    <3>1. /\ srcMode'[SourceOf[k]] = srcMode[SourceOf[k]] /\ srcAmps'[SourceOf[k]] = srcAmps[SourceOf[k]]
          /\ srcOwner'[SourceOf[k]] = srcOwner[SourceOf[k]]
      BY <2>1, <2>4, WrittenOwn
    <3>2. InMode(k)'
      BY <2>2, <3>1 DEF InMode, ModeOf
    <3>3. k \in msArmed' => Believes(k)'
      BY <1>1, <2>2, <3>1 DEF OthersRemember, Believes, ModeOf
    <3> QED
      BY <3>2, <3>3
  <2> QED
    BY <2>3, <2>4
<1>2. InMode(m)'
  BY WrittenOwn DEF InMode, ModeOf
<1>3. \A k \in msArmed' \ {m} : k \in Methods
  BY DEF OthersRemember, SourceInv, MethodTyped
<1> QED
  BY <1>1, <1>2, <1>3

\* A command that was obeyed.
LEMMA ObeyedStep ==
  ASSUME SourceInv, NEW m \in Methods, NEW amps, Obeyed(m, amps), OthersRemember(m), msCurrent'[m] = amps
  PROVE  OwnersInMode'
<1>1. WritesOwn(m, amps)
  BY DEF Obeyed, WritesOwn
<1>2. Believes(m)'
  <2>1. srcMode'[SourceOf[m]] = ModeOf(m) /\ srcAmps'[SourceOf[m]] = amps
    BY SourcedIsBelieved DEF Obeyed
  <2> QED
    BY <2>1 DEF Believes, ModeOf
<1> QED
  BY <1>1, <1>2, OthersKeepTheirMode DEF OwnersInMode

\* A command that raised: what its method believes is in doubt, and nothing else is.
LEMMA InterruptedStep ==
  ASSUME SourceInv, NEW m \in Methods, NEW amps, Interrupted(m, amps), OthersRemember(m)
  PROVE  OwnersInMode'
<1>1. m \in msDoubt'
  BY DEF Interrupted
<1>2. Believes(m)'
  BY <1>1 DEF Believes
<1>3. CASE WritesOwn(m, amps)
  BY <1>2, <1>3, OthersKeepTheirMode DEF OwnersInMode
<1>4. CASE UNCHANGED <<srcMode, srcAmps, srcOwner>>
  <2>1. \A k \in Methods : InMode(k)'
    BY <1>4 DEF SourceInv, OwnersInMode, InMode, ModeOf
  <2>2. ASSUME NEW k \in msArmed', k # m PROVE Believes(k)'
    <3>1. k \in msArmed /\ k \in Methods
      BY <2>2 DEF OthersRemember, SourceInv, MethodTyped
    <3> QED
      BY <1>4, <2>2, <3>1 DEF OthersRemember, SourceInv, OwnersInMode, Believes, ModeOf
  <2> QED
    BY <1>2, <2>1, <2>2 DEF OwnersInMode
<1> QED
  BY <1>3, <1>4 DEF Interrupted, WritesOwn

LEMMA WhatIsWritten ==
  ASSUME SourceInv, NEW m \in Methods, NEW amps, Obeyed(m, amps) \/ Interrupted(m, amps)
  PROVE  /\ DOMAIN srcMode' = Sources /\ DOMAIN srcAmps' = Sources /\ DOMAIN srcOwner' = Sources
         /\ \A k \in Methods \ {m} : k \in msDoubt' <=> k \in msDoubt
<1>1. CASE WritesOwn(m, amps)
  BY <1>1, WrittenOwn DEF Obeyed, Interrupted
<1>2. CASE UNCHANGED <<srcMode, srcAmps, srcOwner>> /\ Interrupted(m, amps)
  BY <1>2 DEF Interrupted, SourceInv, MethodTyped
<1> QED
  BY <1>1, <1>2 DEF Obeyed, Interrupted, WritesOwn

LEMMA ArmingStep ==
  ASSUME SourceInv, NEW m \in Methods, NEW a \in Amps, NEW n \in Nat,
         \/ InitiateRefused(m, n)
         \/ n > 0 /\ (InitiateMeasurement(m, a, n) \/ InitiateRaises(m, a, n))
         \/ SetMethodCurrent(m, a) \/ SetMethodCurrentRaises(m, a)
  PROVE  SourceInv' /\ Quietens
<1>1. msReading'.did \in {"refused", "armed", "raised", "set"} /\ msReading'.by = m
  BY DEF InitiateRefused, InitiateMeasurement, InitiateRaises, SetMethodCurrent, SetMethodCurrentRaises, Did
<1>2. Quietens /\ ReadingsFillTheirRows'
  BY <1>1 DEF Quietens, ReadingsFillTheirRows
<1>3. CASE InitiateRefused(m, n)
  <2>1. MethodTyped'
    BY <1>1, <1>3 DEF InitiateRefused, SourceInv, MethodTyped
  <2>2. OwnersInMode'
    BY <1>3 DEF InitiateRefused, SourceInv, OwnersInMode, InMode, Believes, ModeOf
  <2> QED
    BY <1>2, <2>1, <2>2 DEF SourceInv
<1>4. CASE InitiateMeasurement(m, a, n) \/ InitiateRaises(m, a, n) \/ SetMethodCurrent(m, a) \/ SetMethodCurrentRaises(m, a)
  <2>1. Obeyed(m, a) \/ Interrupted(m, a)
    BY <1>4 DEF InitiateMeasurement, InitiateRaises, SetMethodCurrent, SetMethodCurrentRaises
  <2>2. /\ msCurrent' = [msCurrent EXCEPT ![m] = a] /\ msCount' \in [Methods -> Nat]
        /\ msArmed' \subseteq msArmed \cup {m}
    BY <1>4
    DEF InitiateMeasurement, InitiateRaises, SetMethodCurrent, SetMethodCurrentRaises, Remembers, SourceInv, MethodTyped
  <2>3. MethodTyped'
    BY <1>1, <2>1, <2>2, WhatIsWritten DEF SourceInv, MethodTyped
  <2>4. OthersRemember(m) /\ msCurrent'[m] = a
    BY <2>1, <2>2, WhatIsWritten DEF OthersRemember, SourceInv, MethodTyped
  <2>5. OwnersInMode'
    BY <2>1, <2>4, ObeyedStep, InterruptedStep
  <2> QED
    BY <1>2, <2>3, <2>5 DEF SourceInv
<1> QED
  BY <1>3, <1>4

LEMMA ReadingStep ==
  ASSUME SourceInv, NEW m \in Methods,
         (\E answers \in [1 .. msCount[m] -> Answers] : TakeReading(m, answers)) \/ SkipInCompliance(m)
  PROVE  SourceInv' /\ Quietens
<1>1. msCount[m] \in Nat
  BY DEF SourceInv, MethodTyped
<1>2. UNCHANGED <<msArmed, msCurrent, msCount, srcMode, srcAmps, srcOwner, msDoubt>>
  BY DEF TakeReading, SkipInCompliance
<1>3. msReading'.did = "read" /\ msReading'.by = m /\ msReading'.rows = msCount[m] /\ msReading'.valid <= msReading'.rows
  <2>1. CASE SkipInCompliance(m)
    BY <1>1, <2>1 DEF SkipInCompliance
  <2>2. CASE \E answers \in [1 .. msCount[m] -> Answers] : TakeReading(m, answers)
    <3>1. PICK answers \in [1 .. msCount[m] -> Answers] : TakeReading(m, answers)
      BY <2>2
    <3>2. Valid(m, answers) \in Nat /\ Valid(m, answers) <= msCount[m]
      <4> DEFINE n == msCount[m]
      <4>1. n \in Nat /\ answers \in [1 .. n -> Answers]
        BY <1>1
      <4> HIDE DEF n
      <4>2. Valid(m, answers) \in Nat /\ Valid(m, answers) <= n
        BY <4>1, ValidIsBounded
      <4> QED
        BY <4>2 DEF n
    <3> QED
      BY <1>1, <3>1, <3>2 DEF TakeReading, Reading
  <2> QED
    BY <2>1, <2>2
<1>4. MethodTyped' /\ ReadingsFillTheirRows' /\ Quietens
  BY <1>2, <1>3 DEF SourceInv, MethodTyped, ReadingsFillTheirRows, Quietens
<1>5. OwnersInMode'
  BY <1>2 DEF SourceInv, OwnersInMode, InMode, Believes, ModeOf
<1> QED
  BY <1>4, <1>5 DEF SourceInv

LEMMA StandbyStep ==
  ASSUME SourceInv, NEW m \in Methods, StandbyMethod(m) \/ StandbyUnheard(m)
  PROVE  SourceInv' /\ Quietens
<1>1. msCurrent' = msCurrent /\ msCount' = msCount /\ msArmed' \subseteq msArmed
  BY DEF StandbyMethod, StandbyUnheard
<1>2. CASE StandbyUnheard(m)
  <2>1. Interrupted(m, 0) /\ msReading'.did = "unheard"
    BY <1>2 DEF StandbyUnheard, Did
  <2>2. MethodTyped'
    BY <1>1, <2>1, WhatIsWritten DEF SourceInv, MethodTyped
  <2>3. OwnersInMode'
    <3>1. OthersRemember(m)
      BY <1>1, <2>1, WhatIsWritten DEF OthersRemember
    <3> QED
      BY <2>1, <3>1, InterruptedStep
  <2> QED
    BY <2>1, <2>2, <2>3 DEF SourceInv, ReadingsFillTheirRows, Quietens
<1>3. CASE StandbyMethod(m)
  <2>1. /\ msReading'.did = "standby" /\ msReading'.by = m /\ m \notin msArmed'
        /\ SetCurrent(SourceOf[m], 0) /\ msDoubt' = msDoubt \ {m}
    BY <1>3 DEF StandbyMethod, StopDelta, Did
  <2>2. WritesOwn(m, 0) /\ OthersRemember(m)
    BY <1>1, <1>3, <2>1 DEF StandbyMethod, WritesOwn, OthersRemember
  <2>3. MethodTyped'
    BY <1>1, <2>1, <2>2, WrittenOwn DEF SourceInv, MethodTyped
  <2>4. OwnersInMode'
    BY <2>1, <2>2, OthersKeepTheirMode DEF OwnersInMode
  <2>5. srcAmps'[SourceOf[m]] = 0
    BY <2>1, SourcesAreTheirs DEF SetCurrent, SourceInv, MethodTyped
  <2> QED
    BY <2>1, <2>3, <2>4, <2>5 DEF SourceInv, ReadingsFillTheirRows, Quietens
<1> QED
  BY <1>2, <1>3

\* What was polled is what was a value before the third failure in a row, for any count.
LEMMA ThirdFailureIsCounted == SourceInv => ThirdFailureEnds
<1> SUFFICES ASSUME SourceInv, msReading.did = "armed", NEW answers \in [1 .. msCount[msReading.by] -> Answers]
             PROVE  LET failed == {i \in DOMAIN answers : answers[i] # "value"}
                        ends == {i \in failed : i >= 3 /\ i - 1 \in failed /\ i - 2 \in failed}
                        upto == IF ends = {} THEN Len(answers) ELSE CHOOSE i \in ends : \A j \in ends : i <= j
                    IN PollReadings(answers) = Cardinality((1 .. upto) \ failed)
  BY DEF ThirdFailureEnds
<1> DEFINE n == msCount[msReading.by]
<1>1. n \in Nat /\ answers \in [1 .. n -> Answers]
  BY DEF SourceInv, MethodTyped
<1> HIDE DEF n
<1>2. DOMAIN answers = 1 .. n /\ Len(answers) = n
  BY <1>1
<1>3. PollReadings(answers) = Good(answers, n, Upto(answers, n))
  BY <1>1, PollCounts
<1> QED
  BY <1>2, <1>3 DEF Good, Upto, ThirdFailures, Failed

SourceSpec == SourceInit /\ [][SourceNext]_msVars

\* Methods that share a source do not rely on each other, leave no current behind, and record
\* exactly what the bus answered, whichever commands raise and wherever they do: for any
\* methods, sources, currents and counts.
THEOREM SharedSourceIsSoundHolds == SourceSpec => SharedSourceIsSound
<1>1. SourceInv /\ [SourceNext]_msVars => SourceInv' /\ [Quietens]_msVars
  <2> SUFFICES ASSUME SourceInv, [SourceNext]_msVars PROVE SourceInv' /\ [Quietens]_msVars
    OBVIOUS
  <2>1. CASE UNCHANGED msVars
    BY <2>1 DEF msVars, SourceInv, MethodTyped, OwnersInMode, InMode, Believes, ModeOf, ReadingsFillTheirRows
  <2>2. CASE SourceNext
    <3>1. SourceInv' /\ Quietens
      <4>1. 0 \in Nat /\ Counts \subseteq Nat
        BY SourceAssumption
      <4> QED
        BY <2>2, <4>1, ArmingStep, ReadingStep, StandbyStep DEF SourceNext
    <3> QED
      BY <3>1
  <2> QED
    BY <2>1, <2>2
<1>2. SourceInv => ModeDiscipline /\ ReadingsFillTheirRows
  BY DisciplineFollows DEF SourceInv
<1> QED
  BY <1>1, <1>2, SourceInitInv, ThirdFailureIsCounted, PTL
  DEF SourceSpec, SharedSourceIsSound, StandbyIsQuiet, Quietens
=============================================================================
