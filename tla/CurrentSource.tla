---------------------------- MODULE CurrentSource ----------------------------
(***************************************************************************)
(* The measurement methods and the current sources they drive: DC mode,    *)
(* delta mode, the separate source and meter, the source-measure unit and  *)
(* the lock-in.  Two methods may be configured over one instrument.        *)
(***************************************************************************)
EXTENDS Naturals, Sequences, FiniteSets

CONSTANTS
  Methods,          \* the measurement VIs
  Kind,             \* method -> "dc", "delta", "separate", "single", "lockin"
  SourceOf,         \* method -> its source instrument
  Amps,             \* the non-zero currents, a set of naturals
  Counts            \* the values of n_readings tried

VARIABLES
  msArmed,          \* the methods that are armed
  msCurrent,        \* method -> the current it believes it sources
  msCount,          \* method -> n_readings
  srcMode,          \* instrument -> "DC" or "DELTA"
  srcAmps,          \* instrument -> the current it sources
  srcOwner,         \* instrument -> the method whose command reached it last
  msDoubt,          \* the methods whose last command raised
  msReading         \* the last command: who, what, and a reading's outcome

msVars == <<msArmed, msCurrent, msCount, srcMode, srcAmps, srcOwner, msDoubt, msReading>>

Sources == {SourceOf[m] : m \in Methods}
NoMethod == "none"

ASSUME SourceAssumption ==
  /\ SourceOf \in [Methods -> Sources] /\ NoMethod \notin Methods
  /\ Counts \subseteq Nat

Quiet == [by |-> NoMethod, did |-> "nothing", valid |-> 0, rows |-> 0]
Did(m, what) == [by |-> m, did |-> what, valid |-> 0, rows |-> 0]

-----------------------------------------------------------------------------
(* The instrument: setting a current ends a delta run.                      *)

\* (A slip of SetCurrent.)
SetCurrentUnderDelta(i, amps) ==
  /\ srcMode' = srcMode
  /\ srcAmps' = [srcAmps EXCEPT ![i] = amps]

SetCurrent(i, amps) ==
  /\ srcMode' = [srcMode EXCEPT ![i] = "DC"]
  /\ srcAmps' = [srcAmps EXCEPT ![i] = amps]

StartDelta(i, amps) ==
  /\ srcMode' = [srcMode EXCEPT ![i] = "DELTA"]
  /\ srcAmps' = [srcAmps EXCEPT ![i] = amps]

\* (A slip of StopDelta.)
StopDeltaMode(i) == srcMode' = [srcMode EXCEPT ![i] = "DC"] /\ srcAmps' = srcAmps

StopDelta(i) == SetCurrent(i, 0)

Sourced(m, amps) ==
  IF Kind[m] = "delta" THEN StartDelta(SourceOf[m], amps) ELSE SetCurrent(SourceOf[m], amps)

Owns(m) == srcOwner' = [srcOwner EXCEPT ![SourceOf[m]] = m]

Obeyed(m, amps) == Sourced(m, amps) /\ Owns(m) /\ msDoubt' = msDoubt \ {m}

\* A command of several writes raises: at the first of them, or with the source brought
\* to idle, or behind the one that sets the current, at the output or at the meter.
Interrupted(m, amps) ==
  /\ \/ UNCHANGED <<srcMode, srcAmps, srcOwner>>
     \/ Owns(m) /\ (SetCurrent(SourceOf[m], 0) \/ Sourced(m, amps))
  /\ msDoubt' = msDoubt \cup {m}

-----------------------------------------------------------------------------
(* Arming.                                                                  *)

Remembers(m, amps, n) ==
  /\ msCurrent' = [msCurrent EXCEPT ![m] = amps]
  /\ msCount' = [msCount EXCEPT ![m] = n]

\* A blank or zero count is refused before anything is sent, by DC mode only.
InitiateRefused(m, n) ==
  /\ Kind[m] = "dc" /\ n < 1
  /\ msReading' = Did(m, "refused")
  /\ UNCHANGED <<msArmed, msCurrent, msCount, srcMode, srcAmps, srcOwner, msDoubt>>

InitiateMeasurement(m, amps, n) ==
  /\ Kind[m] = "dc" => n >= 1
  /\ msArmed' = msArmed \cup {m}
  /\ Remembers(m, amps, n)
  /\ Obeyed(m, amps)
  /\ msReading' = Did(m, "armed")

\* The settings are stored, and the method armed, before the instrument is told.
InitiateRaises(m, amps, n) ==
  /\ Kind[m] = "dc" => n >= 1
  /\ msArmed' = msArmed \cup {m}
  /\ Remembers(m, amps, n)
  /\ Interrupted(m, amps)
  /\ msReading' = Did(m, "raised")

\* set_dc_current(), set_delta_current(), set_source_current(): the reading loop's
\* setters and the operator's.
SetMethodCurrent(m, amps) ==
  /\ Kind[m] \in {"dc", "delta", "separate"}
  /\ m \in msArmed
  /\ msCurrent' = [msCurrent EXCEPT ![m] = amps]
  /\ Obeyed(m, amps)
  /\ msReading' = Did(m, "set")
  /\ UNCHANGED <<msArmed, msCount>>

\* The current is stored before the instrument is told, and stays stored when that raises.
SetMethodCurrentRaises(m, amps) ==
  /\ Kind[m] \in {"dc", "delta", "separate"}
  /\ m \in msArmed
  /\ msCurrent' = [msCurrent EXCEPT ![m] = amps]
  /\ Interrupted(m, amps)
  /\ msReading' = Did(m, "raised")
  /\ UNCHANGED <<msArmed, msCount>>

-----------------------------------------------------------------------------
(* Reading.  The bus answers each request with a value or not: an empty     *)
(* answer, one that is no number and an error count alike.                  *)

Answers == {"value", "error"}

NothingTallied == [got |-> 0, fails |-> 0, stop |-> FALSE]

\* (A slip of Tallied.)
TalliedTotal(acc, answer) ==
  IF acc.stop THEN acc
  ELSE IF answer = "value" THEN [acc EXCEPT !.got = acc.got + 1]
  ELSE [got |-> acc.got, fails |-> acc.fails + 1, stop |-> acc.fails + 1 >= 3]

\* What failed is skipped, three failures in a row end it.
Tallied(acc, answer) ==
  IF acc.stop THEN acc
  ELSE IF answer = "value" THEN [got |-> acc.got + 1, fails |-> 0, stop |-> FALSE]
  ELSE [got |-> acc.got, fails |-> acc.fails + 1, stop |-> acc.fails + 1 >= 3]

\* _poll_readings()
PollReadings(answers) ==
  LET Behind[k \in 0 .. Len(answers)] == IF k = 0 THEN NothingTallied ELSE Tallied(Behind[k - 1], answers[k])
  IN Behind[Len(answers)].got

\* DC mode stops at the first error; an unparseable answer is one.
ReadUntilError(answers) ==
  CHOOSE k \in 0 .. Len(answers) :
    /\ \A i \in 1 .. k : answers[i] = "value"
    /\ k < Len(answers) => answers[k + 1] # "value"

\* Source and meter, the SMU and the lock-in let the first error through.
Raises(answers) == \E i \in DOMAIN answers : answers[i] # "value"

Valid(m, answers) ==
  CASE Kind[m] = "delta" -> PollReadings(answers)
    [] Kind[m] = "dc" -> ReadUntilError(answers)
    [] OTHER -> Len(answers)

\* (A slip of Reading.)
ReadingUnpadded(m, answers) ==
  [by |-> m, did |-> "read", valid |-> Valid(m, answers), rows |-> Valid(m, answers)]

\* The arrays are padded to the length the data file was built for.
Reading(m, answers) ==
  LET valid == Valid(m, answers)
  IN [by |-> m, did |-> "read", valid |-> valid, rows |-> valid + (msCount[m] - valid)]

TakeReading(m, answers) ==
  /\ m \in msArmed
  /\ Len(answers) = msCount[m]
  /\ Kind[m] \in {"separate", "single", "lockin"} => ~Raises(answers)
  /\ msReading' = Reading(m, answers)
  /\ UNCHANGED <<msArmed, msCurrent, msCount, srcMode, srcAmps, srcOwner, msDoubt>>

\* With compliance_abort a source that is in compliance is not read at all.
SkipInCompliance(m) ==
  /\ m \in msArmed /\ Kind[m] = "dc"
  /\ srcAmps[SourceOf[m]] # 0
  /\ msReading' = [by |-> m, did |-> "read", valid |-> 0, rows |-> msCount[m]]
  /\ UNCHANGED <<msArmed, msCurrent, msCount, srcMode, srcAmps, srcOwner, msDoubt>>

-----------------------------------------------------------------------------
(* Standby.  DC and delta mode swallow what raises, the others let it       *)
(* through and stay armed.                                                  *)

Swallows(m) == Kind[m] \in {"dc", "delta"}

StandbyMethod(m) ==
  /\ msArmed' = msArmed \ {m}
  /\ StopDelta(SourceOf[m])
  /\ Owns(m)
  /\ msDoubt' = msDoubt \ {m}
  /\ msReading' = Did(m, "standby")
  /\ UNCHANGED <<msCurrent, msCount>>

StandbyUnheard(m) ==
  /\ Interrupted(m, 0)
  /\ msArmed' = IF Swallows(m) THEN msArmed \ {m} ELSE msArmed
  /\ msReading' = Did(m, "unheard")
  /\ UNCHANGED <<msCurrent, msCount>>

SourceInit ==
  /\ msArmed = {}
  /\ msCurrent = [m \in Methods |-> 0]
  /\ msCount = [m \in Methods |-> 1]
  /\ srcMode = [i \in Sources |-> "DC"]
  /\ srcAmps = [i \in Sources |-> 0]
  /\ srcOwner = [i \in Sources |-> NoMethod]
  /\ msDoubt = {}
  /\ msReading = Quiet

SourceNext ==
  \/ \E m \in Methods, a \in Amps, n \in Counts :
       InitiateRefused(m, n) \/ (n > 0 /\ (InitiateMeasurement(m, a, n) \/ InitiateRaises(m, a, n)))
  \/ \E m \in Methods, a \in Amps : SetMethodCurrent(m, a) \/ SetMethodCurrentRaises(m, a)
  \/ \E m \in Methods : \E answers \in [1 .. msCount[m] -> Answers] : TakeReading(m, answers)
  \/ \E m \in Methods : SkipInCompliance(m) \/ StandbyMethod(m) \/ StandbyUnheard(m)

-----------------------------------------------------------------------------
ModeOf(m) == IF Kind[m] = "delta" THEN "DELTA" ELSE "DC"

\* Whatever another method left behind on a shared instrument, the method that reached
\* it last finds it in its own mode with the current it will record, unless its last
\* command raised: then the current it will record may not flow, but what flows is in its
\* own mode all the same.  No method relies on the standby of the one before.
ModeDiscipline ==
  \A m \in msArmed :
    srcOwner[SourceOf[m]] = m =>
      /\ srcAmps[SourceOf[m]] # 0 => srcMode[SourceOf[m]] = ModeOf(m)
      /\ m \notin msDoubt => srcMode[SourceOf[m]] = ModeOf(m) /\ srcAmps[SourceOf[m]] = msCurrent[m]

\* A reading has exactly the rows its data set was allocated with, however early the
\* bus gave up, and never more valid rows than the bus answered.
ReadingsFillTheirRows ==
  msReading.did = "read" =>
    /\ msReading.rows = msCount[msReading.by]
    /\ msReading.valid <= msReading.rows

\* A method that can be heard leaves its instrument without current.
StandbyIsQuiet ==
  [][ msReading'.did = "standby" => srcAmps'[SourceOf[msReading'.by]] = 0 ]_msVars

\* The relay is given up after the third failure in a row and not before: the count
\* is that of the values before the first such run.
ThirdFailureEnds ==
  msReading.did = "armed" /\ Kind[msReading.by] = "delta" =>
    \A answers \in [1 .. msCount[msReading.by] -> Answers] :
      LET failed == {i \in DOMAIN answers : answers[i] # "value"}
          ends == {i \in failed : i >= 3 /\ i - 1 \in failed /\ i - 2 \in failed}
          upto == IF ends = {} THEN Len(answers) ELSE CHOOSE i \in ends : \A j \in ends : i <= j
      IN PollReadings(answers) = Cardinality((1 .. upto) \ failed)

\* Methods that share a source neither rely on each other nor leave a current behind, and
\* a relayed reading loses exactly what the bus did not answer.
SharedSourceIsSound ==
  /\ [](ModeDiscipline /\ ReadingsFillTheirRows /\ ThirdFailureEnds)
  /\ StandbyIsQuiet
=============================================================================
