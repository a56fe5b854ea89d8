--------------------------- MODULE OperationRecords ---------------------------
(***************************************************************************)
(* What OperationBase keeps of a run: the steps that were confirmed or     *)
(* skipped, and a recording that is thinned out instead of growing.        *)
(***************************************************************************)
EXTENDS Naturals, Sequences, FiniteSets, SequencesExt

CONSTANT RecordingBound     \* _MAX_RECORDING_POINTS

ASSUME RecordingAssumption == RecordingBound \in Nat \ {0}

Pending == "pending"
NoSteps(keys) == [k \in keys |-> Pending]

\* current_step(): the first in order without a record, or none.
CurrentStep(order, records) == SelectSeq(order, LAMBDA k : records[k] = Pending)

\* (A slip of RecordStep.)
RecordStepAgain(records, key, status) == [records EXCEPT ![key] = status]

\* _record_step(): the first record of a step stands.
RecordStep(records, key, status) == [records EXCEPT ![key] = IF @ = Pending THEN status ELSE @]

EmptyRecording == [points |-> <<>>, stride |-> 1, raw |-> 0]

EveryOther(s) == [i \in 1 .. ((Len(s) + 1) \div 2) |-> s[2 * i - 1]]

\* (A slip of RecordSample.)
RecordSampleTail(rec) ==
  LET raw == rec.raw + 1
      points == Append(rec.points, raw)
  IN [points |-> IF Len(points) > RecordingBound THEN Tail(points) ELSE points, stride |-> 1, raw |-> raw]

\* _record_sample(): a point is the number of its sample.  One past the bound, every
\* other point is dropped and from then on every other sample.
RecordSample(rec) ==
  LET raw == rec.raw + 1
      points == Append(rec.points, raw)
  IN IF raw % rec.stride # 0 THEN [rec EXCEPT !.raw = raw]
     ELSE IF Len(points) <= RecordingBound THEN [rec EXCEPT !.raw = raw, !.points = points]
     ELSE [points |-> EveryOther(points), stride |-> 2 * rec.stride, raw |-> raw]

\* However long the run, the recording is bounded, starts with the run, and leaves no
\* hole longer than two strides, the end of the run included.
SpansRun(rec) ==
  /\ Len(rec.points) <= RecordingBound
  /\ rec.raw > 0 => rec.points # <<>> /\ rec.points[1] = 1
  /\ \A i \in 2 .. Len(rec.points) : rec.points[i] - rec.points[i - 1] \in 1 .. (2 * rec.stride)
  /\ rec.raw > 0 => rec.raw - rec.points[Len(rec.points)] < 2 * rec.stride
=============================================================================
