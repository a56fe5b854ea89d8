------------------------------- MODULE PlanRules -------------------------------
(***************************************************************************)
(* What a procedure may ask for and what its data may look like: the       *)
(* checks of plan.py, the data sets of the data manager and the points of  *)
(* a sweep.  Numbers are integers, NaN and infinity stand beside them.     *)
(***************************************************************************)
EXTENDS Integers, Sequences, FiniteSets, SequencesExt

CONSTANTS
  Numbers,           \* the numbers that values and bounds are
  Extents,           \* the lengths of an axis
  SweepEnds, SweepSteps, \* where the segments of a sweep begin and end, and the steps asked for
  SweepCounts        \* the numbers of points of a linear sweep

ASSUME RulesAssumption ==
  /\ Numbers \subseteq Int
  /\ Extents \subseteq Nat \ {0}
  /\ SweepEnds \subseteq Int /\ SweepSteps \subseteq Nat \ {0}
  /\ SweepCounts \subseteq Nat

None == [kind |-> "none", n |-> 0]
Number(n) == [kind |-> "int", n |-> n]

IsReal(v) == v.kind \in {"int", "float", "nan", "inf"}
IsFinite(v) == v.kind \in {"int", "float"}

\* Python's comparisons: every one with NaN is false, infinity is above all else.
Below(a, b) ==
  /\ "nan" \notin {a.kind, b.kind} /\ a.kind # "inf"
  /\ b.kind = "inf" \/ a.n < b.n

-----------------------------------------------------------------------------
(* Targets, commands and plans.                                             *)

\* (A slip of TargetAccepted.)
TargetAcceptedUnbounded(t) ==
  /\ IsReal(t.target)
  /\ t.rate = None \/ (IsFinite(t.rate) /\ t.rate.n > 0)

TargetAccepted(t) ==
  /\ IsReal(t.target) /\ IsFinite(t.target)
  /\ t.rate = None \/ (IsReal(t.rate) /\ IsFinite(t.rate) /\ t.rate.n > 0)

WaitAccepted(w) == IsReal(w) /\ IsFinite(w) /\ w.n >= 0

PlanAccepted(plan) ==
  /\ \A vi \in DOMAIN plan.targets : TargetAccepted(plan.targets[vi])
  /\ WaitAccepted(plan.wait)

-----------------------------------------------------------------------------
(* Parameters.                                                              *)

MatchesType(type, v) ==
  CASE type = "bool" -> v.kind = "bool"
    [] type = "float" -> IsReal(v)
    [] OTHER -> v.kind = type

\* (A slip of BoundsAccepted.)
BoundsOfEachOther(s) ==
  \/ s.min = None /\ s.max = None
  \/ /\ s.type \in {"int", "float"}
     /\ s.min = None \/ IsReal(s.min)
     /\ s.max = None \/ IsReal(s.max)
     /\ s.min = None \/ s.max = None \/ ~Below(s.max, s.min)

BoundsAccepted(s) ==
  \/ s.min = None /\ s.max = None
  \/ /\ s.type \in {"int", "float"}
     /\ s.min = None \/ IsReal(s.min)
     /\ s.max = None \/ IsReal(s.max)
     /\ s.min = None \/ s.max = None \/ ~Below(s.max, s.min)
     /\ s.min = None \/ ~Below(s.default, s.min)
     /\ s.max = None \/ ~Below(s.max, s.default)

ChoicesAccepted(s) ==
  /\ s.choices # {}
  /\ s.min = None /\ s.max = None
  /\ \A v \in s.choices : MatchesType(s.type, v)
  /\ s.default \in s.choices

SpecAccepted(s) ==
  /\ MatchesType(s.type, s.default)
  /\ IF s.enumerated THEN ChoicesAccepted(s) ELSE BoundsAccepted(s)

\* What an entry of a list of loop values becomes: float("2") is the number 2, int("2.5") raises.
Converts(type, entry) == type = entry.kind \/ (type = "float" /\ IsReal(entry))
Converted(type, entry) == IF type = "float" /\ entry.kind = "int" THEN [entry EXCEPT !.kind = "float"] ELSE entry

\* Python's ==
Equal(a, b) == IF IsFinite(a) /\ IsFinite(b) THEN a.n = b.n ELSE a = b /\ a.kind # "nan"

\* (A slip of LoopTakes.)
LoopTakesBetween(s, entry) ==
  LET v == Converted(s.type, entry)
  IN /\ s.type # "bool" /\ Converts(s.type, entry)
     /\ s.enumerated => \E c \in s.choices : Equal(v, c)
     /\ s.min = None \/ Below(s.min, v)
     /\ s.max = None \/ Below(v, s.max)

\* _parse_loop_values(), for one entry
LoopTakes(s, entry) ==
  LET v == Converted(s.type, entry)
  IN /\ s.type # "bool" /\ Converts(s.type, entry)
     /\ s.enumerated => \E c \in s.choices : Equal(v, c)
     /\ s.min = None \/ ~Below(v, s.min)
     /\ s.max = None \/ ~Below(s.max, v)

-----------------------------------------------------------------------------
(* The envelope of a session.                                               *)

BoundAccepted(b) ==
  /\ b.min = None \/ (IsReal(b.min) /\ IsFinite(b.min))
  /\ b.max = None \/ (IsReal(b.max) /\ IsFinite(b.max))
  /\ ~(b.min = None /\ b.max = None)
  /\ b.min = None \/ b.max = None \/ b.min.n <= b.max.n

\* What is not a number, and NaN, is no violation.
Violates(b, v) ==
  IsReal(v) /\ \/ b.min # None /\ Below(v, b.min)
               \/ b.max # None /\ Below(b.max, v)

EnvelopeRefuses(bounds, vi, v) == vi \in DOMAIN bounds /\ Violates(bounds[vi], v)

EnvelopeAccepted(bounds) == bounds # <<>> /\ \A vi \in DOMAIN bounds : BoundAccepted(bounds[vi])

\* The VIs whose watched reading is outside; one without a reading is passed over.
EnvelopeViolations(bounds, state) ==
  {vi \in DOMAIN bounds \cap DOMAIN state : Violates(bounds[vi], state[vi])}

-----------------------------------------------------------------------------
(* The shape of a point.  A value is its shape and the kind of its leaves.  *)

Columns == {"sweep", "scalar", "array", "block"}

BlockPrefix(loop) == IF loop = <<1, 1>> THEN <<>> ELSE loop

SchemaAccepted(schema) ==
  /\ schema.length > 0
  /\ \A i \in DOMAIN schema.block : schema.block[i] > 0
  /\ \A i \in DOMAIN schema.loop : schema.loop[i] >= 1

DeclaredShape(schema, column) ==
  CASE column = "sweep" -> <<>>
    [] column = "scalar" -> schema.loop
    [] column = "array" -> schema.loop \o <<schema.length>>
    [] column = "block" -> BlockPrefix(schema.loop) \o schema.block

\* _nested_shape_leaves(): the outer axes must fit, whatever the leaves are.
Fits(value, shape) ==
  Len(shape) <= Len(value.shape) /\ SubSeq(value.shape, 1, Len(shape)) = shape

Validates(schema, column, value) ==
  LET shape == DeclaredShape(schema, column)
  IN /\ Fits(value, shape)
     /\ column \in {"sweep", "scalar"} => value.leaf = "number" /\ Len(value.shape) = Len(shape)

\* (A slip of Allocated.)
AllocatedBare(schema, column) ==
  CASE column = "block" -> schema.loop \o schema.block
    [] OTHER -> DeclaredShape(schema, column)

\* _allocate_datasets() and save_datapoint(): what happens to a value.
Allocated(schema, column) ==
  CASE column = "sweep" -> <<>>
    [] column = "scalar" -> schema.loop
    [] column = "array" -> schema.loop \o <<schema.length>>
    [] column = "block" -> BlockPrefix(schema.loop) \o schema.block

Front_(s, n) == SubSeq(s, 1, Len(s) - n)

Padded(schema, column, value) ==
  \/ column = "array" /\ Len(value.shape) > 0 /\ Front_(value.shape, 1) = schema.loop
  \/ /\ column = "block" /\ Len(value.shape) > 1
     /\ Front_(value.shape, 2) = BlockPrefix(schema.loop)
     /\ value.shape[Len(value.shape)] = schema.block[2]

Stored(schema, column, value) ==
  IF value.leaf = "number" /\ value.shape = Allocated(schema, column) THEN "exact"
  ELSE IF value.leaf = "number" /\ Padded(schema, column, value) THEN "padded"
  ELSE "raises"

-----------------------------------------------------------------------------
(* The points of a sweep: rationals, as a numerator over a denominator.     *)

Abs(n) == IF n < 0 THEN -n ELSE n

\* (A slip of RoundedRatio.)
FlooredRatio(a, b) == a \div b

\* Python's round(a / b): to the nearest, ties to the even neighbour.
RoundedRatio(a, b) ==
  LET q == a \div b
      r == 2 * (a % b)
  IN IF r < b THEN q ELSE IF r > b THEN q + 1 ELSE IF q % 2 = 0 THEN q ELSE q + 1

AtLeastOne(n) == IF n < 1 THEN 1 ELSE n

Steps(seg) == AtLeastOne(RoundedRatio(Abs(seg.end - seg.start), seg.step))

SegmentPoints(seg) ==
  [k \in 1 .. Steps(seg) |-> [num |-> seg.start * Steps(seg) + (k - 1) * (seg.end - seg.start),
                              den |-> Steps(seg)]]

SegmentsAccepted(segs) ==
  /\ \A i \in DOMAIN segs : segs[i].step > 0
  /\ \A i \in 2 .. Len(segs) : segs[i].start = segs[i - 1].end

Piecewise(segs) ==
  IF segs = <<>> THEN <<>>
  ELSE FlattenSeq([i \in DOMAIN segs |-> SegmentPoints(segs[i])])
         \o <<[num |-> segs[Len(segs)].end, den |-> 1]>>

Linear(start, end, steps) ==
  IF AtLeastOne(steps) = 1 THEN <<[num |-> start, den |-> 1]>>
  ELSE [i \in 1 .. steps |-> [num |-> start * (steps - 1) + (i - 1) * (end - start), den |-> steps - 1]]

\* A file of one column: blank rows are skipped, any other flaw refuses the file.
CsvAccepted(rows) ==
  /\ \A i \in DOMAIN rows : rows[i] \in {"blank", "value"}
  /\ \E i \in DOMAIN rows : rows[i] = "value"

\* (A slip of WithHysteresis.)
WithHysteresisTwice(points) ==
  IF Len(points) < 2 THEN points ELSE points \o Reverse(points)

WithHysteresis(points) ==
  IF Len(points) < 2 THEN points ELSE points \o Reverse(Front(points))

-----------------------------------------------------------------------------
(* The inputs: one case after another.                                      *)

VARIABLE plCase

plVars == <<plCase>>

Odd == [kind : {"nan", "inf", "bool", "str"}, n : {0}]
RuleValues == [kind : {"int", "float"}, n : Numbers] \cup Odd
Limits == RuleValues \cup {None}
Shapes == UNION {[1 .. k -> Extents] : k \in 0 .. 4}
Segments == [start : SweepEnds, end : SweepEnds, step : SweepSteps]

RulesInit == plCase = [of |-> "none"]

CheckTarget ==
  \E v \in RuleValues, lo, hi \in Limits :
    /\ BoundAccepted([min |-> lo, max |-> hi])
    /\ plCase' = [of |-> "target", value |-> v, bound |-> [min |-> lo, max |-> hi]]

CheckParameter ==
  \E t \in {"bool", "int", "float", "str"}, d \in RuleValues :
    \/ \E lo, hi \in Limits :
         LET s == [type |-> t, default |-> d, min |-> lo, max |-> hi, enumerated |-> FALSE, choices |-> {}]
         IN SpecAccepted(s) /\ plCase' = [of |-> "parameter", spec |-> s]
    \/ \E offered \in SUBSET RuleValues :
         LET s == [type |-> t, default |-> d, min |-> None, max |-> None, enumerated |-> TRUE, choices |-> offered]
         IN SpecAccepted(s) /\ plCase' = [of |-> "parameter", spec |-> s]

CheckPoint ==
  \E loop, block \in [1 .. 2 -> Extents], length \in Extents, column \in Columns, shape \in Shapes :
    LET schema == [loop |-> loop, length |-> length, block |-> block]
    IN /\ SchemaAccepted(schema)
       /\ Validates(schema, column, [shape |-> shape, leaf |-> "number"])
       /\ plCase' = [of |-> "point", schema |-> schema, column |-> column, shape |-> shape]

CheckSweep ==
  \/ \E a, b \in Segments :
       SegmentsAccepted(<<a, b>>) /\ plCase' = [of |-> "segments", a |-> a, b |-> b]
  \/ \E s, e \in SweepEnds, n \in SweepCounts : plCase' = [of |-> "hysteresis", out |-> Linear(s, e, n)]

RulesNext == plCase.of = "none" /\ (CheckTarget \/ CheckParameter \/ CheckPoint \/ CheckSweep)

RulesSpec == RulesInit /\ [][RulesNext]_plVars

-----------------------------------------------------------------------------
IsNumber(v) == v.kind \in {"int", "float"}
Within(v, lo, hi) == (IsNumber(lo) => v.n >= lo.n) /\ (IsNumber(hi) => v.n <= hi.n)

\* A target that is accepted and passes the envelope is a number inside its bounds:
\* the envelope itself lets NaN through and relies on the check of the target.
EnvelopeAdmitsOnlyInside ==
  plCase.of = "target" =>
    \/ ~TargetAccepted([target |-> plCase.value, rate |-> None])
    \/ EnvelopeRefuses([vi \in {"magnet"} |-> plCase.bound], "magnet", plCase.value)
    \/ IsNumber(plCase.value) /\ Within(plCase.value, plCase.bound.min, plCase.bound.max)

\* The declaration of a parameter and the loop that runs through values of it check the same
\* limits in two places: the loop refuses no default that was declared (NaN, which equals
\* nothing, is not found among the choices), and no number passes it that is out of bounds.
LoopKeepsTheDeclaration ==
  plCase.of = "parameter" =>
    LET s == plCase.spec
    IN /\ s.type # "bool" /\ s.default.kind # "nan" => LoopTakes(s, s.default)
       /\ \A entry \in RuleValues :
            LoopTakes(s, entry) /\ IsNumber(entry) => Within(entry, s.min, s.max)

\* A value of numbers that the schema lets pass is stored as it is: no data set was
\* allocated with other axes than the schema checks.
ValidatedIsStored ==
  plCase.of = "point" /\ Len(plCase.shape) = Len(DeclaredShape(plCase.schema, plCase.column)) =>
    Stored(plCase.schema, plCase.column, [shape |-> plCase.shape, leaf |-> "number"]) = "exact"

Gap(p, q) == Abs(q.num * p.den - p.num * q.den)

\* A piecewise sweep begins and ends where it was asked to and takes every turn once.  The
\* number of its points is the nearest one: a segment of a whole number of steps keeps the
\* requested step, and on any other a step may come out up to half again as wide.
SweepKeepsItsSteps ==
  plCase.of = "segments" =>
    LET a == plCase.a
        b == plCase.b
        pts == Piecewise(<<a, b>>)
        turn == Steps(a) + 1
    IN /\ pts[1].num = a.start * pts[1].den
       /\ pts[turn].num = a.end * pts[turn].den
       /\ pts[Len(pts)].num = b.end
       /\ Len(pts) = Steps(a) + Steps(b) + 1
       /\ \A seg \in {a, b} :
            seg.start # seg.end /\ Abs(seg.end - seg.start) % seg.step = 0 =>
              Steps(seg) * seg.step = Abs(seg.end - seg.start)
       /\ \A i \in 1 .. (Len(pts) - 1) :
            2 * Gap(pts[i], pts[i + 1])
              <= 3 * (IF i < turn THEN a.step ELSE b.step) * pts[i].den * pts[i + 1].den

\* A hysteresis sweep runs back over its own points and measures its turn once.
HysteresisTurnsOnce ==
  plCase.of = "hysteresis" =>
    LET loop == WithHysteresis(plCase.out)
        n == Len(plCase.out)
    IN SubSeq(loop, 1, n) = plCase.out /\ loop = Reverse(loop) /\ Len(loop) = 2 * n - 1

\* What one check lets pass no later one depends on having been refused, and the points of
\* a sweep are those its segments describe.
RulesAgree ==
  /\ EnvelopeAdmitsOnlyInside
  /\ LoopKeepsTheDeclaration
  /\ ValidatedIsStored
  /\ SweepKeepsItsSteps
  /\ HysteresisTurnsOnce
=============================================================================
