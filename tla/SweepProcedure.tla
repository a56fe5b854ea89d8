---------------------------- MODULE SweepProcedure ----------------------------
(***************************************************************************)
(* SweepMeasureProcedure with its three procedures and the file that a run *)
(* writes: the form that is offered, the run that is built from it, the    *)
(* commands it sends, the reading loops of a point, and the HDF5 file.     *)
(* The ramps between two points belong to the Orchestrator.                *)
(***************************************************************************)
EXTENDS Integers, Sequences, FiniteSets, SequencesExt

CONSTANTS
  MeasurementVIs,    \* measurement_vi_names(): a sequence
  ScannerVI,         \* the first switch of the station
  ReadingParams,     \* VI -> parameter -> [enumerated, choices, min, max]
  Texts,             \* what a value field may hold: sequences of what stands between commas
  Blank,             \* the entry of two commas in a row; one that is no number lies outside every bound
  NoValue,           \* what a parameter has that no command has set
  Present,           \* the ramping VIs that the station has
  SweepKinds,        \* a subset of {"field", "temperature", "time"}
  PointsBound,       \* the longest sweep
  NoRun

VARIABLES
  prScanner,         \* scanner_enabled(): the switch takes part in runs
  prRun,             \* the procedure object, or NoRun
  prIndex,           \* _index
  prFile,            \* the file of the run: its rows, whether it is closed, its length,
                     \* and whether the procedure has it as its _data_manager
  prArmed,           \* measurement VIs whose sources are on
  prSet,             \* <<VI, parameter>> -> the value the hardware has, or NoValue
  prAsked,           \* the point whose target the swept VI was sent last, or 0
  prPhase            \* "idle" "built" "started" "stepped" "ended" "failed"

prVars == <<prScanner, prRun, prIndex, prFile, prArmed, prSet, prAsked, prPhase>>

AllVIs == Range(MeasurementVIs) \cup {ScannerVI}
Qualified == {q \in AllVIs \X UNION {DOMAIN ReadingParams[v] : v \in AllVIs} : q[2] \in DOMAIN ReadingParams[q[1]]}
SpecOf(q) == ReadingParams[q[1]][q[2]]
Off == <<"", "">>

\* The values a loop may run through.
LoopValues == UNION {Range(SpecOf(q).choices) : q \in Qualified} \cup UNION {Range(text) : text \in Texts}

ASSUME SweepAssumption ==
  /\ Off \notin Qualified
  /\ \A q \in Qualified : SpecOf(q).choices \in Seq(LoopValues)
  /\ \A text \in Texts : text \in Seq(LoopValues)
  /\ NoValue \notin LoopValues
  /\ PointsBound \in Nat

NoFile == [rows |-> <<>>, partial |-> FALSE, open |-> FALSE, kept |-> FALSE, length |-> 0, shape |-> <<1, 1>>]

-----------------------------------------------------------------------------
(* The form.                                                                *)

SelectedVI(sel) == IF sel.vi \in Range(MeasurementVIs) THEN sel.vi ELSE MeasurementVIs[1]

\* _loopable_registry(): the scanner's parameters first, while it takes part.
Registry(scanner, vi) ==
  {q \in Qualified : q[1] = vi \/ (scanner /\ q[1] = ScannerVI)}

\* What of a sequence is in a set, in its order.
Chosen(s, keep) ==
  LET Upto[k \in 0 .. Len(s)] ==
        IF k = 0 THEN <<>> ELSE IF s[k] \in keep THEN Append(Upto[k - 1], s[k]) ELSE Upto[k - 1]
  IN Upto[Len(s)]

\* _parse_loop_values(): blank entries are skipped, one flaw refuses the list.
Entries(text) == Chosen(text, Range(text) \ {Blank})
TextParses(spec, text) ==
  \A i \in DOMAIN Entries(text) : spec.min <= Entries(text)[i] /\ Entries(text)[i] <= spec.max

SlotValues(slot) ==
  LET spec == SpecOf(slot.q)
  IN IF spec.enumerated THEN Chosen(spec.choices, slot.picks)
     ELSE Entries(slot.text)

\* (A slip of OfferedSlot.)
OfferedSlotKept(registry, slot) == IF slot.q = Off THEN [q |-> Off, picks |-> {}, text |-> <<>>] ELSE slot

\* get_param_groups(): a selection that is no longer offered falls back, and only the
\* picks and values of the selected parameter are offered again.
OfferedSlot(registry, slot) ==
  IF slot.q \notin registry THEN [q |-> Off, picks |-> {}, text |-> <<>>]
  ELSE IF SpecOf(slot.q).enumerated
       THEN [slot EXCEPT !.picks = @ \cap Range(SpecOf(slot.q).choices), !.text = <<>>]
       ELSE [slot EXCEPT !.picks = {}]

Offered(scanner, sel) ==
  LET registry == Registry(scanner, SelectedVI(sel))
  IN [vi |-> SelectedVI(sel),
      slot |-> [k \in 1 .. 2 |-> OfferedSlot(registry, sel.slot[k])]]

\* (A slip of LoopLabels.)
LoopLabelsRaw(scanner, sel) ==
  [k \in 1 .. 2 |-> IF sel.slot[k].q = Off \/ Len(sel.slot[k].text) < 2 THEN 1 ELSE Len(sel.slot[k].text)]

\* live_plot_loop_labels(): how many readings the plot tells apart on each axis.
LoopLabels(scanner, sel) ==
  LET registry == Registry(scanner, SelectedVI(sel))
      Labelled(slot) ==
        IF slot.q \notin registry \/ (~SpecOf(slot.q).enumerated /\ ~TextParses(SpecOf(slot.q), slot.text))
        THEN 0 ELSE Len(SlotValues(slot))
  IN [k \in 1 .. 2 |-> IF Labelled(sel.slot[k]) < 2 THEN 1 ELSE Labelled(sel.slot[k])]

\* __init__(): the selections that are refused.
SlotRefused(registry, slot) ==
  /\ slot.q # Off
  /\ \/ slot.q \notin registry
     \/ IF SpecOf(slot.q).enumerated THEN ~(slot.picks \subseteq Range(SpecOf(slot.q).choices))
        ELSE ~TextParses(SpecOf(slot.q), slot.text)
     \/ SlotValues(slot) = <<>>

Refused(scanner, sel) ==
  LET registry == Registry(scanner, sel.vi)
  IN \/ sel.vi \notin Range(MeasurementVIs)
     \/ \E k \in 1 .. 2 : SlotRefused(registry, sel.slot[k])
     \/ sel.slot[1].q = sel.slot[2].q /\ sel.slot[1].q # Off

\* The slots that are in use, by their axes.
Slots(sel) ==
  [k \in {n \in 1 .. 2 : sel.slot[n].q # Off} |-> [q |-> sel.slot[k].q, values |-> SlotValues(sel.slot[k])]]

\* What the operator may select, and the forms the constructor takes.
AllSlots == [q : Qualified \cup {Off}, picks : SUBSET (UNION {Range(SpecOf(q).choices) : q \in Qualified}),
             text : Texts \cup {<<>>}]
CanonicalSlots == {OfferedSlot(Qualified, s) : s \in AllSlots}
Forms == {Offered(scanner, [vi |-> vi, slot |-> <<s1, s2>>]) :
            scanner \in BOOLEAN, vi \in Range(MeasurementVIs), s1 \in CanonicalSlots, s2 \in CanonicalSlots}
Accepted == [scanner \in BOOLEAN |-> {sel \in Forms : ~Refused(scanner, sel)}]

\* A temperature that is switched on needs its controller; a time series has none.
TogglesRefused(kind, toggles) == IF kind = "time" THEN toggles # {} ELSE ~(toggles \subseteq Present)

\* The VI that a step of the sweep moves, if any.
Swept(run) ==
  CASE run.kind = "field" -> {"magnet_z"}
    [] run.kind = "temperature" -> {"temperature_vti"} \cap run.toggles
    [] OTHER -> {}

\* _build_sweep_array() of a time series: the first reading is at zero.
SweepLength(kind, n) == IF kind = "time" THEN n + 1 ELSE n

-----------------------------------------------------------------------------
(* The run.                                                                 *)

InUse == DOMAIN prRun.slots
LoopLength(axis) == IF axis \in InUse THEN Len(prRun.slots[axis].values) ELSE 1
LoopShape == [axis \in 1 .. 2 |-> LoopLength(axis)]
IsLevel(slot) == Len(slot.values) >= 2

\* The initiate of a claimed instrument takes its loop parameters back.
Unset == [q \in Qualified |-> NoValue]

\* The command that sets the parameter of a slot to its k-th value.
Assign(set, axis, k) == [set EXCEPT ![prRun.slots[axis].q] = prRun.slots[axis].values[k]]

\* The first values of some slots, in the order of the slots.
AssignFirst(set, axes) ==
  LET outer == IF 1 \in axes THEN Assign(set, 1, 1) ELSE set
  IN IF 2 \in axes THEN Assign(outer, 2, 1) ELSE outer

\* An instrument that is armed takes the parameters of the form: a loop parameter
\* goes back to its default.
ArmedWith(set, vi) == [q \in Qualified |-> IF q[1] = vi THEN NoValue ELSE set[q]]

\* (A slip of InitialSettings.)
InitialSettingsBeforeArming(set) == ArmedWith(AssignFirst(set, InUse), prRun.vi)

\* initiate(): the scanner is set before the instrument is armed, a single value of
\* the instrument itself after it.
InitialSettings(set) ==
  LET others == {k \in InUse : prRun.slots[k].q[1] # prRun.vi}
      single == {k \in InUse \ others : ~IsLevel(prRun.slots[k])}
  IN AssignFirst(ArmedWith(AssignFirst(set, others), prRun.vi), single)

Dispatched(set, axis, k) ==
  IF axis \in InUse /\ IsLevel(prRun.slots[axis]) THEN Assign(set, axis, k) ELSE set

\* (A slip of SettingAt.)
SettingAtInnerOnce(set, i, j) == Dispatched(Dispatched(set, 1, i), 2, IF i = 1 THEN j ELSE 1)

\* What the hardware has when reading (i, j) of a point is taken: the outer setter is
\* called once for every i, the inner one before every reading.
SettingAt(set, i, j) == Dispatched(Dispatched(set, 1, i), 2, j)

Readings == {<<i, j>> : i \in 1 .. LoopShape[1], j \in 1 .. LoopShape[2]}
LastSetting(set) == SettingAt(set, LoopShape[1], LoopShape[2])

Build(sel, kind, n, toggles) ==
  /\ prPhase = "idle"
  /\ sel \in Accepted[prScanner] /\ ~TogglesRefused(kind, toggles)
  /\ SweepLength(kind, n) <= PointsBound
  /\ prRun' = [vi |-> sel.vi, slots |-> Slots(sel), kind |-> kind, toggles |-> toggles,
               points |-> SweepLength(kind, n), labels |-> LoopLabels(prScanner, sel)]
  /\ prPhase' = "built"
  /\ UNCHANGED <<prScanner, prIndex, prFile, prArmed, prSet, prAsked>>

\* The Orchestrator drops a run that is over.
Drop ==
  /\ prPhase \in {"ended", "failed"}
  /\ prRun' = NoRun
  /\ prFile' = NoFile
  /\ prPhase' = "idle"
  /\ prIndex' = 1
  /\ prAsked' = 0
  /\ UNCHANGED <<prScanner, prArmed, prSet>>

ToggleScanner ==
  /\ prPhase \in {"idle", "built"}
  /\ prScanner' = ~prScanner
  /\ UNCHANGED <<prRun, prIndex, prFile, prArmed, prSet, prAsked, prPhase>>

Created == [rows |-> <<>>, partial |-> FALSE, open |-> TRUE, kept |-> TRUE, length |-> prRun.points, shape |-> LoopShape]

\* (A slip of Closed.)
ClosedUncut(file) == [file EXCEPT !.open = FALSE]

\* close(): the file is cut to the saved points, if there are any.
Closed(file) ==
  [file EXCEPT !.open = FALSE,
               !.length = IF file.rows # <<>> /\ Len(file.rows) < @ THEN Len(file.rows) ELSE @,
               !.partial = @ /\ file.rows = <<>>]

\* (A slip of SafeOff.)
SafeOffScannerFirst(armed, set, done) ==
  /\ prArmed' = IF done = 2 THEN armed \ {prRun.vi} ELSE armed
  /\ prSet' = [q \in Qualified |-> IF done >= 1 /\ q[1] = ScannerVI THEN NoValue ELSE set[q]]

\* The commands of _safe_off_commands(), up to one that raises: the instrument first.
SafeOff(armed, set, done) ==
  /\ prArmed' = IF done = 0 THEN armed ELSE armed \ {prRun.vi}
  /\ prSet' = [q \in Qualified |->
                 IF done = 2 /\ q[1] = ScannerVI /\ \E k \in InUse : prRun.slots[k].q[1] = ScannerVI
                 THEN NoValue ELSE set[q]]

\* The targets of a plan: a sweep without a swept VI asks for nothing.
Asked(point) == IF Swept(prRun) = {} THEN 0 ELSE point

\* DataManager.__init__() raises behind the opening of the file: no close() reaches it.
Left == [Created EXCEPT !.kept = FALSE]

\* An empty sweep raises when the file is created.
Initiate ==
  /\ prPhase = "built"
  /\ prRun.points >= 1
  /\ prFile' = Created
  /\ prArmed' = prArmed \cup {prRun.vi}
  /\ prSet' = InitialSettings(Unset)
  /\ prAsked' = Asked(1)
  /\ prPhase' = "started"
  /\ UNCHANGED <<prScanner, prRun, prIndex>>

\* What the abort leaves of the file, by where initiate() raised: before it, in its creation,
\* or, as of an empty sweep never, behind it.
FileAfterRaise(armed) ==
  IF armed THEN {Closed(Created)}
  ELSE IF prRun.points < 1 THEN {NoFile} ELSE {NoFile, Left, Closed(Created)}

\* initiate() or one of its commands raises: the Orchestrator aborts the procedure.
InitiateFails(armed, done) ==
  /\ prPhase = "built"
  /\ armed => prRun.points >= 1
  /\ prFile' \in FileAfterRaise(armed)
  /\ SafeOff(IF armed THEN prArmed \cup {prRun.vi} ELSE prArmed,
             IF armed THEN InitialSettings(Unset) ELSE Unset, done)
  /\ prPhase' = "failed"
  /\ UNCHANGED <<prScanner, prRun, prIndex, prAsked>>

Grid == [r \in Readings |-> [k \in InUse |-> SettingAt(prSet, r[1], r[2])[prRun.slots[k].q]]]

Measure ==
  /\ prPhase = "started"
  /\ prFile' = [prFile EXCEPT !.rows = Append(@, [index |-> prIndex, asked |-> prAsked, grid |-> Grid]), !.partial = FALSE]
  /\ prSet' = LastSetting(prSet)
  /\ prPhase' = "stepped"
  /\ UNCHANGED <<prScanner, prRun, prIndex, prArmed, prAsked>>

\* measure() raises in the loop, in the schema or while a row is written: the columns
\* already written stay, the point does not count.
MeasureFails(written, done) ==
  /\ prPhase = "started"
  /\ prFile' = Closed([prFile EXCEPT !.partial = written])
  /\ \E r \in Readings : SafeOff(prArmed, SettingAt(prSet, r[1], r[2]), done)
  /\ prPhase' = "failed"
  /\ UNCHANGED <<prScanner, prRun, prIndex, prAsked>>

\* change_sweep_step(): a time series also ends when the watched reading has passed its
\* end value; otherwise the sweep ends with its last point, and standby() closes first.
Ends(reached) == prIndex = prRun.points \/ (prRun.kind = "time" /\ reached)

Step(reached) ==
  /\ prPhase = "stepped"
  /\ ~Ends(reached)
  /\ prIndex' = prIndex + 1
  /\ prAsked' = Asked(prIndex + 1)
  /\ prPhase' = "started"
  /\ UNCHANGED <<prScanner, prRun, prFile, prArmed, prSet>>

Standby(reached, done) ==
  /\ prPhase = "stepped"
  /\ Ends(reached)
  /\ prFile' = Closed(prFile)
  /\ SafeOff(prArmed, prSet, done)
  /\ prPhase' = IF done = 2 THEN "ended" ELSE "failed"
  /\ UNCHANGED <<prScanner, prRun, prIndex, prAsked>>

Abort(done) ==
  /\ prPhase \in {"started", "stepped"}
  /\ prFile' = Closed(prFile)
  /\ SafeOff(prArmed, prSet, done)
  /\ prPhase' = "failed"
  /\ UNCHANGED <<prScanner, prRun, prIndex, prAsked>>

ProcedureInit ==
  /\ prScanner = TRUE
  /\ prRun = NoRun
  /\ prIndex = 1
  /\ prFile = NoFile
  /\ prArmed = {}
  /\ prSet = Unset
  /\ prAsked = 0
  /\ prPhase = "idle"

ProcedureNext ==
  \/ \E sel \in Accepted[prScanner], kind \in SweepKinds, n \in 0 .. PointsBound,
       toggles \in SUBSET {"temperature_vti", "temperature_sample"} : Build(sel, kind, n, toggles)
  \/ ToggleScanner \/ Drop
  \/ Initiate
  \/ \E armed \in BOOLEAN, done \in 0 .. 2 : InitiateFails(armed, done)
  \/ Measure
  \/ \E written \in BOOLEAN, done \in 0 .. 2 : MeasureFails(written, done)
  \/ \E reached \in BOOLEAN : Step(reached)
  \/ \E reached \in BOOLEAN, done \in 0 .. 2 : Standby(reached, done)
  \/ \E done \in 0 .. 2 : Abort(done)

-----------------------------------------------------------------------------
\* Every reading of every point in the file was taken with the loop values of its
\* own cell, a value that is set once included, after its own target was sent.
PointsMeasuredAsAsked ==
  /\ \A n \in DOMAIN prFile.rows : Swept(prRun) # {} => prFile.rows[n].asked = n
  /\ \A n \in DOMAIN prFile.rows : \A r \in Readings, k \in InUse :
       LET slot == prRun.slots[k]
       IN prFile.rows[n].grid[r][k] = slot.values[IF IsLevel(slot) THEN r[k] ELSE 1]

\* The rows of a file are the points from the first on without a gap; once closed, a
\* file with points has no other rows, also when the last point failed half-written;
\* and the file that the procedure has is open exactly while its run is under way.
FileIsWhatWasMeasured ==
  /\ \A n \in DOMAIN prFile.rows : prFile.rows[n].index = n
  /\ prFile.open /\ prFile.kept <=> prPhase \in {"started", "stepped"}
  /\ ~prFile.open /\ prFile.rows # <<>> => prFile.length = Len(prFile.rows) /\ ~prFile.partial

\* The curves that the live plot announces from the form are the axes of the file.
LabelsMatchFile == prRun # NoRun => prRun.labels = LoopShape

\* The forms the window offers that the constructor refuses, for no reason that the
\* operator could see.
RefusedOffers == [scanner \in BOOLEAN |->
  {f \in Forms :
     LET sel == Offered(scanner, f) IN
       /\ Refused(scanner, sel)
       /\ sel.slot[1].q = sel.slot[2].q => sel.slot[1].q = Off
       /\ \A k \in 1 .. 2 : sel.slot[k].q = Off \/
            (SlotValues(sel.slot[k]) # <<>> /\ TextParses(SpecOf(sel.slot[k].q), sel.slot[k].text))}]

\* A form that was offered is refused only for what the operator typed or left out:
\* never for a selection that another choice has taken away.
OfferedIsAccepted == RefusedOffers[prScanner] = {}

\* A run that it ends itself never opens the scanner under its own live source.
SourceOffBeforeScanner ==
  [][ prPhase # "built" =>
        \A q \in Qualified : q[1] = ScannerVI /\ prSet[q] # NoValue /\ prSet'[q] = NoValue => prRun.vi \notin prArmed' ]_prVars

\* From the offered form to the closed file a run measures what was asked, and labels it
\* so, and leaves its instruments in the order that spares the sample.
FileIsAsAsked ==
  /\ []PointsMeasuredAsAsked
  /\ []FileIsWhatWasMeasured
  /\ []LabelsMatchFile
  /\ []OfferedIsAccepted
  /\ SourceOffBeforeScanner
=============================================================================
