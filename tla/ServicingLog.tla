------------------------------ MODULE ServicingLog ------------------------------
(***************************************************************************)
(* ServicingLogStore: a log is a file of lines that is only appended to,   *)
(* an entry is its latest revision, and a reader skips what it cannot      *)
(* read.  An append may be cut short, by the end of the process or a full  *)
(* disk, with or without the whole record on disk but without the end of   *)
(* its line; the next append then continues that line.  A line that is cut *)
(* inside a character makes the file one that no longer decodes.  At       *)
(* start-up two older logs are merged into this one.                       *)
(***************************************************************************)
EXTENDS Ascending, Integers, Sequences, FiniteSets, SequencesExt

CONSTANTS
  Fills,             \* the fills of the legacy cryogenics log, numbered by their times
  Ops,               \* the operations of the legacy operations log, likewise
  MaxLines           \* bound on the appends

ASSUME ServicingAssumption ==
  /\ Fills \subseteq Nat \ {0} /\ IsFiniteSet(Fills)
  /\ Ops \subseteq Nat \ {0} /\ IsFiniteSet(Ops)
  /\ MaxLines \in Nat

VARIABLES
  slLines,           \* servicing.jsonl: revisions [id, rev, deleted, event], or a line cut short
  slRagged,          \* its last line has no end
  slExists,
  slCryo, slOps,     \* the legacy files: "live" "bak" "none"
  slWant,            \* what the last append that returned left of every entry
  slRisked           \* the entries whose last append was cut short or met a ragged line

slVars == <<slLines, slRagged, slExists, slCryo, slOps, slWant, slRisked>>

Revision(id, rev, deleted) == [id |-> id, rev |-> rev, deleted |-> deleted, event |-> 0]
Junk == Revision(0, 0, FALSE)    \* no JSON
Split == Revision(0, 1, FALSE)   \* and no UTF-8 either
Ids == 1 .. MaxLines

-----------------------------------------------------------------------------
(* Lines.                                                                   *)

\* (A slip of ReadableLines.)
ReadableLinesUpToJunk(lines) ==
  LET bad == {i \in DOMAIN lines : lines[i].id = 0}
  IN IF bad = {} THEN ToSet(lines)
     ELSE ToSet(SubSeq(lines, 1, (CHOOSE i \in bad : \A j \in bad : i <= j) - 1))

\* _read_lines_tolerant() decodes the file before it looks at a line ...
Decodes == Split \notin ToSet(slLines)

\* ... and then skips those that do not parse.
ReadableLines(lines) == ToSet(lines) \ {Junk, Split}

Revisions(id) == {l \in ReadableLines(slLines) : l.id = id}

\* (A slip of Latest.)
LatestFirst(id) == CHOOSE l \in Revisions(id) : \A m \in Revisions(id) : l.rev <= m.rev

\* entries(): the highest revision of an id counts ...
Latest(id) == CHOOSE l \in Revisions(id) : \A m \in Revisions(id) : l.rev >= m.rev

\* ... and is shown unless it deletes the entry.
Visible == {id \in Ids : Revisions(id) # {} /\ ~Latest(id).deleted}

\* Two lines in one parse no more, and do not decode if one of them did not.
Glued(first, second) == IF Split \in {first, second} THEN Split ELSE Junk

\* _append_line(): behind a ragged line it makes one line of two.
Appended(line) ==
  IF slRagged THEN [slLines EXCEPT ![Len(slLines)] = Glued(slLines[Len(slLines)], line)]
  ELSE Append(slLines, line)

\* An append that returns.
AppendLine(line, want) ==
  /\ Len(slLines) < MaxLines
  /\ slLines' = Appended(line)
  /\ slRagged' = FALSE
  /\ slExists' = TRUE
  /\ slWant' = [slWant EXCEPT ![line.id] = want]
  /\ slRisked' = IF slRagged THEN slRisked \cup {line.id} ELSE slRisked \ {line.id}
  /\ UNCHANGED <<slCryo, slOps>>

\* Behind the start-up of main().
Started == slExists \/ (slCryo # "live" /\ slOps # "live")
Fresh == {id \in Ids : slWant[id] = "absent" /\ id \notin slRisked}

\* The line of a new entry, and that of an entry with a history, which has to be read.
NewLines == {Revision(id, 1, FALSE) : id \in {i \in Fresh : \A j \in Fresh : i <= j}}
Known(id) == Decodes /\ Revisions(id) # {}
NextLine(id, deleted) == Revision(id, Latest(id).rev + 1, deleted)

\* add_entry() and append_machine_entry()
AddEntryLine == Started /\ \E line \in NewLines : AppendLine(line, "shown")

\* revise_entry(): refused without a history; a deleted entry comes back.
ReviseEntry(id) == Started /\ Known(id) /\ AppendLine(NextLine(id, FALSE), "shown")

\* delete_entry()
DeleteEntry(id) == Started /\ Known(id) /\ AppendLine(NextLine(id, TRUE), "deleted")

\* Any of the three is cut short: behind the whole record, somewhere in it, or inside one
\* of its characters.
AppendCutShort(line, part) ==
  /\ Started /\ Len(slLines) < MaxLines
  /\ slLines' = Appended(CASE part = "whole" -> line [] part = "some" -> Junk [] part = "split" -> Split)
  /\ slRagged' = TRUE /\ slExists' = TRUE
  /\ slRisked' = slRisked \cup {line.id}
  /\ UNCHANGED <<slCryo, slOps, slWant>>

Parts == {"whole", "some", "split"}

-----------------------------------------------------------------------------
(* migrate_legacy_servicing_log(), at the start of the application.         *)

\* (A slip of Matched.)
MatchedNone == {}

\* The events of the files that were there to begin with.
LegacyFills == IF slCryo = "none" THEN {} ELSE Fills
LegacyOps == IF slOps = "none" THEN {} ELSE Ops

\* The operations that are a fill of the other log: those of exactly its times.
Matched == LegacyOps \cap LegacyFills

\* One entry for every fill, with or without its operation, and one for every operation
\* that was not matched, each log in the order of its times.
Migrated ==
  LET events == InOrder(LegacyFills) \o InOrder(LegacyOps \ Matched)
  IN [i \in DOMAIN events |-> [Revision(i, 1, FALSE) EXCEPT !.event = events[i]]]

NotMigrated == ~slExists /\ (slCryo = "live" \/ slOps = "live")

\* (A slip of MigrationWrites.)
MigrationWritesLineByLine(n) ==
  /\ slLines' = SubSeq(Migrated, 1, n)
  /\ slExists' = (n > 0)

\* The lines are written to a temporary file, of which n lines do not count yet.
MigrationWrites(n) == UNCHANGED <<slLines, slExists>>

\* The process ends before the rename: the next start begins anew.
MigrationCutShort ==
  /\ NotMigrated
  /\ \E n \in 0 .. Len(Migrated) : MigrationWrites(n)
  /\ UNCHANGED <<slRagged, slCryo, slOps, slWant, slRisked>>

MigrationCommits ==
  /\ NotMigrated
  /\ slLines' = Migrated
  /\ slExists' = TRUE
  /\ slWant' = [id \in Ids |-> IF id \in DOMAIN Migrated THEN "shown" ELSE slWant[id]]
  /\ UNCHANGED <<slRagged, slCryo, slOps, slRisked>>

\* The two renames behind the commit; a start that finds the log is content with one
\* that was left out.
LegacyRenamed ==
  /\ slExists
  /\ \/ slCryo = "live" /\ slCryo' = "bak" /\ UNCHANGED slOps
     \/ slCryo # "live" /\ slOps = "live" /\ slOps' = "bak" /\ UNCHANGED slCryo
  /\ UNCHANGED <<slLines, slRagged, slExists, slWant, slRisked>>

ServicingInit ==
  /\ slLines = <<>> /\ slRagged = FALSE /\ slExists = FALSE
  /\ slCryo \in {"live", "none"}
  /\ slOps \in {"live", "none"}
  /\ slWant = [id \in Ids |-> "absent"]
  /\ slRisked = {}

ServicingNext ==
  \/ AddEntryLine \/ MigrationCutShort \/ MigrationCommits \/ LegacyRenamed
  \/ \E id \in Ids : ReviseEntry(id) \/ DeleteEntry(id)
  \/ \E part \in Parts :
       \/ \E line \in NewLines : AppendCutShort(line, part)
       \/ \E id \in Ids, deleted \in BOOLEAN : Known(id) /\ AppendCutShort(NextLine(id, deleted), part)

ServicingSpec == ServicingInit /\ [][ServicingNext]_slVars

-----------------------------------------------------------------------------
\* As long as the file decodes, the page shows of every entry what its last append left of
\* it, whatever was appended in between and wherever lines do not parse: a new entry, a
\* change or a removal is only lost if its own append was cut short or wrote on behind a
\* line that was, and writing it again mends that.  (A line cut inside a character takes
\* the whole log with it: entries() and revisions() then raise.)
ShowsWhatWasWritten ==
  Started /\ Decodes => \A id \in Ids \ slRisked : (id \in Visible) = (slWant[id] = "shown")

\* However often the start-up is cut short, the migrated log has every legacy event
\* exactly once when the first of the old ones is put away.
MigratedOnce ==
  slExists /\ "bak" \in {slCryo, slOps} =>
    \A e \in LegacyFills \cup LegacyOps : Cardinality({l \in ToSet(slLines) : l.event = e /\ l.rev = 1}) = 1

\* The log neither loses nor doubles an entry.
LogKeepsEntries ==
  /\ ShowsWhatWasWritten
  /\ MigratedOnce
=============================================================================
