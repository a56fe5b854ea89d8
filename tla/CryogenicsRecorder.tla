---------------------------- MODULE CryogenicsRecorder ----------------------------
(***************************************************************************)
(* The CryogenicsRecorder keeps the hourly helium record and makes one     *)
(* servicing entry of every operation run that ends.  It is called by the  *)
(* Orchestrator's signals and must survive whatever goes wrong inside.     *)
(* Readings are numbered, and so are the lines that samples are written    *)
(* to; a level is the number of its reading.                               *)
(***************************************************************************)
EXTENDS Integers, Sequences

CONSTANTS
  RotateAt,          \* the samples of a file that is larger than _ROTATION_BYTES
  ReadingsPolled     \* bound on the readings

ASSUME RecorderAssumption == RotateAt \in Nat /\ ReadingsPolled \in Nat

VARIABLES
  crLast,            \* the last reading, 0 before the first
  crDue,             \* the last sample is history_sample_s old, or there is none
  crFile,            \* helium_record.jsonl: the numbers of its lines, Unread for one cut short
  crRagged,          \* its last line has no end
  crTaken,           \* the number of lines that were ever begun
  crTorn,            \* those of them with an append that was cut short
  crStart,           \* _run_start_helium_pct: the level a run started at
  crRun,             \* the run under way: its kind and the level at its start
  crSidecar,         \* the recording of this run, or of the last one, is on disk
  crEntry            \* and its entry: [start, level, recording], or NoEntry

fileVars == <<crFile, crRagged, crTaken, crTorn>>
crVars == <<crLast, crDue, fileVars, crStart, crRun, crSidecar, crEntry>>

Idle == [kind |-> "none", level |-> 0]
Unread == 0
NoEntry == [start |-> 0, level |-> 0, recording |-> FALSE]

-----------------------------------------------------------------------------
(* HeliumRecordStore                                                        *)

\* (A slip of Rotated.)
RotatedToOldest(file) == IF Len(file) > RotateAt THEN SubSeq(file, 1, Len(file) \div 2) ELSE file

\* _rotate_if_large(): the newer half is kept, by one rename.
Rotated(file) ==
  IF Len(file) > RotateAt THEN SubSeq(file, Len(file) \div 2 + 1, Len(file)) ELSE file

\* _append_line(): behind a line without an end it writes on, and nobody reads the two.
Begun == IF crRagged THEN crTaken ELSE crTaken + 1
Written(number) ==
  IF crRagged THEN [crFile EXCEPT ![Len(crFile)] = Unread] ELSE Append(crFile, number)

(* The polls                                                                *)

\* The append returns, and the file may fail to rotate behind it ...
SampleIsWritten(rotates) ==
  /\ crTaken' = Begun
  /\ crFile' = IF rotates THEN Rotated(Written(Begun)) ELSE Written(Begun)
  /\ crRagged' = FALSE
  /\ crDue' = ~rotates
  /\ UNCHANGED crTorn

\* ... or is cut short, behind the whole record or somewhere in it.
SampleIsCutShort(whole) ==
  /\ crTaken' = Begun
  /\ crFile' = Written(IF whole THEN Begun ELSE Unread)
  /\ crRagged' = TRUE
  /\ crTorn' = crTorn \cup {Begun}
  /\ UNCHANGED crDue

\* on_states_updated() with a reading: a sample is due every hour, and one whose write
\* raised is due at the next poll again.
Reading ==
  /\ crLast < ReadingsPolled
  /\ crLast' = crLast + 1
  /\ IF crDue
     THEN \/ \E yes \in BOOLEAN : SampleIsWritten(yes) \/ SampleIsCutShort(yes)
          \/ UNCHANGED <<crDue, fileVars>>
     ELSE UNCHANGED <<crDue, fileVars>>
  /\ UNCHANGED <<crStart, crRun, crSidecar, crEntry>>

\* An hour passes.
HourPasses ==
  /\ ~crDue /\ crDue' = TRUE
  /\ UNCHANGED <<crLast, fileVars, crStart, crRun, crSidecar, crEntry>>

(* The runs                                                                 *)

\* (A slip of StartCache.)
StartCacheOnce == IF crStart = 0 THEN crLast ELSE crStart

\* What on_run_started() caches: the last reading.
StartCache == crLast

RecorderRunStarted(kind) ==
  /\ crRun = Idle
  /\ crRun' = [kind |-> kind, level |-> crLast]
  /\ crStart' = IF kind = "operation" THEN StartCache ELSE crStart
  /\ crSidecar' = FALSE /\ crEntry' = NoEntry
  /\ UNCHANGED <<crLast, crDue, fileVars>>

\* (A slip of Writes.)
WritesEntryFirst(done) == [entry |-> done >= 1, sidecar |-> done >= 2]

\* Of the two writes of a finished run the recording is the first.
Writes(done) == [sidecar |-> done >= 1, entry |-> done >= 2]

Entry(recording) == [start |-> crStart, level |-> crRun.level, recording |-> recording]

\* on_run_finished(): a recording that cannot be written is left out, an entry that cannot
\* is logged and the cached levels stay.  recorded: the run has a recording.
RecorderRunFinished(done, recorded, sidecarFails) ==
  /\ crRun # Idle /\ crRun' = Idle
  /\ LET w == Writes(done)
         kept == recorded /\ ~sidecarFails
     IN IF crRun.kind # "operation" THEN UNCHANGED <<crStart, crSidecar, crEntry>>
        ELSE /\ crSidecar' = (w.sidecar /\ kept)
             /\ crEntry' = IF w.entry THEN Entry(kept) ELSE NoEntry
             /\ crStart' = IF w.entry THEN 0 ELSE crStart
  /\ UNCHANGED <<crLast, crDue, fileVars>>

\* The application ends, in a run or between two writes of one that ended, and starts again.
ApplicationRestarts(done, recorded) ==
  /\ IF crRun.kind # "operation" THEN UNCHANGED <<crSidecar, crEntry>>
     ELSE /\ crSidecar' = (Writes(done).sidecar /\ recorded)
          /\ crEntry' = IF Writes(done).entry THEN Entry(recorded) ELSE NoEntry
  /\ crRun' = Idle /\ crStart' = 0 /\ crDue' = TRUE
  /\ UNCHANGED <<crLast, fileVars>>

RecorderInit ==
  /\ crLast = 0 /\ crDue = TRUE
  /\ crFile = <<>> /\ crRagged = FALSE /\ crTaken = 0 /\ crTorn = {}
  /\ crStart = 0 /\ crRun = Idle /\ crSidecar = FALSE /\ crEntry = NoEntry

RecorderNext ==
  \/ Reading \/ HourPasses
  \/ \E kind \in {"operation", "procedure"} : RecorderRunStarted(kind)
  \/ \E done \in 0 .. 2, recorded, fails \in BOOLEAN : RecorderRunFinished(done, recorded, fails)
  \/ \E done \in 0 .. 1, recorded \in BOOLEAN : ApplicationRestarts(done, recorded)

RecorderSpec == RecorderInit /\ [][RecorderNext]_crVars

-----------------------------------------------------------------------------
\* However often the record is halved and whatever failed in between, its lines are the
\* newest that were begun, with none missing between them, and one that does not read is
\* one with an append that was cut short: no other sample is lost, but the one that the
\* next append glued to it.
RecordIsNewest ==
  \A i \in DOMAIN crFile :
    LET number == crTaken - Len(crFile) + i
    IN crFile[i] = number \/ (crFile[i] = Unread /\ number \in crTorn)

\* The level an entry starts with is the one its own run started at, also when the entry
\* of an earlier run could not be written.
StartLevelIsOfThisRun == crEntry.start = crEntry.level

\* A recording that an entry names is on disk, wherever the application ended.
RecordingIsThere == crEntry.recording => crSidecar

\* The helium record and the entries made of runs agree with what was read and stored.
RecorderIsConsistent ==
  /\ RecordIsNewest
  /\ StartLevelIsOfThisRun
  /\ RecordingIsThere
=============================================================================
