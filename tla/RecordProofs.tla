------------------------------ MODULE RecordProofs ------------------------------
(***************************************************************************)
(* Proofs about what is kept on disk: the records of the experiments for   *)
(* any experiments and runs, any envelopes and any records of a newer      *)
(* version; the helium record for every rotation bound; the servicing log  *)
(* for any legacy logs and any number of lines; the trend history for any  *)
(* readings, rotations, retentions and limits, and for any length of time. *)
(***************************************************************************)
EXTENDS ExperimentRecords, CryogenicsRecorder, ServicingLog, TrendHistory, Induction,
        SequenceTheorems

-----------------------------------------------------------------------------
(* The records of the experiments, in the parts that the properties need.   *)

\* Types; no record is ever torn, and an application that is down remembers nothing.
ExperimentType ==
  /\ exDisk \in [Experiments -> Records \cup {NoRecord}]
  /\ exPointer \in Experiments \cup {NoExperiment}
  /\ exCurrent \in Experiments \cup {NoExperiment}
  /\ exUp \in BOOLEAN /\ exSaveOk \in BOOLEAN
  /\ exMemory \in Records \cup {NoRecord}
  /\ exRun \in RunIds \cup {NoRunId}
  /\ ~exUp => exCurrent = NoExperiment

\* The record in memory and its copy on disk are open, and of one version.
MemoryInv ==
  exCurrent # NoExperiment =>
    /\ exMemory \in Records /\ exDisk[exCurrent] \in Records
    /\ exMemory.status = "open" /\ exDisk[exCurrent].status = "open"
    /\ exMemory.newer = exDisk[exCurrent].newer
    /\ exSaveOk /\ ~exMemory.newer => exDisk[exCurrent] = exMemory

\* The pointer follows the open experiment; without one it is to nothing that can be
\* resumed, until the next start.
PointerInv ==
  /\ exCurrent # NoExperiment => exPointer = exCurrent
  /\ exUp /\ exCurrent = NoExperiment /\ exPointer # NoExperiment => ~OpenOnDisk(exPointer)

\* What a run left as running on disk, outside the record that the next start sweeps.
StrayInv ==
  /\ \A e \in Experiments, r \in RunIds :
       OpenOnDisk(e) /\ ~exDisk[e].newer /\ e # exPointer /\ exDisk[e].runs[r] = "running"
         => r \in exStrayed
  /\ exCurrent # NoExperiment =>
       \A r \in RunIds : exMemory.runs[r] = "running" => r = exRun \/ r \in exStrayed

\* An experiment that the index shows as closed is closed for good.
IndexInv == \A e \in Experiments : exIndex[e] = "closed" => exDisk[e] \in Records /\ exDisk[e].status = "closed"

ExperimentInv == ExperimentType /\ MemoryInv /\ PointerInv /\ StrayInv /\ IndexInv /\ EnvelopeInForce

-----------------------------------------------------------------------------
(* The first state, and what a write leaves on disk.                        *)

LEMMA NewRecords ==
  /\ NewRecord \in Records /\ NewerRecord \in Records
  /\ NewRecord.status = "open" /\ ~NewRecord.newer /\ NewerRecord.newer
  /\ \A r \in RunIds : NewRecord.runs[r] = "none"
  BY DEF NewRecord, NewerRecord, Records, RunStatus

LEMMA InitExperimentInv == ExperimentInit => ExperimentInv
<1> SUFFICES ASSUME ExperimentInit PROVE ExperimentInv
  OBVIOUS
<1>1. ExperimentType
  BY NewRecords, RecordAssumption DEF ExperimentInit, ExperimentType
<1>2. MemoryInv /\ PointerInv /\ EnvelopeInForce
  BY DEF ExperimentInit, MemoryInv, PointerInv, EnvelopeInForce
<1>3. StrayInv
  BY NewRecords DEF ExperimentInit, StrayInv, OpenOnDisk, Readable
<1>4. IndexInv
  BY DEF ExperimentInit, IndexInv
<1> QED
  BY <1>1, <1>2, <1>3, <1>4 DEF ExperimentInv

\* A save of the open experiment changes no other, and a newer one not at all.
LEMMA SaveEffect ==
  ASSUME ExperimentInv, exCurrent # NoExperiment,
         NEW rec \in Records, rec.newer = exMemory.newer,
         NEW lands \in BOOLEAN, SaveCurrent(rec, lands)
  PROVE  /\ exDisk' \in [Experiments -> Records \cup {NoRecord}]
         /\ \A e \in Experiments : e # exCurrent => exDisk'[e] = exDisk[e]
         /\ exDisk'[exCurrent] \in {exDisk[exCurrent], rec}
         /\ exDisk'[exCurrent].newer = exDisk[exCurrent].newer
         /\ rec.newer => exDisk' = exDisk
         /\ exSaveOk' \in BOOLEAN
         /\ exSaveOk' /\ ~rec.newer => exDisk'[exCurrent] = rec
<1>1. exCurrent \in Experiments /\ exDisk \in [Experiments -> Records \cup {NoRecord}]
      /\ exSaveOk \in BOOLEAN /\ rec.newer = exDisk[exCurrent].newer
  BY DEF ExperimentInv, ExperimentType, MemoryInv
<1>2. CASE rec.newer
  BY <1>1, <1>2 DEF SaveCurrent
<1>3. CASE ~rec.newer
  BY <1>1, <1>3 DEF SaveCurrent
<1> QED
  BY <1>2, <1>3

\* The index that is rebuilt, or left, shows as closed what is closed.
LEMMA IndexKept ==
  ASSUME ExperimentInv, ExperimentType', NEW lands \in BOOLEAN, Reconcile(lands) \/ UNCHANGED exIndex,
         \A e \in Experiments : exDisk[e] \in Records /\ exDisk[e].status = "closed" => exDisk'[e] = exDisk[e]
  PROVE  IndexInv'
<1>1. CASE UNCHANGED exIndex
  BY <1>1 DEF ExperimentInv, IndexInv
<1>2. CASE Reconcile(lands)
  <2>1. CASE ~lands
    BY <1>2, <2>1, <1>1 DEF Reconcile
  <2>2. CASE lands
    <3> SUFFICES ASSUME NEW e \in Experiments, exIndex'[e] = "closed"
                 PROVE  exDisk'[e] \in Records /\ exDisk'[e].status = "closed"
      BY DEF IndexInv
    <3>1. exDisk'[e] \in Records \cup {NoRecord}
      BY DEF ExperimentType
    <3> QED
      BY <1>2, <2>2, <3>1 DEF Reconcile
  <2> QED
    BY <2>1, <2>2
<1> QED
  BY <1>1, <1>2

-----------------------------------------------------------------------------
(* The end of a life of the application.                                    *)

\* Nothing of the disk but an open record changes when the application ends, and no
\* record comes to show a run as running.
LEMMA DeathInv ==
  ASSUME ExperimentInv, Dies, UNCHANGED exPointer,
         exDisk' \in [Experiments -> Records \cup {NoRecord}],
         \A e \in Experiments : exDisk[e] \in Records /\ exDisk[e].status = "closed" => exDisk'[e] = exDisk[e],
         \A e \in Experiments, r \in RunIds :
           OpenOnDisk(e)' /\ ~exDisk'[e].newer /\ e # exPointer /\ exDisk'[e].runs[r] = "running"
             => OpenOnDisk(e) /\ ~exDisk[e].newer /\ exDisk[e].runs[r] = "running"
  PROVE  ExperimentInv'
<1>1. ExperimentType'
  BY DEF ExperimentInv, ExperimentType, Dies
<1>2. MemoryInv' /\ PointerInv' /\ EnvelopeInForce'
  BY DEF Dies, MemoryInv, PointerInv, EnvelopeInForce
<1>3. StrayInv'
  BY DEF ExperimentInv, Dies, StrayInv
<1>4. IndexInv'
  BY DEF ExperimentInv, IndexInv, Dies
<1> QED
  BY <1>1, <1>2, <1>3, <1>4 DEF ExperimentInv

LEMMA CrashInv == ASSUME ExperimentInv, Crash PROVE ExperimentInv'
<1>1. Dies /\ UNCHANGED <<exDisk, exPointer>>
  BY DEF Crash
<1>2. exDisk' \in [Experiments -> Records \cup {NoRecord}]
  BY <1>1 DEF ExperimentInv, ExperimentType
<1> QED
  BY <1>1, <1>2, DeathInv DEF OpenOnDisk, Readable

LEMMA SwitchDiesInv == ASSUME ExperimentInv, NEW e \in Experiments, SwitchDies(e) PROVE ExperimentInv'
<1>1. Dies /\ UNCHANGED <<exDisk, exPointer>>
  BY DEF SwitchDies
<1>2. exDisk' \in [Experiments -> Records \cup {NoRecord}]
  BY <1>1 DEF ExperimentInv, ExperimentType
<1> QED
  BY <1>1, <1>2, DeathInv DEF OpenOnDisk, Readable

LEMMA SaveDiesInv == ASSUME ExperimentInv, SaveDies PROVE ExperimentInv'
<1>1. Dies /\ UNCHANGED <<exDisk, exPointer>>
  BY DEF SaveDies, CutShort, ExperimentInv, ExperimentType
<1>2. exDisk' \in [Experiments -> Records \cup {NoRecord}]
  BY <1>1 DEF ExperimentInv, ExperimentType
<1> QED
  BY <1>1, <1>2, DeathInv DEF OpenOnDisk, Readable

LEMMA StartDiesInv ==
  ASSUME ExperimentInv, NEW e \in Experiments, NEW landed \in {0, 1}, StartDies(e, landed) PROVE ExperimentInv'
<1>1. /\ Dies /\ UNCHANGED exPointer
      /\ exDisk[e] = NoRecord
      /\ exDisk' \in {exDisk, [exDisk EXCEPT ![e] = NewRecord]}
  BY DEF StartDies, CutShort, ExperimentInv, ExperimentType
<1>2. exDisk' \in [Experiments -> Records \cup {NoRecord}]
  BY <1>1, NewRecords DEF ExperimentInv, ExperimentType
<1>3. \A f \in Experiments : f # e => exDisk'[f] = exDisk[f]
  BY <1>1 DEF ExperimentInv, ExperimentType
<1>4. exDisk'[e] \in {NoRecord, NewRecord}
  BY <1>1 DEF ExperimentInv, ExperimentType
<1>5. \A f \in Experiments : exDisk[f] \in Records => exDisk'[f] = exDisk[f]
  BY <1>1, <1>3, RecordAssumption
<1>6. \A r \in RunIds : ~(OpenOnDisk(e)' /\ exDisk'[e].runs[r] = "running")
  BY <1>4, NewRecords DEF OpenOnDisk, Readable
<1>7. \A f \in Experiments, r \in RunIds :
        OpenOnDisk(f)' /\ ~exDisk'[f].newer /\ f # exPointer /\ exDisk'[f].runs[r] = "running"
          => OpenOnDisk(f) /\ ~exDisk[f].newer /\ exDisk[f].runs[r] = "running"
  BY <1>3, <1>6 DEF OpenOnDisk, Readable
<1> QED
  BY <1>1, <1>2, <1>5, <1>7, DeathInv

LEMMA CloseDiesInv == ASSUME ExperimentInv, NEW saved \in BOOLEAN, CloseDies(saved) PROVE ExperimentInv'
<1>0. exCurrent \in Experiments /\ exCurrent = exPointer
      /\ exDisk \in [Experiments -> Records \cup {NoRecord}] /\ exMemory \in Records
      /\ exDisk[exCurrent].status = "open"
  BY DEF CloseDies, ExperimentInv, ExperimentType, MemoryInv, PointerInv
<1> DEFINE rec == [exMemory EXCEPT !.status = "closed"]
<1>1. rec \in Records
  BY <1>0 DEF Records
<1>2. Dies /\ UNCHANGED exPointer /\ exDisk' \in {exDisk, [exDisk EXCEPT ![exCurrent] = rec]}
  BY DEF CloseDies
<1>3. exDisk' \in [Experiments -> Records \cup {NoRecord}]
  BY <1>0, <1>1, <1>2
<1>4. \A e \in Experiments : e # exCurrent => exDisk'[e] = exDisk[e]
  BY <1>0, <1>2
<1> HIDE DEF rec
<1>5. \A e \in Experiments : exDisk[e] \in Records /\ exDisk[e].status = "closed" => exDisk'[e] = exDisk[e]
  BY <1>0, <1>4
<1>6. \A e \in Experiments : e # exPointer => exDisk'[e] = exDisk[e]
  BY <1>0, <1>4
<1> QED
  BY <1>2, <1>3, <1>5, <1>6, DeathInv DEF OpenOnDisk, Readable
-----------------------------------------------------------------------------
(* An experiment is started, left, opened again.                            *)

\* What the experiment that is left shows as running has strayed.
LEMMA LeftHasStrayed ==
  ASSUME ExperimentInv, exStrayed' = exStrayed \cup LeftRunning,
         \A e \in Experiments : e # exCurrent => exDisk'[e] = exDisk[e],
         exUp,
         NEW e \in Experiments, NEW r \in RunIds,
         OpenOnDisk(e)', ~exDisk'[e].newer, exDisk'[e].runs[r] = "running"
  PROVE  r \in exStrayed'
<1>1. CASE e = exCurrent
  BY <1>1, RecordAssumption DEF LeftRunning
<1>2. CASE e # exCurrent
  <2>1. OpenOnDisk(e) /\ ~exDisk[e].newer /\ exDisk[e].runs[r] = "running"
    BY <1>2 DEF OpenOnDisk, Readable
  <2>2. e # exPointer
    BY <1>2, <2>1, RecordAssumption DEF ExperimentInv, PointerInv
  <2> QED
    BY <2>1, <2>2 DEF ExperimentInv, StrayInv
<1> QED
  BY <1>1, <1>2

LEMMA StartInv ==
  ASSUME ExperimentInv, NEW e \in Experiments, NEW indexed \in BOOLEAN, StartExperiment(e, indexed) PROVE ExperimentInv'
<1>1. /\ exUp /\ exCurrent = NoExperiment /\ exDisk[e] = NoRecord
      /\ exDisk' = [exDisk EXCEPT ![e] = NewRecord]
      /\ exPointer' = e /\ exCurrent' = e /\ exMemory' = NewRecord
      /\ exEnvelope' = EnvelopeOf(e)
      /\ UNCHANGED <<exUp, exSaveOk, exRun, exStrayed>>
  BY DEF StartExperiment, InstallEnvelope
<1>2. /\ exDisk'[e] = NewRecord
      /\ \A f \in Experiments : f # e => exDisk'[f] = exDisk[f]
  BY <1>1 DEF ExperimentInv, ExperimentType
<1>3. ExperimentType'
  BY <1>1, NewRecords DEF ExperimentInv, ExperimentType
<1>4. MemoryInv' /\ EnvelopeInForce'
  BY <1>1, <1>2, NewRecords, RecordAssumption DEF MemoryInv, EnvelopeInForce, EnvelopeOf
<1>5. PointerInv'
  BY <1>1, RecordAssumption DEF PointerInv
<1>6. StrayInv'
  <2>1. \A r \in RunIds : exMemory'.runs[r] # "running"
    BY <1>1, NewRecords
  <2>2. ASSUME NEW f \in Experiments, NEW r \in RunIds,
               OpenOnDisk(f)', ~exDisk'[f].newer, f # exPointer', exDisk'[f].runs[r] = "running"
        PROVE  r \in exStrayed'
    <3>1. OpenOnDisk(f) /\ ~exDisk[f].newer /\ exDisk[f].runs[r] = "running"
      BY <1>1, <1>2, <2>2 DEF OpenOnDisk, Readable
    <3>2. f # exPointer
      BY <1>1, <3>1, RecordAssumption DEF ExperimentInv, PointerInv
    <3> QED
      BY <1>1, <3>1, <3>2 DEF ExperimentInv, StrayInv
  <2> QED
    BY <2>1, <2>2 DEF StrayInv
<1>7. IndexInv'
  BY <1>1, <1>2, <1>3, IndexKept, RecordAssumption DEF StartExperiment
<1> QED
  BY <1>3, <1>4, <1>5, <1>6, <1>7 DEF ExperimentInv

LEMMA CloseInv ==
  ASSUME ExperimentInv, NEW saved \in BOOLEAN, NEW indexed \in BOOLEAN, CloseExperiment(saved, indexed) PROVE ExperimentInv'
<1> DEFINE rec == [exMemory EXCEPT !.status = "closed"]
<1>0. exCurrent \in Experiments /\ exMemory \in Records /\ exDisk[exCurrent].status = "open"
  BY DEF CloseExperiment, ExperimentInv, ExperimentType, MemoryInv
<1>1. rec \in Records /\ rec.newer = exMemory.newer
  BY <1>0 DEF Records
<1>2. /\ exUp /\ exCurrent # NoExperiment
      /\ SaveCurrent(rec, saved)
      /\ exPointer' = NoExperiment /\ exCurrent' = NoExperiment
      /\ exMemory' = NoRecord /\ exEnvelope' = NoExperiment
      /\ exStrayed' = exStrayed \cup LeftRunning
      /\ UNCHANGED <<exUp, exRun>>
  BY DEF CloseExperiment
<1> HIDE DEF rec
<1>3. /\ exDisk' \in [Experiments -> Records \cup {NoRecord}]
      /\ \A e \in Experiments : e # exCurrent => exDisk'[e] = exDisk[e]
      /\ exSaveOk' \in BOOLEAN
  BY <1>1, <1>2, SaveEffect
<1>4. ExperimentType'
  BY <1>2, <1>3 DEF ExperimentInv, ExperimentType
<1>5. MemoryInv' /\ PointerInv' /\ EnvelopeInForce'
  BY <1>2 DEF MemoryInv, PointerInv, EnvelopeInForce
<1>6. StrayInv'
  BY <1>2, <1>3, LeftHasStrayed DEF StrayInv
<1>7. IndexInv'
  BY <1>0, <1>3, <1>4, IndexKept DEF CloseExperiment
<1> QED
  BY <1>4, <1>5, <1>6, <1>7 DEF ExperimentInv

LEMMA SwitchInv ==
  ASSUME ExperimentInv, NEW e \in Experiments, NEW indexed \in BOOLEAN, SwitchExperiment(e, indexed) PROVE ExperimentInv'
<1>1. /\ exUp /\ OpenOnDisk(e) /\ ~exDisk[e].newer
      /\ exCurrent' = e /\ exMemory' = exDisk[e] /\ exPointer' = e
      /\ exEnvelope' = EnvelopeOf(e)
      /\ UNCHANGED <<exDisk, exUp, exSaveOk, exRun>>
      /\ exStrayed' = exStrayed \cup LeftRunning
  BY DEF SwitchExperiment, InstallEnvelope
<1>2. exDisk[e] \in Records /\ exDisk[e].status = "open"
  BY <1>1 DEF ExperimentInv, ExperimentType, OpenOnDisk, Readable
<1>3. ExperimentType'
  BY <1>1, <1>2 DEF ExperimentInv, ExperimentType
<1>4. MemoryInv' /\ EnvelopeInForce'
  BY <1>1, <1>2, RecordAssumption DEF MemoryInv, EnvelopeInForce
<1>5. PointerInv'
  BY <1>1, RecordAssumption DEF PointerInv
<1>6. StrayInv'
  <2>1. ASSUME NEW f \in Experiments, NEW r \in RunIds,
               OpenOnDisk(f)', ~exDisk'[f].newer, exDisk'[f].runs[r] = "running"
        PROVE  r \in exStrayed'
    BY <1>1, <2>1, LeftHasStrayed
  <2>2. OpenOnDisk(e)' /\ ~exDisk'[e].newer
    BY <1>1 DEF OpenOnDisk, Readable
  <2> QED
    BY <1>1, <2>1, <2>2 DEF StrayInv
<1>7. IndexInv'
  BY <1>1, <1>3, IndexKept DEF SwitchExperiment
<1> QED
  BY <1>3, <1>4, <1>5, <1>6, <1>7 DEF ExperimentInv

-----------------------------------------------------------------------------
(* The open experiment is saved.                                            *)

\* A save of the open record, with nothing more running than the run in progress.
LEMMA RecordSavedInv ==
  ASSUME ExperimentInv, exUp, exCurrent # NoExperiment,
         exMemory' \in Records, exMemory'.status = "open", exMemory'.newer = exMemory.newer,
         NEW saved \in BOOLEAN, SaveCurrent(exMemory', saved),
         exRun' \in RunIds \cup {NoRunId},
         \A r \in RunIds : exMemory'.runs[r] = "running" => r = exRun' \/ r \in exStrayed,
         UNCHANGED <<exPointer, exIndex, exUp, exCurrent, exEnvelope, exStrayed>>
  PROVE  ExperimentInv'
<1>1. /\ exCurrent \in Experiments /\ exPointer = exCurrent
      /\ exDisk[exCurrent] \in Records /\ exDisk[exCurrent].status = "open"
      /\ exMemory.newer = exDisk[exCurrent].newer
  BY DEF ExperimentInv, ExperimentType, MemoryInv, PointerInv
<1>2. /\ exDisk' \in [Experiments -> Records \cup {NoRecord}]
      /\ \A e \in Experiments : e # exCurrent => exDisk'[e] = exDisk[e]
      /\ exDisk'[exCurrent] \in {exDisk[exCurrent], exMemory'}
      /\ exDisk'[exCurrent].newer = exDisk[exCurrent].newer
      /\ exSaveOk' \in BOOLEAN
      /\ exSaveOk' /\ ~exMemory'.newer => exDisk'[exCurrent] = exMemory'
  BY SaveEffect
<1>3. ExperimentType'
  BY <1>2 DEF ExperimentInv, ExperimentType
<1>4. MemoryInv'
  BY <1>1, <1>2 DEF MemoryInv
<1>5. PointerInv' /\ EnvelopeInForce'
  BY DEF ExperimentInv, PointerInv, EnvelopeInForce
<1>6. StrayInv'
  BY <1>1, <1>2 DEF ExperimentInv, StrayInv, OpenOnDisk, Readable
<1>7. IndexInv'
  BY <1>1, <1>2, <1>3, IndexKept
<1> QED
  BY <1>3, <1>4, <1>5, <1>6, <1>7 DEF ExperimentInv

LEMMA SaveRecordInv == ASSUME ExperimentInv, NEW saved \in BOOLEAN, SaveRecord(saved) PROVE ExperimentInv'
<1>1. /\ exUp /\ exCurrent # NoExperiment
      /\ SaveCurrent(exMemory', saved)
      /\ UNCHANGED <<exPointer, exIndex, exUp, exCurrent, exMemory, exEnvelope, exRun, exStrayed>>
  BY DEF SaveRecord
<1>2. exMemory \in Records /\ exMemory.status = "open"
      /\ exRun \in RunIds \cup {NoRunId}
      /\ \A r \in RunIds : exMemory.runs[r] = "running" => r = exRun \/ r \in exStrayed
  BY <1>1 DEF ExperimentInv, ExperimentType, MemoryInv, StrayInv
<1> QED
  BY <1>1, <1>2, RecordSavedInv

\* Without an experiment a run leaves no trace in the records.
LEMMA NoTraceInv ==
  ASSUME ExperimentInv, UNCHANGED <<exDisk, exSaveOk, exMemory, exPointer, exIndex, exUp, exCurrent, exEnvelope, exStrayed>>,
         exRun' \in RunIds \cup {NoRunId},
         exCurrent # NoExperiment =>
           \A r \in RunIds : exMemory.runs[r] = "running" => r = exRun' \/ r \in exStrayed
  PROVE  ExperimentInv'
<1>1. ExperimentType' /\ MemoryInv' /\ PointerInv' /\ IndexInv' /\ EnvelopeInForce'
  BY DEF ExperimentInv, ExperimentType, MemoryInv, PointerInv, IndexInv, EnvelopeInForce, OpenOnDisk, Readable
<1>2. StrayInv'
  BY DEF ExperimentInv, StrayInv, OpenOnDisk, Readable
<1> QED
  BY <1>1, <1>2 DEF ExperimentInv

LEMMA ManifestRecord ==
  ASSUME NEW rec \in Records, NEW r \in RunIds, NEW status \in RunStatus
  PROVE  /\ [rec EXCEPT !.runs[r] = status] \in Records
         /\ [rec EXCEPT !.runs[r] = status].status = rec.status
         /\ [rec EXCEPT !.runs[r] = status].newer = rec.newer
         /\ \A q \in RunIds : [rec EXCEPT !.runs[r] = status].runs[q] = IF q = r THEN status ELSE rec.runs[q]
  BY DEF Records

LEMMA RunStartedInv ==
  ASSUME ExperimentInv, NEW r \in RunIds, NEW saved \in BOOLEAN, RunStarted(r, saved) PROVE ExperimentInv'
<1>1. /\ exUp /\ exRun = NoRunId /\ exRun' = r
      /\ UNCHANGED <<exPointer, exIndex, exUp, exCurrent, exEnvelope, exStrayed>>
  BY DEF RunStarted
<1>2. CASE exCurrent = NoExperiment
  BY <1>1, <1>2, NoTraceInv DEF RunStarted
<1>3. CASE exCurrent # NoExperiment
  <2>1. exMemory' = [exMemory EXCEPT !.runs[r] = "running"] /\ SaveCurrent(exMemory', saved)
    BY <1>3 DEF RunStarted, WriteManifest
  <2>2. exMemory \in Records /\ exMemory.status = "open" /\ "running" \in RunStatus
    BY <1>3 DEF ExperimentInv, MemoryInv, RunStatus
  <2>3. /\ exMemory' \in Records /\ exMemory'.status = "open" /\ exMemory'.newer = exMemory.newer
        /\ \A q \in RunIds : exMemory'.runs[q] = IF q = r THEN "running" ELSE exMemory.runs[q]
    BY <2>1, <2>2, ManifestRecord
  <2>4. \A q \in RunIds : exMemory.runs[q] = "running" => q \in exStrayed
    BY <1>1, <1>3, RecordAssumption DEF ExperimentInv, StrayInv
  <2> QED
    BY <1>1, <1>3, <2>1, <2>3, <2>4, RecordSavedInv
<1> QED
  BY <1>2, <1>3

LEMMA RunFinishedInv ==
  ASSUME ExperimentInv, NEW status \in {"ended", "failed"}, NEW saved \in BOOLEAN, RunFinished(status, saved)
  PROVE  ExperimentInv'
<1>1. /\ exUp /\ exRun # NoRunId /\ exRun' = NoRunId
      /\ UNCHANGED <<exPointer, exIndex, exUp, exCurrent, exEnvelope, exStrayed>>
  BY DEF RunFinished
<1>2. CASE exCurrent = NoExperiment \/ exMemory.runs[exRun] = "none"
  <2>1. exCurrent # NoExperiment =>
          \A r \in RunIds : exMemory.runs[r] = "running" => r = exRun' \/ r \in exStrayed
    BY <1>2 DEF ExperimentInv, StrayInv
  <2> QED
    BY <1>1, <1>2, <2>1, NoTraceInv DEF RunFinished
<1>3. CASE exCurrent # NoExperiment /\ exMemory.runs[exRun] # "none"
  <2>1. exMemory' = [exMemory EXCEPT !.runs[exRun] = status] /\ SaveCurrent(exMemory', saved)
    BY <1>3 DEF RunFinished, WriteManifest
  <2>2. exMemory \in Records /\ exMemory.status = "open" /\ status \in RunStatus
    BY <1>3 DEF ExperimentInv, MemoryInv, RunStatus
  <2>3. exRun \in RunIds
    BY <1>1 DEF ExperimentInv, ExperimentType
  <2>4. /\ exMemory' \in Records /\ exMemory'.status = "open" /\ exMemory'.newer = exMemory.newer
        /\ \A q \in RunIds : exMemory'.runs[q] = IF q = exRun THEN status ELSE exMemory.runs[q]
    BY <2>1, <2>2, <2>3, ManifestRecord
  <2>5. \A q \in RunIds : exMemory'.runs[q] = "running" => q \in exStrayed
    BY <1>3, <2>4 DEF ExperimentInv, StrayInv
  <2> QED
    BY <1>1, <1>3, <2>1, <2>4, <2>5, RecordSavedInv
<1> QED
  BY <1>2, <1>3

-----------------------------------------------------------------------------
(* Restart.                                                                 *)

LEMMA RestartInv == ASSUME ExperimentInv, Restart PROVE ExperimentInv'
<1>1. ~exUp /\ exUp' = TRUE /\ exCurrent = NoExperiment /\ UNCHANGED <<exIndex, exRun, exStrayed>>
  BY DEF Restart, ExperimentInv, ExperimentType
<1>2. ASSUME NEW ok \in BOOLEAN, ResumeNothing(ok) PROVE ExperimentInv'
  <2>1. /\ exPointer # NoExperiment => ~OpenOnDisk(exPointer)
        /\ exPointer' \in {NoExperiment, exPointer}
        /\ exSaveOk' = TRUE
        /\ UNCHANGED <<exDisk, exCurrent, exMemory, exEnvelope>>
    BY <1>2 DEF ResumeNothing
  <2>2. ExperimentType' /\ EnvelopeInForce' /\ IndexInv'
    BY <1>1, <2>1 DEF ExperimentInv, ExperimentType, EnvelopeInForce, IndexInv
  <2>3. MemoryInv' /\ PointerInv'
    BY <1>1, <2>1 DEF MemoryInv, PointerInv, OpenOnDisk, Readable
  <2>4. StrayInv'
    BY <1>1, <2>1, RecordAssumption DEF ExperimentInv, StrayInv, OpenOnDisk, Readable
  <2> QED
    BY <2>2, <2>3, <2>4 DEF ExperimentInv
<1>3. ASSUME NEW e \in Experiments, NEW ok \in BOOLEAN, Resume(e, ok) PROVE ExperimentInv'
  <2>1. /\ exPointer = e /\ OpenOnDisk(e)
        /\ exCurrent' = e /\ exMemory' = SweepStale(exDisk[e])
        /\ exEnvelope' = EnvelopeOf(e) /\ exPointer' = exPointer
    BY <1>3 DEF Resume, InstallEnvelope
  <2>2. exDisk[e] \in Records /\ exDisk[e].status = "open"
    BY <2>1 DEF ExperimentInv, ExperimentType, OpenOnDisk, Readable
  <2>3. /\ exMemory' \in Records /\ exMemory'.status = "open" /\ exMemory'.newer = exDisk[e].newer
        /\ \A r \in RunIds : exMemory'.runs[r] # "running"
    BY <2>1, <2>2 DEF SweepStale, Records, RunStatus
  <2>4. /\ exDisk' \in {exDisk, [exDisk EXCEPT ![e] = exMemory']}
        /\ exSaveOk' \in BOOLEAN
        /\ exSaveOk' /\ ~exMemory'.newer => exDisk'[e] = exMemory'
    BY <1>3, <2>3 DEF Resume, ExperimentInv, ExperimentType
  <2>5. /\ exDisk' \in [Experiments -> Records \cup {NoRecord}]
        /\ exDisk'[e] \in {exDisk[e], exMemory'}
        /\ \A f \in Experiments : f # e => exDisk'[f] = exDisk[f]
    BY <2>2, <2>3, <2>4 DEF ExperimentInv, ExperimentType
  <2>6. ExperimentType'
    BY <1>1, <2>1, <2>3, <2>4, <2>5 DEF ExperimentInv, ExperimentType
  <2>7. MemoryInv' /\ PointerInv' /\ EnvelopeInForce'
    BY <2>1, <2>2, <2>3, <2>4, <2>5, RecordAssumption DEF MemoryInv, PointerInv, EnvelopeInForce
  <2>8. StrayInv'
    BY <1>1, <2>1, <2>3, <2>5 DEF ExperimentInv, StrayInv, OpenOnDisk, Readable
  <2>9. IndexInv'
    BY <1>1, <2>2, <2>5 DEF ExperimentInv, IndexInv
  <2> QED
    BY <2>6, <2>7, <2>8, <2>9 DEF ExperimentInv
<1> QED
  BY <1>2, <1>3 DEF Restart

-----------------------------------------------------------------------------
(* The theorems.                                                            *)

LEMMA NextExperimentInv == ExperimentInv /\ [ExperimentNext]_exVars => ExperimentInv'
<1> SUFFICES ASSUME ExperimentInv, [ExperimentNext]_exVars PROVE ExperimentInv'
  OBVIOUS
<1>1. CASE ExperimentNext
  BY <1>1, CrashInv, RestartInv, SaveDiesInv, StartInv, SwitchInv, StartDiesInv, SwitchDiesInv,
     CloseInv, CloseDiesInv, SaveRecordInv, RunStartedInv, RunFinishedInv DEF ExperimentNext
<1>2. CASE UNCHANGED exVars
  BY <1>2, NoTraceInv DEF exVars, ExperimentInv, ExperimentType, StrayInv
<1> QED
  BY <1>1, <1>2

\* The invariant implies what the properties say of a state.
LEMMA InvImplies ==
  ASSUME ExperimentInv
  PROVE  /\ RecordsReadable /\ PointerIsCurrent /\ StalenessIsTold
         /\ RunningIsInProgress /\ IndexNotAhead /\ EnvelopeInForce
<1>1. RecordsReadable
  BY RecordAssumption DEF ExperimentInv, ExperimentType, RecordsReadable
<1>2. PointerIsCurrent
  BY DEF ExperimentInv, PointerInv, PointerIsCurrent
<1>3. StalenessIsTold
  BY DEF ExperimentInv, MemoryInv, StalenessIsTold
<1>4. RunningIsInProgress
  BY DEF ExperimentInv, StrayInv, RunningIsInProgress
<1>5. IndexNotAhead
  BY DEF ExperimentInv, IndexInv, IndexNotAhead, OpenOnDisk
<1> QED
  BY <1>1, <1>2, <1>3, <1>4, <1>5 DEF ExperimentInv

\* A record of a newer version survives every step.
LEMMA NextLeavesNewer ==
  ASSUME ExperimentInv, ExperimentNext, NEW f \in Experiments, Readable(f), exDisk[f].newer
  PROVE  exDisk'[f] = exDisk[f]
<1>0. exDisk[f] # NoRecord /\ exDisk \in [Experiments -> Records \cup {NoRecord}]
  BY DEF Readable, ExperimentInv, ExperimentType
<1>1. ASSUME NEW rec \in Records, rec.newer = exMemory.newer, exCurrent # NoExperiment,
             NEW lands \in BOOLEAN, SaveCurrent(rec, lands)
      PROVE  exDisk'[f] = exDisk[f]
  <2>1. exMemory.newer = exDisk[exCurrent].newer
    BY <1>1 DEF ExperimentInv, MemoryInv
  <2> QED
    BY <1>1, <2>1, SaveEffect
<1>2. CASE Crash \/ SaveDies \/ \E e \in Experiments : SwitchDies(e)
  BY <1>2 DEF Crash, SaveDies, SwitchDies, CutShort, ExperimentInv, ExperimentType
<1>3. CASE Restart
  <2>1. CASE UNCHANGED exDisk
    BY <2>1
  <2>2. ASSUME NEW e \in Experiments, NEW ok \in BOOLEAN, Resume(e, ok) PROVE exDisk'[f] = exDisk[f]
    BY <1>0, <2>2 DEF Resume
  <2> QED
    BY <1>3, <2>1, <2>2 DEF Restart, ResumeNothing
<1>4. ASSUME NEW e \in Experiments, NEW ok \in BOOLEAN, StartExperiment(e, ok) \/ SwitchExperiment(e, ok)
      PROVE  exDisk'[f] = exDisk[f]
  BY <1>0, <1>4 DEF StartExperiment, SwitchExperiment
<1>5. ASSUME NEW e \in Experiments, NEW landed \in {0, 1}, StartDies(e, landed)
      PROVE  exDisk'[f] = exDisk[f]
  BY <1>0, <1>5 DEF StartDies, CutShort
<1>6. ASSUME NEW saved \in BOOLEAN, NEW indexed \in BOOLEAN, CloseExperiment(saved, indexed)
      PROVE  exDisk'[f] = exDisk[f]
  <2>1. exCurrent # NoExperiment /\ SaveCurrent([exMemory EXCEPT !.status = "closed"], saved)
    BY <1>6 DEF CloseExperiment
  <2>2. /\ [exMemory EXCEPT !.status = "closed"] \in Records
        /\ [exMemory EXCEPT !.status = "closed"].newer = exMemory.newer
    BY <2>1 DEF ExperimentInv, MemoryInv, Records
  <2> QED
    BY <1>1, <2>1, <2>2
<1>7. ASSUME NEW saved \in BOOLEAN, CloseDies(saved) PROVE exDisk'[f] = exDisk[f]
  <2>1. exCurrent # NoExperiment /\ exMemory \in Records /\ exMemory.newer = exDisk[exCurrent].newer
    BY <1>7 DEF CloseDies, ExperimentInv, MemoryInv
  <2>2. [exMemory EXCEPT !.status = "closed"].newer = exDisk[exCurrent].newer
    BY <2>1 DEF Records
  <2> QED
    BY <1>0, <1>7, <2>2 DEF CloseDies
<1>8. ASSUME NEW saved \in BOOLEAN, SaveRecord(saved) PROVE exDisk'[f] = exDisk[f]
  BY <1>1, <1>8 DEF SaveRecord, ExperimentInv, MemoryInv
<1>9. ASSUME NEW r \in RunIds, NEW status \in RunStatus, NEW saved \in BOOLEAN,
             exCurrent # NoExperiment, WriteManifest(r, status, saved)
      PROVE  exDisk'[f] = exDisk[f]
  <2>1. exMemory' = [exMemory EXCEPT !.runs[r] = status] /\ SaveCurrent(exMemory', saved)
    BY <1>9 DEF WriteManifest
  <2>2. exMemory \in Records
    BY <1>9 DEF ExperimentInv, MemoryInv
  <2>3. exMemory' \in Records /\ exMemory'.newer = exMemory.newer
    BY <2>1, <2>2, ManifestRecord
  <2> QED
    BY <1>1, <1>9, <2>1, <2>3
<1>10. ASSUME NEW r \in RunIds, NEW saved \in BOOLEAN, RunStarted(r, saved)
       PROVE  exDisk'[f] = exDisk[f]
  BY <1>9, <1>10 DEF RunStarted, RunStatus
<1>11. ASSUME NEW status \in {"ended", "failed"}, NEW saved \in BOOLEAN, RunFinished(status, saved)
       PROVE  exDisk'[f] = exDisk[f]
  BY <1>9, <1>11 DEF RunFinished, RunStatus, ExperimentInv, ExperimentType
<1> QED
  BY <1>2, <1>3, <1>4, <1>5, <1>6, <1>7, <1>8, <1>10, <1>11 DEF ExperimentNext

\* For any experiments, envelopes and crashes the envelope in force is the open experiment's.
THEOREM EnvelopeInForceHolds == ExperimentSpec => []EnvelopeInForce
<1>1. ExperimentInv => EnvelopeInForce
  BY DEF ExperimentInv
<1> QED
  BY InitExperimentInv, NextExperimentInv, <1>1, PTL DEF ExperimentSpec

\* For any experiments and runs, wherever the application dies and whichever writes fail:
\* every record can be read, a restart comes back to the experiment that was open, and
\* record, pointer, index and memory tell one story; records of a newer version stay.
THEOREM RecordsAreConsistentHolds == ExperimentSpec => RecordsAreConsistent
<1>1. ExperimentInv => RecordsReadable /\ PointerIsCurrent /\ StalenessIsTold
  BY InvImplies
<1>2. ExperimentInv => RunningIsInProgress /\ IndexNotAhead
  BY InvImplies
<1>3. ExperimentInv /\ [ExperimentNext]_exVars =>
        [\A e \in Experiments : Readable(e) /\ exDisk[e].newer => exDisk'[e] = exDisk[e]]_exVars
  BY NextLeavesNewer
<1> QED
  BY InitExperimentInv, NextExperimentInv, <1>1, <1>2, <1>3, PTL DEF ExperimentSpec, RecordsAreConsistent, NewerUntouched

-----------------------------------------------------------------------------
(* The helium record.                                                       *)

\* A line without an end is the last one begun, and its append was cut short.
RaggedIsTorn == crRagged = TRUE => crFile # <<>> /\ crTaken \in crTorn

RecordInv ==
  crFile \in Seq(Nat) /\ crTaken \in Nat /\ crRagged \in BOOLEAN /\ RecordIsNewest /\ RaggedIsTorn

\* Inside an operation run the cached level is the one it started at.
RunInv == crRun.kind = "operation" => crStart = crRun.level

RecorderInv ==
  RecordInv /\ RunInv /\ crRun \in [kind : {"none", "operation", "procedure"}, level : Nat]
  /\ crLast \in Nat /\ StartLevelIsOfThisRun /\ RecordingIsThere

\* What a line with this number may hold.
Holds(line, number, torn) == line = number \/ (line = Unread /\ number \in torn)

Newest(file, taken, torn) ==
  file \in Seq(Nat) /\ taken \in Nat
  /\ \A i \in DOMAIN file : Holds(file[i], taken - Len(file) + i, torn)

\* The same of a state, for the provers: a file, a count and the lines cut short.
LEMMA NewestIsRecord ==
  RecordInv <=> Newest(crFile, crTaken, crTorn) /\ crRagged \in BOOLEAN /\ RaggedIsTorn
  BY DEF RecordInv, Newest, RecordIsNewest, Holds

LEMMA NewestTorn ==
  ASSUME NEW file, NEW taken, NEW torn, NEW more, Newest(file, taken, torn)
  PROVE  Newest(file, taken, torn \cup more)
  BY DEF Newest, Holds

LEMMA AppendNewest ==
  ASSUME NEW file, NEW taken, NEW torn, NEW line \in Nat,
         Newest(file, taken, torn), Holds(line, taken + 1, torn)
  PROVE  Newest(Append(file, line), taken + 1, torn)
<1> DEFINE n == Len(file)
           t == Append(file, line)
<1>1. file \in Seq(Nat) /\ n \in Nat /\ taken \in Nat
  BY DEF Newest
<1>2. t \in Seq(Nat) /\ Len(t) = n + 1 /\ t[n + 1] = line /\ \A i \in 1 .. n : t[i] = file[i]
  BY <1>1
<1>3. \A i \in 1 .. n : Holds(file[i], taken - n + i, torn)
  BY <1>1 DEF Newest
<1>4. DOMAIN t = 1 .. (n + 1)
  BY <1>1, <1>2
<1> HIDE DEF n, t
<1>5. ASSUME NEW i \in 1 .. (n + 1) PROVE Holds(t[i], taken + 1 - Len(t) + i, torn)
  <2>1. taken + 1 - Len(t) + i = taken - n + i
    BY <1>1, <1>2
  <2>2. CASE i = n + 1
    <3>1. taken - n + i = taken + 1
      BY <1>1, <2>2
    <3> QED
      BY <1>2, <2>1, <2>2, <3>1
  <2>3. CASE i # n + 1
    <3>1. i \in 1 .. n
      BY <1>1, <2>3
    <3> QED
      BY <1>2, <1>3, <2>1, <3>1
  <2> QED
    BY <2>2, <2>3
<1> QED
  BY <1>1, <1>2, <1>4, <1>5 DEF Newest, t

\* Two lines glued together take up the place of the first.
LEMMA GlueNewest ==
  ASSUME NEW file, NEW taken, NEW torn, Newest(file, taken, torn), file # <<>>, taken \in torn
  PROVE  Newest([file EXCEPT ![Len(file)] = Unread], taken, torn)
<1> DEFINE n == Len(file)
           t == [file EXCEPT ![n] = Unread]
<1>1. file \in Seq(Nat) /\ n \in Nat /\ n \in 1 .. n /\ taken \in Nat /\ DOMAIN file = 1 .. n
  BY DEF Newest
<1>2. t[n] = Unread /\ \A i \in 1 .. n : i # n => t[i] = file[i]
  BY <1>1
<1>3. \A i \in 1 .. n : Holds(file[i], taken - n + i, torn)
  BY <1>1 DEF Newest
<1>4. t \in Seq(Nat) /\ Len(t) = n /\ DOMAIN t = 1 .. n
  <2>1. t \in [1 .. n -> Nat]
    <3> HIDE DEF n
    <3>1. file \in [1 .. n -> Nat]
      BY <1>1
    <3> QED
      BY <3>1 DEF Unread
  <2> HIDE DEF n, t
  <2> QED
    BY <1>1, <2>1
<1> HIDE DEF n, t
<1>5. ASSUME NEW i \in 1 .. n PROVE Holds(t[i], taken - Len(t) + i, torn)
  <2>1. CASE i = n
    <3>1. taken - Len(t) + i = taken
      BY <1>1, <1>4, <2>1
    <3> QED
      BY <1>2, <2>1, <3>1 DEF Holds
  <2>2. CASE i # n
    BY <1>2, <1>3, <1>4, <2>2
  <2> QED
    BY <2>1, <2>2
<1> QED
  BY <1>1, <1>4, <1>5 DEF Newest, t, n

\* Half of a record without gaps is one, if it is the newer half.
LEMMA RotateNewest ==
  ASSUME NEW file, NEW taken, NEW torn, Newest(file, taken, torn) PROVE Newest(Rotated(file), taken, torn)
<1>1. CASE Len(file) > RotateAt
  <2> DEFINE n == Len(file)
             half == n \div 2
             t == SubSeq(file, half + 1, n)
  <2>1. file \in Seq(Nat) /\ n \in Nat /\ n > 0
    BY <1>1, RecorderAssumption DEF Newest
  <2>2. half \in Nat /\ half < n
    BY <2>1
  <2>3. Rotated(file) = t
    BY <1>1 DEF Rotated
  <2> HIDE DEF half
  <2>4. t \in Seq(Nat) /\ Len(t) = n - half /\ \A i \in 1 .. (n - half) : t[i] = file[half + i]
    BY <2>1, <2>2
  <2>5. \A i \in 1 .. (n - half) : half + i \in 1 .. n
    BY <2>1, <2>2
  <2>6. taken \in Nat /\ \A i \in 1 .. n : Holds(file[i], taken - n + i, torn)
    BY <2>1 DEF Newest
  <2>7. \A i \in 1 .. (n - half) : Holds(t[i], taken - Len(t) + i, torn)
    <3> SUFFICES ASSUME NEW i \in 1 .. (n - half) PROVE Holds(t[i], taken - Len(t) + i, torn)
      OBVIOUS
    <3>1. Holds(t[i], taken - n + (half + i), torn)
      BY <2>4, <2>5, <2>6
    <3> HIDE DEF t, n
    <3>2. taken - n + (half + i) = taken - Len(t) + i
      BY <2>1, <2>2, <2>4, <2>6
    <3> QED
      BY <3>1, <3>2
  <2>8. DOMAIN t = 1 .. (n - half)
    BY <2>1, <2>2, <2>4
  <2> HIDE DEF t
  <2> QED
    BY <2>3, <2>4, <2>6, <2>7, <2>8 DEF Newest
<1>2. CASE ~(Len(file) > RotateAt)
  BY <1>2 DEF Rotated
<1> QED
  BY <1>1, <1>2

\* A line that is written behind the others, or on behind one that was cut short.
LEMMA WrittenNewest ==
  ASSUME RecordInv, NEW torn, crTorn \subseteq torn, NEW line \in Nat, Holds(line, Begun, torn)
  PROVE  Newest(Written(line), Begun, torn) /\ Written(line) # <<>> /\ Begun \in Nat
<1>1. Newest(crFile, crTaken, torn)
  <2>1. torn = crTorn \cup torn
    OBVIOUS
  <2> QED
    BY <2>1, NewestIsRecord, NewestTorn
<1>2. crFile \in Seq(Nat) /\ crTaken \in Nat
  BY DEF RecordInv
<1>3. CASE crRagged = TRUE
  <2>1. Begun = crTaken /\ Written(line) = [crFile EXCEPT ![Len(crFile)] = Unread]
    BY <1>3 DEF Begun, Written
  <2>2. crFile # <<>> /\ crTaken \in torn
    BY <1>3 DEF RecordInv, RaggedIsTorn
  <2>3. DOMAIN Written(line) = DOMAIN crFile /\ DOMAIN crFile # {}
    BY <1>2, <2>1, <2>2
  <2>4. Newest(Written(line), Begun, torn)
    <3>1. Newest([crFile EXCEPT ![Len(crFile)] = Unread], crTaken, torn)
      BY <1>1, <2>2, GlueNewest
    <3> QED
      BY <2>1, <3>1
  <2>5. Written(line) # <<>>
    BY <2>3
  <2> QED
    BY <1>2, <2>1, <2>4, <2>5
<1>4. CASE crRagged # TRUE
  <2>1. Begun = crTaken + 1 /\ Written(line) = Append(crFile, line)
    BY <1>4 DEF Begun, Written, RecordInv
  <2>2. Newest(Written(line), Begun, torn)
    BY <1>1, <2>1, AppendNewest
  <2>3. Append(crFile, line) # <<>> /\ crTaken + 1 \in Nat
    BY <1>2
  <2> QED
    BY <2>1, <2>2, <2>3
<1> QED
  BY <1>3, <1>4

LEMMA SampleIsWrittenKeeps ==
  ASSUME RecordInv, NEW rotates \in BOOLEAN, SampleIsWritten(rotates) PROVE RecordInv'
<1>1. /\ crTaken' = Begun /\ crRagged' = FALSE /\ crTorn' = crTorn
      /\ crFile' = IF rotates THEN Rotated(Written(Begun)) ELSE Written(Begun)
  BY DEF SampleIsWritten
<1>2. Begun \in Nat
  BY DEF Begun, RecordInv
<1>3. Newest(Written(Begun), Begun, crTorn)
  BY <1>2, WrittenNewest DEF Holds
<1>4. Newest(crFile', crTaken', crTorn')
  BY <1>1, <1>3, RotateNewest
<1>5. (RecordInv <=> Newest(crFile, crTaken, crTorn) /\ crRagged \in BOOLEAN /\ RaggedIsTorn)'
  BY NewestIsRecord, PTL
<1>6. crRagged' \in BOOLEAN /\ RaggedIsTorn'
  BY <1>1 DEF RaggedIsTorn
<1> QED
  BY <1>4, <1>5, <1>6

LEMMA SampleIsCutShortKeeps ==
  ASSUME RecordInv, NEW whole \in BOOLEAN, SampleIsCutShort(whole) PROVE RecordInv'
<1> DEFINE line == IF whole THEN Begun ELSE Unread
<1>1. /\ crTaken' = Begun /\ crRagged' = TRUE /\ crTorn' = crTorn \cup {Begun}
      /\ crFile' = Written(line)
  BY DEF SampleIsCutShort
<1>2. line \in Nat /\ Holds(line, Begun, crTorn')
  BY <1>1 DEF Begun, Unread, RecordInv, Holds
<1> HIDE DEF line
<1>3. Newest(Written(line), Begun, crTorn') /\ Written(line) # <<>>
  BY <1>1, <1>2, WrittenNewest
<1>4. Newest(crFile', crTaken', crTorn')
  BY <1>1, <1>3
<1>5. (RecordInv <=> Newest(crFile, crTaken, crTorn) /\ crRagged \in BOOLEAN /\ RaggedIsTorn)'
  BY NewestIsRecord, PTL
<1>6. crRagged' \in BOOLEAN /\ RaggedIsTorn'
  BY <1>1, <1>3 DEF RaggedIsTorn
<1> QED
  BY <1>4, <1>5, <1>6

LEMMA RecordStands ==
  ASSUME RecordInv, UNCHANGED fileVars PROVE RecordInv'
  BY DEF fileVars, RecordInv, RecordIsNewest, RaggedIsTorn

LEMMA ReadingKeeps == ASSUME RecorderInv, Reading PROVE RecorderInv'
<1>1. crLast' \in Nat /\ UNCHANGED <<crStart, crRun, crSidecar, crEntry>>
  BY DEF Reading, RecorderInv
<1>2. \/ \E yes \in BOOLEAN : SampleIsWritten(yes) \/ SampleIsCutShort(yes)
      \/ UNCHANGED fileVars
  BY DEF Reading
<1>3. RecordInv'
  BY <1>2, SampleIsWrittenKeeps, SampleIsCutShortKeeps, RecordStands DEF RecorderInv
<1> QED
  BY <1>1, <1>3 DEF RecorderInv, RunInv, StartLevelIsOfThisRun, RecordingIsThere

LEMMA RunKeeps ==
  ASSUME RecorderInv,
         \/ HourPasses
         \/ \E kind \in {"operation", "procedure"} : RecorderRunStarted(kind)
         \/ \E done \in 0 .. 2, recorded, fails \in BOOLEAN : RecorderRunFinished(done, recorded, fails)
         \/ \E done \in 0 .. 1, recorded \in BOOLEAN : ApplicationRestarts(done, recorded)
  PROVE  RecorderInv'
<1>1. RecordInv' /\ crLast' = crLast
  <2>1. UNCHANGED <<fileVars, crLast>>
    BY DEF HourPasses, RecorderRunStarted, RecorderRunFinished, ApplicationRestarts
  <2> QED
    BY <2>1, RecordStands DEF RecorderInv
<1>2. CASE HourPasses
  BY <1>1, <1>2 DEF HourPasses, RecorderInv, RunInv, StartLevelIsOfThisRun,
     RecordingIsThere
<1>3. ASSUME NEW kind \in {"operation", "procedure"}, RecorderRunStarted(kind) PROVE RecorderInv'
  BY <1>1, <1>3 DEF RecorderRunStarted, StartCache, NoEntry, RecorderInv,
     RunInv, StartLevelIsOfThisRun, RecordingIsThere
<1>4. ASSUME NEW done \in 0 .. 2, NEW recorded \in BOOLEAN, NEW fails \in BOOLEAN,
             RecorderRunFinished(done, recorded, fails)
      PROVE  RecorderInv'
  <2>1. CASE crRun.kind # "operation"
    BY <1>1, <1>4, <2>1 DEF RecorderRunFinished, Idle, RecorderInv,
       RunInv, StartLevelIsOfThisRun, RecordingIsThere
  <2>2. CASE crRun.kind = "operation"
    <3>1. /\ crRun' = Idle
          /\ crSidecar' = ((done >= 1) /\ recorded /\ ~fails)
          /\ crEntry' = IF done >= 2 THEN Entry(recorded /\ ~fails) ELSE NoEntry
      BY <1>4, <2>2 DEF RecorderRunFinished, Writes
    <3>2. crStart = crRun.level
      BY <2>2 DEF RecorderInv, RunInv
    <3>3. StartLevelIsOfThisRun' /\ RecordingIsThere'
      BY <3>1, <3>2 DEF StartLevelIsOfThisRun, RecordingIsThere, Entry, NoEntry
    <3> QED
      BY <1>1, <3>1, <3>3 DEF RecorderInv, RunInv, Idle
  <2> QED
    BY <2>1, <2>2
<1>5. ASSUME NEW done \in 0 .. 1, NEW recorded \in BOOLEAN, ApplicationRestarts(done, recorded)
      PROVE  RecorderInv'
  <2>1. ~(done >= 2)
    OBVIOUS
  <2>2. StartLevelIsOfThisRun' /\ RecordingIsThere' /\ crRun' = Idle
    <3>1. CASE crRun.kind # "operation"
      BY <1>5, <3>1 DEF ApplicationRestarts, RecorderInv, StartLevelIsOfThisRun, RecordingIsThere
    <3>2. CASE crRun.kind = "operation"
      <4>1. crEntry' = NoEntry /\ crRun' = Idle
        BY <1>5, <2>1, <3>2 DEF ApplicationRestarts, Writes
      <4> QED
        BY <4>1 DEF NoEntry, StartLevelIsOfThisRun, RecordingIsThere
    <3> QED
      BY <3>1, <3>2
  <2> QED
    BY <1>1, <2>2 DEF RecorderInv, RunInv, Idle
<1> QED
  BY <1>2, <1>3, <1>4, <1>5

\* For every rotation bound, however often the record is halved, whatever append fails or
\* is cut short and wherever the application dies: the record is the newest lines begun
\* without a gap, of which only those cut short do not read, an entry starts with the level
\* of its own run, and a recording that an entry names is on disk.
THEOREM RecorderIsConsistentHolds == RecorderSpec => []RecorderIsConsistent
<1>1. RecorderInit => RecorderInv
  <2> SUFFICES ASSUME RecorderInit PROVE RecorderInv
    OBVIOUS
  <2>1. Newest(crFile, crTaken, crTorn) /\ crRagged \in BOOLEAN /\ RaggedIsTorn
    <3>1. crFile = <<>> /\ crTaken = 0 /\ crRagged = FALSE
      BY DEF RecorderInit
    <3>2. Newest(<<>>, 0, crTorn)
      BY DEF Newest
    <3> QED
      BY <3>1, <3>2 DEF RaggedIsTorn
  <2> QED
    BY <2>1, NewestIsRecord DEF RecorderInit, RecorderInv, RunInv, StartLevelIsOfThisRun,
       RecordingIsThere, Idle, NoEntry
<1>2. RecorderInv /\ [RecorderNext]_crVars => RecorderInv'
  <2> SUFFICES ASSUME RecorderInv, [RecorderNext]_crVars PROVE RecorderInv'
    OBVIOUS
  <2>1. CASE UNCHANGED crVars
    BY <2>1, RecordStands DEF crVars, RecorderInv, RunInv, StartLevelIsOfThisRun, RecordingIsThere
  <2> QED
    BY <2>1, ReadingKeeps, RunKeeps DEF RecorderNext
<1>3. RecorderInv => RecorderIsConsistent
  BY DEF RecorderInv, RecordInv, RecorderIsConsistent
<1> QED
  BY <1>1, <1>2, <1>3, PTL DEF RecorderSpec

-----------------------------------------------------------------------------
(* The servicing log: what the lines say of an entry.                       *)

LogLine == [id : Nat, rev : Nat, deleted : BOOLEAN, event : Nat]

\* The revisions of an entry are numbered, and some number is behind them all.
LinesTyped ==
  /\ slLines \in Seq(LogLine)
  /\ \E b \in Nat : \A i \in DOMAIN slLines : slLines[i].rev <= b

LEMMA LineFields ==
  ASSUME NEW lines \in Seq(LogLine)
  PROVE  /\ Len(lines) \in Nat /\ DOMAIN lines = 1 .. Len(lines)
         /\ \A i \in DOMAIN lines : /\ lines[i] \in LogLine /\ lines[i].id \in Nat /\ lines[i].rev \in Nat
                                    /\ lines[i].event \in Nat /\ lines[i].deleted \in BOOLEAN
<1>1. \A i \in DOMAIN lines : lines[i] \in LogLine
  OBVIOUS
<1> QED
  BY <1>1 DEF LogLine

\* The lines that nobody reads.
LEMMA Unreadables ==
  /\ Junk \in LogLine /\ Junk.id = 0 /\ Junk.event = 0 /\ Junk.rev = 0
  /\ Split \in LogLine /\ Split.id = 0 /\ Split.event = 0 /\ Split.rev = 1
  /\ \A a, b : Glued(a, b) \in {Junk, Split}
  BY DEF Junk, Split, Revision, LogLine, Glued

\* The revisions of an entry are the lines with its id: all of them are readable.
LEMMA RevisionsAre ==
  \A id \in Ids : Revisions(id) = {l \in ToSet(slLines) : l.id = id}
<1>1. Junk.id = 0 /\ Split.id = 0
  BY Unreadables
<1>2. \A id \in Ids : id # 0
  BY ServicingAssumption DEF Ids
<1> QED
  BY <1>1, <1>2 DEF Revisions, ReadableLines

LatestOf(revisions) == CHOOSE l \in revisions : \A m \in revisions : l.rev >= m.rev

LEMMA LatestIsOf == \A id : Latest(id) = LatestOf(Revisions(id))
  BY DEF Latest, LatestOf

\* There is a latest revision of every entry that has one.
LEMMA LatestExists ==
  LinesTyped => \A id \in Ids : Revisions(id) # {} =>
    /\ LatestOf(Revisions(id)) \in Revisions(id)
    /\ \A m \in Revisions(id) : m.rev <= LatestOf(Revisions(id)).rev
    /\ \A m \in Revisions(id) : m \in LogLine /\ m.rev \in Nat /\ m.deleted \in BOOLEAN
<1> SUFFICES ASSUME LinesTyped, NEW id \in Ids, Revisions(id) # {}
             PROVE  /\ LatestOf(Revisions(id)) \in Revisions(id)
                    /\ \A m \in Revisions(id) : m.rev <= LatestOf(Revisions(id)).rev
                    /\ \A m \in Revisions(id) : m \in LogLine /\ m.rev \in Nat /\ m.deleted \in BOOLEAN
  OBVIOUS
<1> DEFINE R == Revisions(id)
<1>1. PICK b \in Nat : \A i \in DOMAIN slLines : slLines[i].rev <= b
  BY DEF LinesTyped
<1>2. \A m \in R : m \in LogLine /\ m.rev \in Nat /\ m.deleted \in BOOLEAN /\ m.rev <= b
  BY <1>1, RevisionsAre, LineFields DEF LinesTyped, ToSet
<1> DEFINE T == {b - m.rev : m \in R}
<1>3. T \in SUBSET Nat /\ T # {}
  <2>1. \A m \in R : b - m.rev \in Nat
    BY <1>2
  <2> QED
    BY <2>1
<1>4. PICK least \in T : \A y \in T : least <= y
  <2> HIDE DEF T
  <2> QED
    BY <1>3, NatLeast
<1>5. PICK l \in R : least = b - l.rev
  BY <1>4
<1>6. \A m \in R : l.rev >= m.rev
  <2> SUFFICES ASSUME NEW m \in R PROVE l.rev >= m.rev
    OBVIOUS
  <2>1. least <= b - m.rev
    BY <1>4
  <2> QED
    BY <1>2, <1>5, <2>1
<1> HIDE DEF R
<1>7. LatestOf(R) \in R /\ \A m \in R : LatestOf(R).rev >= m.rev
  BY <1>5, <1>6 DEF LatestOf
<1>8. \A m \in R : m.rev <= LatestOf(R).rev
  BY <1>2, <1>7
<1> QED
  BY <1>2, <1>7, <1>8 DEF R

-----------------------------------------------------------------------------
(* What an append changes.                                                  *)

LastLine == slLines[Len(slLines)]

\* A line without an end is nothing that was asked for without a doubt.
RaggedIsRisked ==
  slRagged = TRUE => slLines # <<>> /\ LastLine.event = 0 /\ LastLine.id \in slRisked \cup {0}

\* The first revisions that carry a legacy event.
Carriers(e) == {l \in ToSet(slLines) : l.event = e /\ l.rev = 1}

\* The lines behind an append: one more, or the last one is not readable.
LEMMA LinesBehindAppend ==
  ASSUME slLines \in Seq(LogLine), slRagged \in BOOLEAN, RaggedIsRisked,
         NEW line \in LogLine, slLines' = Appended(line)
  PROVE  /\ slLines' \in Seq(LogLine) /\ slLines' # <<>>
         /\ IF slRagged = TRUE THEN LastLine' \in {Junk, Split} ELSE LastLine' = line
         /\ slRagged # TRUE => ToSet(slLines') = ToSet(slLines) \cup {line}
         /\ slRagged = TRUE => \A l : l # LastLine /\ l \notin {Junk, Split} => (l \in ToSet(slLines') <=> l \in ToSet(slLines))
<1> DEFINE N == Len(slLines)
<1>1. N \in Nat /\ DOMAIN slLines = 1 .. N /\ slLines \in [1 .. N -> LogLine]
  OBVIOUS
<1> DEFINE glued == Glued(slLines[N], line)
<1>2. glued \in LogLine /\ glued \in {Junk, Split}
  BY Unreadables
<1> HIDE DEF glued
<1>3. CASE slRagged # TRUE
  <2>1. slLines' = Append(slLines, line)
    BY <1>3 DEF Appended
  <2>2. Len(slLines') = N + 1 /\ slLines' \in Seq(LogLine) /\ DOMAIN slLines' = 1 .. (N + 1)
    BY <2>1
  <2>3. slLines'[N + 1] = line /\ \A i \in 1 .. N : slLines'[i] = slLines[i]
    BY <2>1
  <2>4. ToSet(slLines') = ToSet(slLines) \cup {line}
    <3>1. \A i \in 1 .. (N + 1) : i \in 1 .. N \/ i = N + 1
      BY <1>1
    <3>2. \A i \in 1 .. N : i \in 1 .. (N + 1)
      BY <1>1
    <3>3. N + 1 \in 1 .. (N + 1)
      BY <1>1
    <3> HIDE DEF N
    <3> QED
      BY <1>1, <2>2, <2>3, <3>1, <3>2, <3>3 DEF ToSet
  <2>5. slLines' # <<>>
    BY <1>1, <2>2
  <2> QED
    BY <1>3, <2>2, <2>3, <2>4, <2>5 DEF LastLine
<1>4. CASE slRagged = TRUE
  <2>1. slLines' = [slLines EXCEPT ![N] = glued]
    BY <1>4 DEF Appended, glued
  <2>2. N \in 1 .. N
    BY <1>1, <1>4 DEF RaggedIsRisked
  <2>3. Len(slLines') = N /\ slLines' \in Seq(LogLine) /\ DOMAIN slLines' = 1 .. N
    <3> HIDE DEF N
    <3>1. slLines' \in [1 .. N -> LogLine]
      BY <1>1, <1>2, <2>1
    <3> QED
      BY <1>1, <3>1
  <2>4. slLines'[N] = glued /\ \A i \in 1 .. N : i # N => slLines'[i] = slLines[i]
    BY <1>1, <2>1, <2>2
  <2>5. \A l : l # LastLine /\ l \notin {Junk, Split} => (l \in ToSet(slLines') <=> l \in ToSet(slLines))
    <3> HIDE DEF N
    <3>1. LastLine = slLines[N]
      BY DEF LastLine, N
    <3> QED
      BY <1>1, <1>2, <2>3, <2>4, <3>1 DEF ToSet
  <2>6. slLines' # <<>>
    BY <1>1, <2>2, <2>3
  <2> QED
    BY <1>2, <1>4, <2>3, <2>4, <2>5, <2>6 DEF LastLine
<1> QED
  BY <1>3, <1>4

\* What an append leaves alone: the other entries that are not at risk, and the events.
LEMMA AppendKeeps ==
  ASSUME LinesTyped, slRagged \in BOOLEAN, RaggedIsRisked,
         NEW line \in LogLine, line.event = 0, slLines' = Appended(line)
  PROVE  /\ LinesTyped' /\ slLines' # <<>>
         /\ LastLine.event' = 0 /\ LastLine.id' \in {0, line.id}
         /\ \A id \in Ids : id \notin slRisked \cup {line.id} => Revisions(id)' = Revisions(id)
         /\ \A e \in Nat \ {0} : Carriers(e)' = Carriers(e)
<1>1. /\ slLines' \in Seq(LogLine) /\ slLines' # <<>>
      /\ IF slRagged = TRUE THEN LastLine' \in {Junk, Split} ELSE LastLine' = line
      /\ slRagged # TRUE => ToSet(slLines') = ToSet(slLines) \cup {line}
      /\ slRagged = TRUE => \A l : l # LastLine /\ l \notin {Junk, Split} => (l \in ToSet(slLines') <=> l \in ToSet(slLines))
  BY LinesBehindAppend DEF LinesTyped
<1>2. Junk.id = 0 /\ Junk.event = 0 /\ Junk.rev = 0 /\ Split.id = 0 /\ Split.event = 0 /\ Split.rev = 1
  BY Unreadables
<1>3. \A l : l # LastLine /\ l \notin {Junk, Split} /\ l # line => (l \in ToSet(slLines') <=> l \in ToSet(slLines))
  BY <1>1
<1>4. \A id \in Ids : id # 0
  BY ServicingAssumption DEF Ids
<1>5. slRagged = TRUE => LastLine.event = 0 /\ LastLine.id \in slRisked \cup {0}
  BY DEF RaggedIsRisked
<1>0. (\A id \in Ids : Revisions(id) = {l \in ToSet(slLines) : l.id = id})'
  BY RevisionsAre, PTL
<1>6. ASSUME NEW id \in Ids, id \notin slRisked \cup {line.id} PROVE Revisions(id)' = Revisions(id)
  <2>1. Revisions(id)' = {l \in ToSet(slLines') : l.id = id}
    BY <1>0
  <2>2. Revisions(id) = {l \in ToSet(slLines) : l.id = id}
    BY RevisionsAre
  <2>3. \A l : l.id = id => (l \in ToSet(slLines') <=> l \in ToSet(slLines))
    BY <1>1, <1>2, <1>4, <1>5, <1>6
  <2> QED
    BY <2>1, <2>2, <2>3
<1>7. ASSUME NEW e \in Nat \ {0} PROVE Carriers(e)' = Carriers(e)
  <2>1. \A l : l.event = e => (l \in ToSet(slLines') <=> l \in ToSet(slLines))
    BY <1>1, <1>2, <1>5
  <2> QED
    BY <2>1 DEF Carriers
<1>8. LinesTyped'
  <2>1. PICK b \in Nat : \A i \in DOMAIN slLines : slLines[i].rev <= b
    BY DEF LinesTyped
  <2>2. \A l \in ToSet(slLines) : l.rev <= b + line.rev + 1
    <3>1. line.rev \in Nat
      BY DEF LogLine
    <3>2. \A i \in DOMAIN slLines : slLines[i].rev \in Nat
      BY LineFields DEF LinesTyped
    <3>3. \A i \in DOMAIN slLines : slLines[i].rev <= b + line.rev + 1
      BY <2>1, <3>1, <3>2
    <3> QED
      BY <3>3 DEF ToSet
  <2>3. b + line.rev + 1 \in Nat /\ line.rev <= b + line.rev + 1 /\ Junk.rev <= b + line.rev + 1 /\ Split.rev <= b + line.rev + 1
    <3>1. line.rev \in Nat
      BY DEF LogLine
    <3> QED
      BY <1>2, <3>1
  <2>4. \A l \in ToSet(slLines') : l \in ToSet(slLines) \/ l = line \/ l \in {Junk, Split}
    <3>1. slRagged = TRUE => LastLine \in ToSet(slLines)
      <4>1. slRagged = TRUE => Len(slLines) \in DOMAIN slLines
        BY LineFields DEF RaggedIsRisked, LinesTyped
      <4> QED
        BY <4>1 DEF LastLine, ToSet
    <3> QED
      BY <1>1, <3>1
  <2>5. \A l \in ToSet(slLines') : l.rev <= b + line.rev + 1
    BY <2>2, <2>3, <2>4
  <2>6. \A i \in DOMAIN slLines' : slLines'[i].rev <= b + line.rev + 1
    BY <2>5 DEF ToSet
  <2> QED
    BY <1>1, <2>3, <2>6 DEF LinesTyped
<1>9. LastLine.event' = 0 /\ LastLine.id' \in {0, line.id}
  BY <1>1, <1>2
<1> QED
  BY <1>1, <1>6, <1>7, <1>8, <1>9

-----------------------------------------------------------------------------
(* The inductive invariant.                                                 *)

FileTyped ==
  /\ LinesTyped
  /\ slRagged \in BOOLEAN
  /\ slExists \in BOOLEAN
  /\ slWant \in [Ids -> {"absent", "shown", "deleted"}]

\* Before the first append or the migration there is nothing.
EmptyAtFirst ==
  slExists # TRUE =>
    /\ slLines = <<>> /\ slRagged = FALSE /\ slRisked = {}
    /\ \A id \in Ids : slWant[id] = "absent"
    /\ slCryo \in {"live", "none"} /\ slOps \in {"live", "none"}

\* The latest revision is what the last append left.
Says(id, want) ==
  CASE want = "absent" -> Revisions(id) = {}
    [] want = "shown" -> Revisions(id) # {} /\ LatestOf(Revisions(id)).deleted = FALSE
    [] want = "deleted" -> Revisions(id) # {} /\ LatestOf(Revisions(id)).deleted = TRUE

SaysWhatWasWritten == \A id \in Ids \ slRisked : Says(id, slWant[id])

EventsOnce == slExists = TRUE => \A e \in LegacyFills \cup LegacyOps : \E l : Carriers(e) = {l}

LogInv == FileTyped /\ RaggedIsRisked /\ EmptyAtFirst /\ SaysWhatWasWritten /\ EventsOnce

LEMMA LogInitially == ServicingInit => LogInv
<1> SUFFICES ASSUME ServicingInit PROVE LogInv
  OBVIOUS
<1> USE DEF ServicingInit
<1>1. FileTyped
  <2>1. LinesTyped
    BY DEF LinesTyped
  <2> QED
    BY <2>1 DEF FileTyped
<1>2. RaggedIsRisked /\ EmptyAtFirst /\ EventsOnce
  BY DEF RaggedIsRisked, EmptyAtFirst, EventsOnce
<1>3. SaysWhatWasWritten
  <2>1. \A id \in Ids : Revisions(id) = {}
    BY RevisionsAre DEF ToSet
  <2> QED
    BY <2>1 DEF SaysWhatWasWritten, Says
<1> QED
  BY <1>1, <1>2, <1>3 DEF LogInv

-----------------------------------------------------------------------------
(* The appends.                                                             *)

LEMMA EventsKeep ==
  ASSUME EventsOnce, EmptyAtFirst, slExists \in BOOLEAN, Started, slCryo' = slCryo, slOps' = slOps,
         \A e \in Nat \ {0} : Carriers(e)' = Carriers(e)
  PROVE  EventsOnce'
<1>1. LegacyFills' = LegacyFills /\ LegacyOps' = LegacyOps
  BY DEF LegacyFills, LegacyOps
<1>2. LegacyFills \cup LegacyOps \subseteq Nat \ {0}
  BY ServicingAssumption DEF LegacyFills, LegacyOps
<1>3. CASE slExists = TRUE
  BY <1>1, <1>2, <1>3 DEF EventsOnce
<1>4. CASE slExists # TRUE
  <2>1. LegacyFills \cup LegacyOps = {}
    BY <1>4 DEF EmptyAtFirst, Started, LegacyFills, LegacyOps
  <2> QED
    BY <1>1, <2>1 DEF EventsOnce
<1> QED
  BY <1>3, <1>4

\* Behind a line with an end, the revision is one more.
LEMMA RevisionAdds ==
  ASSUME LinesTyped, slRagged \in BOOLEAN, slRagged # TRUE,
         NEW line \in LogLine, line.id \in Ids, slLines' = Appended(line)
  PROVE  Revisions(line.id)' = Revisions(line.id) \cup {line}
<1>1. ToSet(slLines') = ToSet(slLines) \cup {line}
  BY LinesBehindAppend DEF LinesTyped, RaggedIsRisked
<1>2. Revisions(line.id) = {l \in ToSet(slLines) : l.id = line.id}
  BY RevisionsAre
<1>3. (\A id \in Ids : Revisions(id) = {l \in ToSet(slLines) : l.id = id})'
  BY RevisionsAre, PTL
<1>4. Revisions(line.id)' = {l \in ToSet(slLines') : l.id = line.id}
  BY <1>3
<1> QED
  BY <1>1, <1>2, <1>4

LEMMA RevisionsTyped ==
  LinesTyped => \A id \in Ids : \A m \in Revisions(id) : m \in LogLine /\ m.rev \in Nat /\ m.deleted \in BOOLEAN
  BY LatestExists

LEMMA RevisionsTypedNext ==
  (LinesTyped => \A id \in Ids : \A m \in Revisions(id) : m \in LogLine /\ m.rev \in Nat /\ m.deleted \in BOOLEAN)'
  BY RevisionsTyped, PTL

\* An append that returned: the entry reads as it was written, unless it met a line
\* without an end.
LEMMA AppendLineKeeps ==
  ASSUME LogInv, NEW id \in Ids, NEW rev \in Nat, NEW deleted \in BOOLEAN,
         \A m \in Revisions(id) : m.rev < rev,
         AppendLine(Revision(id, rev, deleted), IF deleted = TRUE THEN "deleted" ELSE "shown"), Started
  PROVE  LogInv'
<1> DEFINE line == Revision(id, rev, deleted)
           want == IF deleted = TRUE THEN "deleted" ELSE "shown"
<1>1. id \in Nat
  BY ServicingAssumption DEF Ids
<1>2. /\ line \in LogLine /\ line.id = id /\ line.rev = rev /\ line.event = 0
      /\ line.deleted = deleted
  BY <1>1 DEF Revision, LogLine
<1>3. /\ slLines' = Appended(line) /\ slRagged' = FALSE /\ slExists' = TRUE
      /\ slWant' = [slWant EXCEPT ![id] = want]
      /\ slRisked' = IF slRagged THEN slRisked \cup {id} ELSE slRisked \ {id}
      /\ slCryo' = slCryo /\ slOps' = slOps
  BY <1>2 DEF AppendLine
<1>4. want \in {"absent", "shown", "deleted"}
  OBVIOUS
<1> HIDE DEF line, want
<1>5. /\ LinesTyped' /\ slLines' # <<>>
      /\ \A i \in Ids : i \notin slRisked \cup {id} => Revisions(i)' = Revisions(i)
      /\ \A e \in Nat \ {0} : Carriers(e)' = Carriers(e)
  BY <1>2, <1>3, AppendKeeps DEF LogInv, FileTyped
<1>6. FileTyped'
  <2>1. slRagged' \in BOOLEAN
    BY <1>3
  <2>2. slExists' \in BOOLEAN
    BY <1>3
  <2>3. slWant' \in [Ids -> {"absent", "shown", "deleted"}]
    BY <1>3, <1>4 DEF LogInv, FileTyped
  <2> QED
    BY <1>5, <2>1, <2>2, <2>3 DEF FileTyped
<1>7. RaggedIsRisked' /\ EmptyAtFirst'
  BY <1>3 DEF RaggedIsRisked, EmptyAtFirst
<1>8. EventsOnce'
  BY <1>1, <1>3, <1>5, EventsKeep DEF LogInv, FileTyped
<1>9. SaysWhatWasWritten'
  <2> SUFFICES ASSUME NEW i \in Ids, i \notin slRisked' PROVE Says(i, slWant[i])'
    BY DEF SaysWhatWasWritten
  <2>1. i # id => i \notin slRisked
    BY <1>3
  <2>2. CASE i # id
    <3>1. slWant'[i] = slWant[i]
      BY <1>3, <2>2 DEF LogInv, FileTyped
    <3>2. Revisions(i)' = Revisions(i)
      BY <1>5, <2>1, <2>2
    <3>3. Says(i, slWant[i])
      BY <2>1, <2>2 DEF LogInv, SaysWhatWasWritten
    <3> QED
      BY <3>1, <3>2, <3>3 DEF Says
  <2>3. CASE i = id
    <3>1. slRagged # TRUE
      BY <1>3, <2>3
    <3>2. Revisions(id)' = Revisions(id) \cup {line}
      BY <1>2, <1>3, <3>1, RevisionAdds DEF LogInv, FileTyped
    <3>3. line \in Revisions(id)' /\ \A m \in Revisions(id)' : m = line \/ m.rev < rev
      BY <3>2
    <3>4. LatestOf(Revisions(id)') = line
      <4>1. \A m \in Revisions(id)' : m.rev \in Nat
        BY <1>5, RevisionsTypedNext
      <4> QED
        BY <1>2, <3>3, <4>1 DEF LatestOf
    <3>5. slWant'[id] = want
      BY <1>3 DEF LogInv, FileTyped
    <3> QED
      BY <1>2, <2>3, <3>3, <3>4, <3>5 DEF Says, want
  <2> QED
    BY <2>2, <2>3
<1> QED
  BY <1>6, <1>7, <1>8, <1>9 DEF LogInv

\* The line of a new entry.
LEMMA NewLinesAre ==
  ASSUME LogInv, NEW line \in NewLines
  PROVE  \E id \in Ids : line = Revision(id, 1, FALSE) /\ \A m \in Revisions(id) : m.rev < 1
<1>1. PICK id \in Fresh : line = Revision(id, 1, FALSE)
  BY DEF NewLines
<1>2. id \in Ids /\ Says(id, "absent")
  BY DEF LogInv, SaysWhatWasWritten, Fresh
<1> QED
  BY <1>1, <1>2 DEF Says

LEMMA AddEntryLineKeeps == LogInv /\ AddEntryLine => LogInv'
<1> SUFFICES ASSUME LogInv, AddEntryLine PROVE LogInv'
  OBVIOUS
<1>1. PICK line \in NewLines : Started /\ AppendLine(line, "shown")
  BY DEF AddEntryLine
<1>2. PICK id \in Ids : line = Revision(id, 1, FALSE) /\ \A m \in Revisions(id) : m.rev < 1
  BY NewLinesAre
<1>3. AppendLine(Revision(id, 1, FALSE), IF FALSE = TRUE THEN "deleted" ELSE "shown")
  BY <1>1, <1>2
<1> QED
  BY <1>1, <1>2, <1>3, AppendLineKeeps

\* A revision behind all those of its entry.
LEMMA NextRevision ==
  ASSUME LinesTyped, NEW id \in Ids, Revisions(id) # {}
  PROVE  Latest(id).rev + 1 \in Nat /\ \A m \in Revisions(id) : m.rev < Latest(id).rev + 1
<1> DEFINE latest == Latest(id)
<1>1. /\ latest \in Revisions(id)
      /\ \A m \in Revisions(id) : m.rev <= latest.rev
      /\ \A m \in Revisions(id) : m.rev \in Nat
  BY LatestExists, LatestIsOf
<1> HIDE DEF latest
<1>2. latest.rev + 1 \in Nat /\ \A m \in Revisions(id) : m.rev < latest.rev + 1
  BY <1>1
<1> QED
  BY <1>2 DEF latest

LEMMA RevisionsKeep ==
  ASSUME LogInv, NEW id \in Ids, ReviseEntry(id) \/ DeleteEntry(id)
  PROVE  LogInv'
<1>1. Started /\ Revisions(id) # {}
  BY DEF ReviseEntry, DeleteEntry, Known
<1>2. Latest(id).rev + 1 \in Nat /\ \A m \in Revisions(id) : m.rev < Latest(id).rev + 1
  BY <1>1, NextRevision DEF LogInv, FileTyped
<1>3. CASE ReviseEntry(id)
  <2>1. AppendLine(Revision(id, Latest(id).rev + 1, FALSE), IF FALSE = TRUE THEN "deleted" ELSE "shown")
    BY <1>3 DEF ReviseEntry, NextLine
  <2> QED
    BY <1>1, <1>2, <2>1, AppendLineKeeps
<1>4. CASE DeleteEntry(id)
  <2>1. AppendLine(Revision(id, Latest(id).rev + 1, TRUE), IF TRUE = TRUE THEN "deleted" ELSE "shown")
    BY <1>4 DEF DeleteEntry, NextLine
  <2> QED
    BY <1>1, <1>2, <2>1, AppendLineKeeps
<1> QED
  BY <1>3, <1>4

\* An append that is cut short puts its entry at risk, and nobody else's.
LEMMA AppendCutShortKeeps ==
  ASSUME LogInv, NEW id \in Ids, NEW rev \in Nat, NEW deleted \in BOOLEAN, NEW part \in Parts,
         AppendCutShort(Revision(id, rev, deleted), part)
  PROVE  LogInv'
<1> DEFINE whole == Revision(id, rev, deleted)
           line == CASE part = "whole" -> whole [] part = "some" -> Junk [] part = "split" -> Split
<1>0. whole.id = id
  BY DEF Revision
<1>1. /\ Started
      /\ slLines' = Appended(line)
      /\ slRisked' = slRisked \cup {id}
      /\ slRagged' = TRUE /\ slExists' = TRUE
      /\ slCryo' = slCryo /\ slOps' = slOps /\ slWant' = slWant
  BY <1>0 DEF AppendCutShort
<1>2. line \in {whole, Junk, Split}
  BY DEF Parts
<1>3. line \in LogLine /\ line.event = 0 /\ line.id \in {0, id}
  <2>1. id \in Nat
    BY ServicingAssumption DEF Ids
  <2>2. whole \in LogLine /\ whole.event = 0 /\ whole.id = id
    BY <2>1 DEF Revision, LogLine
  <2> HIDE DEF whole, line
  <2> QED
    BY <1>2, <2>2, Unreadables
<1> HIDE DEF whole, line
<1>4. /\ LinesTyped' /\ slLines' # <<>>
      /\ LastLine.event' = 0 /\ LastLine.id' \in {0, line.id}
      /\ \A i \in Ids : i \notin slRisked \cup {line.id} => Revisions(i)' = Revisions(i)
      /\ \A e \in Nat \ {0} : Carriers(e)' = Carriers(e)
  BY <1>1, <1>3, AppendKeeps DEF LogInv, FileTyped
<1>5. FileTyped'
  BY <1>1, <1>4 DEF LogInv, FileTyped
<1>6. RaggedIsRisked'
  BY <1>1, <1>3, <1>4 DEF RaggedIsRisked
<1>7. EmptyAtFirst'
  BY <1>1 DEF EmptyAtFirst
<1>8. EventsOnce'
  BY <1>1, <1>4, EventsKeep DEF LogInv, FileTyped
<1>9. SaysWhatWasWritten'
  <2> SUFFICES ASSUME NEW i \in Ids, i \notin slRisked' PROVE Says(i, slWant[i])'
    BY DEF SaysWhatWasWritten
  <2>1. i \notin slRisked /\ i # id /\ i # 0
    BY <1>1, ServicingAssumption DEF Ids
  <2>2. Revisions(i)' = Revisions(i)
    BY <1>3, <1>4, <2>1
  <2>3. Says(i, slWant[i])
    BY <2>1 DEF LogInv, SaysWhatWasWritten
  <2> QED
    BY <1>1, <2>2, <2>3 DEF Says
<1> QED
  BY <1>5, <1>6, <1>7, <1>8, <1>9 DEF LogInv

-----------------------------------------------------------------------------
(* The migration.                                                           *)

OnceIn(u, set) ==
  /\ u \in Seq(Nat) /\ DOMAIN u = 1 .. Len(u)
  /\ \A e \in set : \E i \in DOMAIN u : u[i] = e /\ \A j \in DOMAIN u : u[j] = e => j = i

\* Two ascending sequences of disjoint sets, one behind the other, have every element once.
LEMMA OnceInBoth ==
  ASSUME NEW A \in SUBSET Nat, NEW B \in SUBSET Nat, A \cap B = {},
         NEW n \in Nat, NEW m \in Nat, NEW s, NEW t, Ascends(s, A, n), Ascends(t, B, m)
  PROVE  OnceIn(s \o t, A \cup B)
<1> DEFINE u == s \o t
<1>1. s \in [1 .. n -> A] /\ t \in [1 .. m -> B]
  BY DEF Ascends
<1>2. s \in Seq(A) /\ Len(s) = n /\ t \in Seq(B) /\ Len(t) = m
  BY <1>1
<1>3. u \in Seq(Nat) /\ Len(u) = n + m /\ DOMAIN u = 1 .. (n + m)
  <2>1. s \in [1 .. n -> Nat] /\ t \in [1 .. m -> Nat]
    BY <1>1
  <2>2. s \in Seq(Nat) /\ t \in Seq(Nat)
    BY <2>1
  <2> QED
    BY <1>2, <2>2
<1>4. \A i \in 1 .. n : i \in 1 .. (n + m) /\ u[i] = s[i]
  BY <1>2
<1>5. \A i \in 1 .. m : n + i \in 1 .. (n + m) /\ u[n + i] = t[i]
  BY <1>2
<1>6. \A i \in 1 .. (n + m) : i \in 1 .. n \/ (i - n \in 1 .. m /\ n + (i - n) = i)
  OBVIOUS
<1> HIDE DEF u
<1>7. \A i \in 1 .. (n + m) : i \notin 1 .. n => u[i] = t[i - n] /\ i - n \in 1 .. m
  BY <1>5, <1>6
<1>8. \A i \in 1 .. n : u[i] \in A
  BY <1>1, <1>4
<1>9. \A i \in 1 .. (n + m) : i \notin 1 .. n => u[i] \in B
  BY <1>1, <1>7
<1>10. \A i, j \in 1 .. n : s[i] = s[j] => i = j
  <2> SUFFICES ASSUME NEW i \in 1 .. n, NEW j \in 1 .. n, s[i] = s[j], i # j PROVE FALSE
    OBVIOUS
  <2>1. s[i] \in Nat /\ s[j] \in Nat /\ (i < j => s[i] < s[j]) /\ (j < i => s[j] < s[i])
    BY <1>1 DEF Ascends
  <2>2. i < j \/ j < i
    OBVIOUS
  <2> QED
    BY <2>1, <2>2
<1>11. \A i, j \in 1 .. m : t[i] = t[j] => i = j
  <2> SUFFICES ASSUME NEW i \in 1 .. m, NEW j \in 1 .. m, t[i] = t[j], i # j PROVE FALSE
    OBVIOUS
  <2>1. t[i] \in Nat /\ t[j] \in Nat /\ (i < j => t[i] < t[j]) /\ (j < i => t[j] < t[i])
    BY <1>1 DEF Ascends
  <2>2. i < j \/ j < i
    OBVIOUS
  <2> QED
    BY <2>1, <2>2
<1>12. ASSUME NEW e \in A \cup B
       PROVE \E i \in 1 .. (n + m) : u[i] = e /\ \A j \in 1 .. (n + m) : u[j] = e => j = i
  <2>1. CASE e \in A
    <3>1. PICK i \in 1 .. n : s[i] = e
      BY <2>1 DEF Ascends
    <3>2. ASSUME NEW j \in 1 .. (n + m), u[j] = e PROVE j = i
      <4>1. j \in 1 .. n
        BY <1>9, <2>1, <3>2
      <4> QED
        BY <1>4, <1>10, <3>1, <3>2, <4>1
    <3> QED
      BY <1>4, <3>1, <3>2
  <2>2. CASE e \in B
    <3>1. PICK i \in 1 .. m : t[i] = e
      BY <2>2 DEF Ascends
    <3>2. ASSUME NEW j \in 1 .. (n + m), u[j] = e PROVE j = n + i
      <4>1. j \notin 1 .. n
        BY <1>8, <2>2, <3>2
      <4>2. j - n = i
        BY <1>7, <1>11, <3>1, <3>2, <4>1
      <4> QED
        BY <4>2
    <3> QED
      BY <1>5, <3>1, <3>2
  <2> QED
    BY <2>1, <2>2
<1>13. OnceIn(u, A \cup B)
  BY <1>3, <1>12 DEF OnceIn
<1> QED
  BY <1>13 DEF u

\* The migrated log: a first revision of as many entries, which carry every event once.
LEMMA MigratedCarries ==
  /\ Migrated \in Seq(LogLine)
  /\ \A i \in DOMAIN Migrated : /\ Migrated[i].id = i /\ Migrated[i].rev = 1
                                 /\ Migrated[i].deleted = FALSE
  /\ \A e \in LegacyFills \cup LegacyOps :
       \E i \in DOMAIN Migrated :
          Migrated[i].event = e /\ \A j \in DOMAIN Migrated : Migrated[j].event = e => j = i
<1> DEFINE F == LegacyFills
           O == LegacyOps \ Matched
           events == InOrder(F) \o InOrder(O)
<1>1. F \in SUBSET Nat /\ IsFiniteSet(F) /\ LegacyOps \in SUBSET Nat /\ IsFiniteSet(LegacyOps)
  BY ServicingAssumption, FS_EmptySet DEF LegacyFills, LegacyOps
<1>2. O \in SUBSET Nat /\ IsFiniteSet(O) /\ F \cap O = {} /\ F \cup O = LegacyFills \cup LegacyOps
  <2>1. IsFiniteSet(O)
    BY <1>1, FS_Subset
  <2> QED
    BY <1>1, <2>1 DEF Matched
<1>3. Migrated = [i \in DOMAIN events |-> [Revision(i, 1, FALSE) EXCEPT !.event = events[i]]]
  BY DEF Migrated
<1> HIDE DEF F, O
<1>4. /\ Ascends(InOrder(F), F, Cardinality(F)) /\ Cardinality(F) \in Nat
      /\ Ascends(InOrder(O), O, Cardinality(O)) /\ Cardinality(O) \in Nat
  BY <1>1, <1>2, InOrderAscends
<1>5. /\ events \in Seq(Nat) /\ DOMAIN events = 1 .. Len(events)
      /\ \A e \in F \cup O : \E i \in DOMAIN events :
           events[i] = e /\ \A j \in DOMAIN events : events[j] = e => j = i
  <2>1. F \in SUBSET Nat /\ O \in SUBSET Nat /\ F \cap O = {}
    BY <1>1, <1>2
  <2> DEFINE n == Cardinality(F)
             m == Cardinality(O)
             s == InOrder(F)
             t == InOrder(O)
  <2>2. n \in Nat /\ m \in Nat /\ Ascends(s, F, n) /\ Ascends(t, O, m)
    BY <1>4
  <2>3. events = s \o t
    OBVIOUS
  <2> HIDE DEF n, m, s, t, events
  <2>4. OnceIn(s \o t, F \cup O)
    BY <2>1, <2>2, OnceInBoth
  <2> QED
    BY <2>3, <2>4 DEF OnceIn
<1> HIDE DEF events
<1>6. Len(events) \in Nat /\ DOMAIN Migrated = 1 .. Len(events)
  BY <1>3, <1>5
<1>7. \A i \in DOMAIN Migrated : /\ Migrated[i] \in LogLine
                                 /\ Migrated[i].id = i /\ Migrated[i].rev = 1
                                 /\ Migrated[i].deleted = FALSE /\ Migrated[i].event = events[i]
  <2> SUFFICES ASSUME NEW i \in DOMAIN Migrated
               PROVE  /\ Migrated[i] \in LogLine
                      /\ Migrated[i].id = i /\ Migrated[i].rev = 1
                      /\ Migrated[i].deleted = FALSE /\ Migrated[i].event = events[i]
    OBVIOUS
  <2>1. i \in Nat /\ events[i] \in Nat
    BY <1>5, <1>6
  <2>2. Migrated[i] = [Revision(i, 1, FALSE) EXCEPT !.event = events[i]]
    BY <1>3, <1>5, <1>6
  <2>3. Migrated[i] = [id |-> i, rev |-> 1, deleted |-> FALSE, event |-> events[i]]
    BY <2>2 DEF Revision
  <2> QED
    BY <2>1, <2>3 DEF LogLine
<1>8. Migrated \in Seq(LogLine)
  <2>1. Migrated \in [1 .. Len(events) -> LogLine]
    BY <1>3, <1>5, <1>6, <1>7
  <2> QED
    BY <1>6, <2>1
<1>9. DOMAIN Migrated = DOMAIN events
  BY <1>5, <1>6
<1>10. F \cup O = LegacyFills \cup LegacyOps
  BY <1>2
<1>11. ASSUME NEW e \in LegacyFills \cup LegacyOps
       PROVE \E i \in DOMAIN Migrated :
               Migrated[i].event = e /\ \A j \in DOMAIN Migrated : Migrated[j].event = e => j = i
  <2>1. PICK i \in DOMAIN events : events[i] = e /\ \A j \in DOMAIN events : events[j] = e => j = i
    BY <1>5, <1>10
  <2> QED
    BY <1>7, <1>9, <2>1
<1> QED
  BY <1>7, <1>8, <1>11

LEMMA MigrationCommitsKeeps == LogInv /\ MigrationCommits => LogInv'
<1> SUFFICES ASSUME LogInv, MigrationCommits PROVE LogInv'
  OBVIOUS
<1>1. /\ slExists # TRUE /\ slLines' = Migrated /\ slExists' = TRUE
      /\ slWant' = [id \in Ids |-> IF id \in DOMAIN Migrated THEN "shown" ELSE slWant[id]]
      /\ slRagged' = slRagged /\ slCryo' = slCryo /\ slOps' = slOps /\ slRisked' = slRisked
  BY DEF MigrationCommits, NotMigrated
<1>2. slRagged = FALSE /\ \A id \in Ids : slWant[id] = "absent"
  BY <1>1 DEF LogInv, EmptyAtFirst
<1>3. slLines' \in Seq(LogLine) /\ DOMAIN slLines' = DOMAIN Migrated
  BY <1>1, MigratedCarries
<1>4. \A i \in DOMAIN slLines' : /\ slLines'[i].id = i /\ slLines'[i].rev = 1
                                 /\ slLines'[i].deleted = FALSE
  BY <1>1, MigratedCarries
<1>5. FileTyped'
  <2>1. LinesTyped'
    <3>1. 1 \in Nat /\ \A i \in DOMAIN slLines' : slLines'[i].rev <= 1
      BY <1>4
    <3> QED
      BY <1>3, <3>1 DEF LinesTyped
  <2>2. slWant' \in [Ids -> {"absent", "shown", "deleted"}]
    BY <1>1, <1>2
  <2>3. slRagged' \in BOOLEAN /\ slExists' \in BOOLEAN
    BY <1>1, <1>2
  <2> QED
    BY <2>1, <2>2, <2>3 DEF FileTyped
<1>6. RaggedIsRisked' /\ EmptyAtFirst'
  BY <1>1, <1>2 DEF RaggedIsRisked, EmptyAtFirst
<1>7. EventsOnce'
  <2>1. LegacyFills' = LegacyFills /\ LegacyOps' = LegacyOps
    BY <1>1 DEF LegacyFills, LegacyOps
  <2>2. ASSUME NEW e \in LegacyFills \cup LegacyOps PROVE \E l : Carriers(e)' = {l}
    <3>1. PICK i \in DOMAIN slLines' :
             slLines'[i].event = e /\ \A j \in DOMAIN slLines' : slLines'[j].event = e => j = i
      BY <1>1, MigratedCarries
    <3>2. Carriers(e)' = {slLines'[i]}
      BY <1>4, <3>1 DEF Carriers, ToSet
    <3> QED
      BY <3>2
  <2> QED
    BY <2>1, <2>2 DEF EventsOnce
<1>8. SaysWhatWasWritten'
  <2>1. (\A id \in Ids : Revisions(id) = {l \in ToSet(slLines) : l.id = id})'
    BY RevisionsAre, PTL
  <2> SUFFICES ASSUME NEW id \in Ids PROVE Says(id, slWant[id])'
    BY DEF SaysWhatWasWritten
  <2>2. Revisions(id)' = {l \in ToSet(slLines') : l.id = id}
    BY <2>1
  <2>3. CASE id \in DOMAIN Migrated
    <3>1. Revisions(id)' = {slLines'[id]}
      BY <1>3, <1>4, <2>2, <2>3 DEF ToSet
    <3>2. slLines'[id].deleted = FALSE
      BY <1>3, <1>4, <2>3
    <3>3. slWant'[id] = "shown"
      BY <1>1, <2>3
    <3>4. LatestOf({slLines'[id]}) = slLines'[id]
      <4>1. 1 >= 1 /\ slLines'[id].rev = 1
        BY <1>3, <1>4, <2>3
      <4> QED
        BY <4>1 DEF LatestOf
    <3> QED
      BY <3>1, <3>2, <3>3, <3>4 DEF Says
  <2>4. CASE id \notin DOMAIN Migrated
    <3>1. Revisions(id)' = {}
      BY <1>3, <1>4, <2>2, <2>4 DEF ToSet
    <3>2. slWant'[id] = "absent"
      BY <1>1, <1>2, <2>4
    <3> QED
      BY <3>1, <3>2 DEF Says
  <2> QED
    BY <2>3, <2>4
<1> QED
  BY <1>5, <1>6, <1>7, <1>8 DEF LogInv

\* A migration that is cut short leaves nothing behind; a rename keeps the events apart
\* from a file that is not there.
LEMMA MigrationRestKeeps ==
  ASSUME LogInv, MigrationCutShort \/ LegacyRenamed \/ UNCHANGED slVars
  PROVE  LogInv'
<1>1. /\ slLines' = slLines /\ slRagged' = slRagged /\ slExists' = slExists
      /\ slWant' = slWant /\ slRisked' = slRisked
  BY DEF MigrationCutShort, MigrationWrites, LegacyRenamed, slVars
<1>2. FileTyped'
  BY <1>1 DEF LogInv, FileTyped, LinesTyped
<1>3. RaggedIsRisked'
  BY <1>1 DEF LogInv, RaggedIsRisked, LastLine
<1>4. \A id \in Ids : Revisions(id)' = Revisions(id)
  BY <1>1 DEF Revisions
<1>5. SaysWhatWasWritten'
  BY <1>1, <1>4 DEF LogInv, SaysWhatWasWritten, Says
<1>6. \A e : Carriers(e)' = Carriers(e)
  BY <1>1 DEF Carriers
<1>7. EmptyAtFirst'
  <2>1. slExists # TRUE => slCryo' = slCryo /\ slOps' = slOps
    BY DEF LogInv, FileTyped, MigrationCutShort, LegacyRenamed, slVars
  <2> QED
    BY <1>1, <2>1 DEF LogInv, EmptyAtFirst
<1>8. EventsOnce'
  <2>1. LegacyFills' = LegacyFills /\ LegacyOps' = LegacyOps
    BY DEF LegacyFills, LegacyOps, MigrationCutShort, LegacyRenamed, slVars
  <2> QED
    BY <1>1, <1>6, <2>1 DEF LogInv, EventsOnce
<1> QED
  BY <1>2, <1>3, <1>5, <1>7, <1>8 DEF LogInv

LEMMA CutShortKeeps ==
  ASSUME LogInv, NEW part \in Parts,
         \/ \E line \in NewLines : AppendCutShort(line, part)
         \/ \E id \in Ids, deleted \in BOOLEAN : Known(id) /\ AppendCutShort(NextLine(id, deleted), part)
  PROVE  LogInv'
<1>1. ASSUME NEW line \in NewLines, AppendCutShort(line, part) PROVE LogInv'
  <2>1. PICK id \in Ids : line = Revision(id, 1, FALSE)
    BY NewLinesAre
  <2>2. AppendCutShort(Revision(id, 1, FALSE), part)
    BY <1>1, <2>1
  <2> QED
    BY <2>2, AppendCutShortKeeps
<1>2. ASSUME NEW id \in Ids, NEW deleted \in BOOLEAN, Known(id), AppendCutShort(NextLine(id, deleted), part)
      PROVE  LogInv'
  <2>1. Latest(id).rev + 1 \in Nat
    BY <1>2, NextRevision DEF LogInv, FileTyped, Known
  <2>2. AppendCutShort(Revision(id, Latest(id).rev + 1, deleted), part)
    BY <1>2 DEF NextLine
  <2> QED
    BY <2>1, <2>2, AppendCutShortKeeps
<1> QED
  BY <1>1, <1>2

LEMMA LogStepStands == LogInv /\ [ServicingNext]_slVars => LogInv'
<1> SUFFICES ASSUME LogInv, [ServicingNext]_slVars PROVE LogInv'
  OBVIOUS
<1>1. CASE AddEntryLine
  BY <1>1, AddEntryLineKeeps
<1>2. CASE MigrationCutShort \/ LegacyRenamed \/ UNCHANGED slVars
  BY <1>2, MigrationRestKeeps
<1>3. CASE MigrationCommits
  BY <1>3, MigrationCommitsKeeps
<1>4. CASE \E id \in Ids : ReviseEntry(id) \/ DeleteEntry(id)
  BY <1>4, RevisionsKeep
<1>5. CASE \E part \in Parts :
             \/ \E line \in NewLines : AppendCutShort(line, part)
             \/ \E id \in Ids, deleted \in BOOLEAN : Known(id) /\ AppendCutShort(NextLine(id, deleted), part)
  BY <1>5, CutShortKeeps
<1> QED
  BY <1>1, <1>2, <1>3, <1>4, <1>5 DEF ServicingNext

LEMMA LogInvKeepsEntries == LogInv => LogKeepsEntries
<1> SUFFICES ASSUME LogInv PROVE LogKeepsEntries
  OBVIOUS
<1>1. ASSUME NEW id \in Ids, id \notin slRisked PROVE (id \in Visible) <=> (slWant[id] = "shown")
  <2>1. slWant[id] \in {"absent", "shown", "deleted"} /\ Says(id, slWant[id])
    BY <1>1 DEF LogInv, FileTyped, SaysWhatWasWritten
  <2>2. id \in Visible <=> Revisions(id) # {} /\ ~LatestOf(Revisions(id)).deleted
    BY LatestIsOf DEF Visible
  <2>3. CASE slWant[id] = "absent"
    BY <2>1, <2>2, <2>3 DEF Says
  <2>4. CASE slWant[id] = "shown"
    BY <2>1, <2>2, <2>4 DEF Says
  <2>5. CASE slWant[id] = "deleted"
    BY <2>1, <2>2, <2>5 DEF Says
  <2> QED
    BY <2>1, <2>3, <2>4, <2>5
<1>2. ShowsWhatWasWritten
  BY <1>1 DEF ShowsWhatWasWritten
<1>3. MigratedOnce
  <2> SUFFICES ASSUME slExists, NEW e \in LegacyFills \cup LegacyOps
               PROVE  Cardinality({l \in ToSet(slLines) : l.event = e /\ l.rev = 1}) = 1
    BY DEF MigratedOnce
  <2>1. PICK l : Carriers(e) = {l}
    BY DEF LogInv, EventsOnce, FileTyped
  <2>2. Cardinality(Carriers(e)) = 1
    BY <2>1, FS_Singleton
  <2> QED
    BY <2>2 DEF Carriers
<1> QED
  BY <1>2, <1>3 DEF LogKeepsEntries

\* For any number of lines: as long as no line was cut inside a character, the servicing
\* log shows of every entry what its last append left of it, unless that append was cut
\* short or wrote on behind one that was, and however often the migration is cut short,
\* every legacy event is there exactly once when the first of the old logs is put away.
THEOREM LogKeepsEntriesHolds == ServicingSpec => []LogKeepsEntries
<1>1. ServicingInit => LogInv
  BY LogInitially
<1>2. LogInv /\ [ServicingNext]_slVars => LogInv'
  BY LogStepStands
<1>3. LogInv => LogKeepsEntries
  BY LogInvKeepsEntries
<1> QED
  BY <1>1, <1>2, <1>3, PTL DEF ServicingSpec

-----------------------------------------------------------------------------
(* What is picked out of a sequence.                                        *)

\* The numbers of an interval, in order.
LEMMA IntervalInOrder ==
  ASSUME NEW a \in Nat, NEW b \in Nat, a <= b + 1
  PROVE  /\ Cardinality(a .. b) = b - a + 1
         /\ InOrder(a .. b) = [k \in 1 .. (b - a + 1) |-> a + k - 1]
<1> DEFINE n == b - a + 1
           s == [k \in 1 .. n |-> a + k - 1]
<1>1. n \in Nat /\ Cardinality(a .. b) = n /\ a .. b \in SUBSET Nat
  BY FS_Interval
<1>2. Ascends(s, a .. b, n)
  <2>1. s \in [1 .. n -> a .. b] /\ \A i, j \in 1 .. n : i < j => s[i] < s[j]
    OBVIOUS
  <2>2. ASSUME NEW e \in a .. b PROVE \E i \in 1 .. n : s[i] = e
    <3>1. e - a + 1 \in 1 .. n /\ s[e - a + 1] = e
      OBVIOUS
    <3> QED
      BY <3>1
  <2> HIDE DEF s, n
  <2> QED
    BY <2>1, <2>2 DEF Ascends
<1>3. InOrder(a .. b) = s
  <2> HIDE DEF s, n
  <2> QED
    BY <1>1, <1>2, InOrderIs
<1> QED
  BY <1>1, <1>3

\* What is picked comes in the order in which the sequence has it.
LEMMA PickedInOrder ==
  ASSUME NEW T, NEW s \in Seq(T), NEW places \in SUBSET (1 .. Len(s))
  PROVE  /\ Picked(s, places) \in Seq(T)
         /\ Len(Picked(s, places)) = Cardinality(places)
         /\ Ascends(InOrder(places), places, Cardinality(places))
         /\ Cardinality(places) \in Nat
         /\ \A k \in 1 .. Cardinality(places) : Picked(s, places)[k] = s[InOrder(places)[k]]
<1> DEFINE n == Cardinality(places)
           at == InOrder(places)
<1>1. IsFiniteSet(places) /\ places \in SUBSET Nat
  <2>1. IsFiniteSet(1 .. Len(s))
    BY FS_Interval
  <2>2. IsFiniteSet(places)
    BY <2>1, FS_Subset
  <2>3. places \in SUBSET Nat
    OBVIOUS
  <2> QED
    BY <2>2, <2>3
<1>2. Ascends(at, places, n) /\ n \in Nat
  BY <1>1, InOrderAscends
<1>3. at \in [1 .. n -> places] /\ DOMAIN at = 1 .. n
  <2> HIDE DEF at, n
  <2> QED
    BY <1>2 DEF Ascends
<1>4. Picked(s, places) = [k \in 1 .. n |-> s[at[k]]]
  BY <1>3 DEF Picked
<1> HIDE DEF at, n
<1>5. \A k \in 1 .. n : s[at[k]] \in T
  <2>1. \A k \in 1 .. n : at[k] \in 1 .. Len(s)
    BY <1>3
  <2> QED
    BY <2>1
<1>6. Picked(s, places) \in Seq(T) /\ Len(Picked(s, places)) = n
  BY <1>2, <1>4, <1>5
<1> QED
  BY <1>2, <1>4, <1>6 DEF at, n

\* Everything behind a place.
LEMMA PickedBehind ==
  ASSUME NEW T, NEW s \in Seq(T), NEW n \in 0 .. Len(s)
  PROVE  Picked(s, (n + 1) .. Len(s)) = SubSeq(s, n + 1, Len(s))
<1> DEFINE places == (n + 1) .. Len(s)
           m == Len(s) - n
<1>1. /\ Cardinality(places) = m
      /\ InOrder(places) = [k \in 1 .. m |-> n + k]
  <2>1. n + 1 \in Nat /\ Len(s) \in Nat /\ n + 1 <= Len(s) + 1
    OBVIOUS
  <2>2. /\ Cardinality(places) = Len(s) - (n + 1) + 1
        /\ InOrder(places) = [k \in 1 .. (Len(s) - (n + 1) + 1) |-> n + 1 + k - 1]
    BY <2>1, IntervalInOrder
  <2>3. Len(s) - (n + 1) + 1 = m /\ \A k \in 1 .. m : n + 1 + k - 1 = n + k
    OBVIOUS
  <2> HIDE DEF places, m
  <2> QED
    BY <2>2, <2>3
<1>2. Picked(s, places) = [k \in 1 .. m |-> s[n + k]]
  <2> HIDE DEF places, m
  <2> QED
    BY <1>1 DEF Picked
<1>3. SubSeq(s, n + 1, Len(s)) = [k \in 1 .. m |-> s[n + k]]
  OBVIOUS
<1> QED
  BY <1>2, <1>3

-----------------------------------------------------------------------------
(* Sums and summaries.                                                      *)

Totals(f, values) ==
  /\ f \in [0 .. Len(values) -> Int]
  /\ f[0] = 0
  /\ \A k \in 1 .. Len(values) : f[k] = f[k - 1] + values[k]

LEMMA TotalIs ==
  ASSUME NEW values \in Seq(Int), NEW f, Totals(f, values)
  PROVE  Total(values) = f[Len(values)] /\ f[Len(values)] \in Int
<1> DEFINE N == Len(values)
           Behind(g) == g = [n \in 0 .. N |-> IF n = 0 THEN 0 ELSE g[n - 1] + values[n]]
           F == CHOOSE g : Behind(g)
<1>1. N \in Nat /\ Total(values) = F[N]
  BY DEF Total
<1>2. f \in [0 .. N -> Int] /\ f[0] = 0 /\ \A k \in 1 .. N : f[k] = f[k - 1] + values[k]
  BY DEF Totals
<1> HIDE DEF N, F
<1>3. \A k \in 0 .. N : k = 0 \/ k \in 1 .. N
  BY <1>1
<1>4. Behind(f)
  <2>1. f = [n \in 0 .. N |-> f[n]]
    BY <1>2
  <2>2. \A n \in 0 .. N : f[n] = IF n = 0 THEN 0 ELSE f[n - 1] + values[n]
    BY <1>2, <1>3
  <2> QED
    BY <2>1, <2>2
<1>5. Behind(F)
  <2> HIDE DEF Behind
  <2> QED
    BY <1>4 DEF F
<1>6. \A n \in 0 .. N : F[n] = IF n = 0 THEN 0 ELSE F[n - 1] + values[n]
  BY <1>5
<1> DEFINE P == {k \in Nat : k <= N => F[k] = f[k]}
<1>7. 0 \in P
  BY <1>1, <1>2, <1>6
<1>8. ASSUME NEW k \in P PROVE k + 1 \in P
  <2> SUFFICES ASSUME k + 1 <= N PROVE F[k + 1] = f[k + 1]
    BY <1>8
  <2>1. k \in Nat /\ F[k] = f[k]
    BY <1>1, <1>8
  <2>2. k + 1 \in 1 .. N /\ k + 1 \in 0 .. N /\ k + 1 # 0 /\ (k + 1) - 1 = k
    BY <1>1, <2>1
  <2> HIDE DEF P
  <2> QED
    BY <1>2, <1>6, <2>1, <2>2
<1>9. P = Nat
  <2> HIDE DEF P
  <2>1. P \in SUBSET Nat
    BY DEF P
  <2> QED
    BY <1>7, <1>8, <2>1, NatInd
<1>10. F[N] = f[N] /\ f[N] \in Int
  BY <1>1, <1>2, <1>9
<1> QED
  BY <1>1, <1>10 DEF N

LEMMA TotalExists ==
  ASSUME NEW values \in Seq(Int)
  PROVE  \E f : Totals(f, values)
<1> DEFINE N == Len(values)
           step == [p \in Int \X (1 .. N) |-> p[1] + values[p[2]]]
<1>1. N \in Nat /\ 0 \in Int /\ \A k \in 1 .. N : values[k] \in Int
  OBVIOUS
<1> HIDE DEF N
<1>2. step \in [Int \X (1 .. N) -> Int]
  BY <1>1
<1>3. PICK g \in [0 .. N -> Int] : Iterates(g, 0, N, step)
  <2> HIDE DEF step
  <2> QED
    BY <1>1, <1>2, IterationExists
<1>4. ASSUME NEW k \in 1 .. N PROVE g[k] = g[k - 1] + values[k]
  <2>1. k - 1 \in 0 .. N
    BY <1>1
  <2>2. g[k - 1] \in Int
    BY <2>1
  <2>3. step[<<g[k - 1], k>>] = g[k - 1] + values[k]
    BY <1>4, <2>2
  <2> HIDE DEF step
  <2> QED
    BY <1>3, <1>4, <2>3 DEF Iterates
<1>5. g[0] = 0
  BY <1>3 DEF Iterates
<1>6. Totals(g, values)
  BY <1>4, <1>5 DEF Totals, N
<1> QED
  BY <1>6

\* The sum of two parts.
LEMMA TotalOfParts ==
  ASSUME NEW a \in Seq(Int), NEW b \in Seq(Int)
  PROVE  /\ Total(a) \in Int /\ Total(b) \in Int
         /\ Total(a \o b) = Total(a) + Total(b)
<1> DEFINE n == Len(a)
           m == Len(b)
           c == a \o b
<1>1. PICK f : Totals(f, a)
  BY TotalExists
<1>2. PICK h : Totals(h, b)
  BY TotalExists
<1>3. f \in [0 .. n -> Int] /\ f[0] = 0 /\ \A k \in 1 .. n : f[k] = f[k - 1] + a[k]
  BY <1>1 DEF Totals
<1>4. h \in [0 .. m -> Int] /\ h[0] = 0 /\ \A k \in 1 .. m : h[k] = h[k - 1] + b[k]
  BY <1>2 DEF Totals
<1>5. Total(a) = f[n] /\ f[n] \in Int
  BY <1>1, TotalIs
<1>6. Total(b) = h[m] /\ h[m] \in Int
  BY <1>2, TotalIs
<1>7. /\ n \in Nat /\ m \in Nat /\ c \in Seq(Int) /\ Len(c) = n + m
      /\ \A k \in 1 .. n : c[k] = a[k]
      /\ \A k \in (n + 1) .. (n + m) : c[k] = b[k - n]
  BY ConcatProperties
<1>8. \A k \in 1 .. m : b[k] \in Int
  OBVIOUS
<1> HIDE DEF n, m, c
<1> DEFINE g == [k \in 0 .. (n + m) |-> IF k <= n THEN f[k] ELSE f[n] + h[k - n]]
<1>9. \A k \in 0 .. (n + m) : k <= n => k \in 0 .. n /\ g[k] = f[k]
  BY <1>7
<1>10. \A k \in 0 .. (n + m) : k > n => k - n \in 1 .. m /\ k - n \in 0 .. m /\ g[k] = f[n] + h[k - n]
  BY <1>7
<1>11. g \in [0 .. (n + m) -> Int]
  <2>1. \A k \in 0 .. (n + m) : k <= n => f[k] \in Int
    BY <1>3, <1>9
  <2>2. \A k \in 0 .. (n + m) : ~(k <= n) => f[n] + h[k - n] \in Int
    <3>1. \A k \in 0 .. (n + m) : ~(k <= n) => h[k - n] \in Int
      BY <1>4, <1>7, <1>10
    <3> QED
      BY <1>5, <3>1
  <2> QED
    BY <2>1, <2>2
<1> HIDE DEF g
<1>12. ASSUME NEW k \in 1 .. (n + m) PROVE g[k] = g[k - 1] + c[k]
  <2>1. CASE k <= n
    <3>1. k \in 1 .. n /\ k \in 0 .. (n + m) /\ k - 1 \in 0 .. (n + m) /\ k - 1 <= n
      BY <1>7, <2>1
    <3> QED
      BY <1>3, <1>7, <1>9, <2>1, <3>1
  <2>2. CASE k = n + 1
    <3>1. /\ k \in 0 .. (n + m) /\ k > n /\ k - 1 = n /\ n \in 0 .. (n + m) /\ n <= n
          /\ k - n = 1 /\ 1 \in 1 .. m /\ k \in (n + 1) .. (n + m) /\ 1 - 1 = 0
      BY <1>7, <2>2
    <3>2. g[k] = f[n] + h[1] /\ g[k - 1] = f[n] /\ c[k] = b[1]
      BY <1>7, <1>9, <1>10, <3>1
    <3>3. h[1] = h[0] + b[1] /\ h[0] = 0 /\ b[1] \in Int
      BY <1>4, <1>8, <3>1
    <3> QED
      BY <1>5, <3>2, <3>3
  <2>3. CASE k > n + 1
    <3>1. /\ k \in 0 .. (n + m) /\ k - 1 \in 0 .. (n + m) /\ k > n /\ k - 1 > n
          /\ k - n \in 1 .. m /\ k \in (n + 1) .. (n + m) /\ (k - 1) - n = (k - n) - 1
          /\ (k - n) - 1 \in 0 .. m
      BY <1>7, <2>3
    <3>2. g[k] = f[n] + h[k - n] /\ g[k - 1] = f[n] + h[(k - n) - 1] /\ c[k] = b[k - n]
      BY <1>7, <1>10, <3>1
    <3>3. h[k - n] = h[(k - n) - 1] + b[k - n] /\ b[k - n] \in Int /\ h[(k - n) - 1] \in Int
      BY <1>4, <1>8, <3>1
    <3> QED
      BY <1>5, <3>2, <3>3
  <2> QED
    BY <1>7, <2>1, <2>2, <2>3
<1>13. Totals(g, c)
  <2>1. 0 \in 0 .. (n + m) /\ 0 <= n
    BY <1>7
  <2>2. g[0] = 0
    BY <1>3, <1>9, <2>1
  <2> QED
    BY <1>7, <1>11, <1>12, <2>2 DEF Totals
<1>14. Total(c) = g[n + m]
  BY <1>7, <1>13, TotalIs
<1>15. g[n + m] = f[n] + h[m]
  <2>1. CASE m = 0
    <3>1. n + m \in 0 .. (n + m) /\ n + m <= n /\ n + m = n
      BY <1>7, <2>1
    <3> QED
      BY <1>4, <1>5, <1>9, <2>1, <3>1
  <2>2. CASE m # 0
    <3>1. n + m \in 0 .. (n + m) /\ n + m > n /\ (n + m) - n = m
      BY <1>7, <2>2
    <3> QED
      BY <1>10, <3>1
  <2> QED
    BY <2>1, <2>2
<1> QED
  BY <1>5, <1>6, <1>14, <1>15 DEF c

\* Some value of a sequence is the least, and some is the greatest.
LEMMA ExtremesExist ==
  ASSUME NEW s \in Seq(Int), s # <<>>
  PROVE  /\ \E i \in 1 .. Len(s) : \A j \in 1 .. Len(s) : s[i] <= s[j]
         /\ \E i \in 1 .. Len(s) : \A j \in 1 .. Len(s) : s[j] <= s[i]
<1> DEFINE Extremes(n) == /\ \E i \in 1 .. n : \A j \in 1 .. n : s[i] <= s[j]
                          /\ \E i \in 1 .. n : \A j \in 1 .. n : s[j] <= s[i]
           P == {n \in Nat : n + 1 <= Len(s) => Extremes(n + 1)}
<1>1. Len(s) \in Nat /\ Len(s) # 0 /\ \A i \in 1 .. Len(s) : s[i] \in Int
  BY EmptySeq
<1>2. 0 \in P
  <2>1. s[1] \in Int
    BY <1>1
  <2>2. \A j \in 1 .. 1 : s[1] <= s[j] /\ s[j] <= s[1]
    BY <2>1
  <2> QED
    BY <2>2
<1>3. ASSUME NEW n \in P PROVE n + 1 \in P
  <2> SUFFICES ASSUME (n + 1) + 1 <= Len(s) PROVE Extremes((n + 1) + 1)
    BY <1>3
  <2> DEFINE m == n + 1
  <2>1. n \in Nat /\ m \in Nat /\ m + 1 <= Len(s) /\ Extremes(m)
    BY <1>1, <1>3
  <2> HIDE DEF m
  <2>2. PICK lo \in 1 .. m : \A j \in 1 .. m : s[lo] <= s[j]
    BY <2>1
  <2>3. PICK hi \in 1 .. m : \A j \in 1 .. m : s[j] <= s[hi]
    BY <2>1
  <2>4. \A j \in 1 .. (m + 1) : (j = m + 1 \/ j \in 1 .. m) /\ s[j] \in Int
    BY <1>1, <2>1
  <2>5. \E i \in 1 .. (m + 1) : \A j \in 1 .. (m + 1) : s[i] <= s[j]
    <3>1. lo \in 1 .. (m + 1) /\ m + 1 \in 1 .. (m + 1)
      BY <2>1
    <3>2. CASE s[lo] <= s[m + 1]
      BY <2>2, <2>4, <3>1, <3>2
    <3>3. CASE ~(s[lo] <= s[m + 1])
      <4>1. \A j \in 1 .. (m + 1) : s[m + 1] <= s[j]
        <5> TAKE j \in 1 .. (m + 1)
        <5>1. s[lo] \in Int /\ s[m + 1] \in Int /\ s[j] \in Int
          BY <2>4, <3>1
        <5>2. j \in 1 .. m => s[lo] <= s[j]
          BY <2>2
        <5> QED
          BY <2>4, <3>3, <5>1, <5>2
      <4> QED
        BY <3>1, <4>1
    <3> QED
      BY <3>2, <3>3
  <2>6. \E i \in 1 .. (m + 1) : \A j \in 1 .. (m + 1) : s[j] <= s[i]
    <3>1. hi \in 1 .. (m + 1) /\ m + 1 \in 1 .. (m + 1)
      BY <2>1
    <3>2. CASE s[m + 1] <= s[hi]
      BY <2>3, <2>4, <3>1, <3>2
    <3>3. CASE ~(s[m + 1] <= s[hi])
      <4>1. \A j \in 1 .. (m + 1) : s[j] <= s[m + 1]
        <5> TAKE j \in 1 .. (m + 1)
        <5>1. s[hi] \in Int /\ s[m + 1] \in Int /\ s[j] \in Int
          BY <2>4, <3>1
        <5>2. j \in 1 .. m => s[j] <= s[hi]
          BY <2>3
        <5> QED
          BY <2>4, <3>3, <5>1, <5>2
      <4> QED
        BY <3>1, <4>1
    <3> QED
      BY <3>2, <3>3
  <2> QED
    BY <2>5, <2>6 DEF m
<1>4. P = Nat
  <2> HIDE DEF P
  <2>1. P \in SUBSET Nat
    BY DEF P
  <2> QED
    BY <1>2, <1>3, <2>1, NatInd
<1>5. Len(s) - 1 \in P /\ (Len(s) - 1) + 1 = Len(s)
  <2>1. Len(s) - 1 \in Nat /\ (Len(s) - 1) + 1 = Len(s)
    BY <1>1
  <2> HIDE DEF P
  <2> QED
    BY <1>4, <2>1
<1>6. Extremes(Len(s))
  <2>1. Extremes((Len(s) - 1) + 1)
    BY <1>1, <1>5
  <2> HIDE DEF Extremes, P
  <2> QED
    BY <1>5, <2>1
<1> QED
  BY <1>6

Summaries == [min : Int, max : Int, sum : Int, count : Nat]

\* The extremes of a sequence that is not empty.
LEMMA ExtremesOf ==
  ASSUME NEW s \in Seq(Int), s # <<>>
  PROVE  /\ Min(ToSet(s)) \in ToSet(s) /\ \A x \in ToSet(s) : Min(ToSet(s)) <= x
         /\ Max(ToSet(s)) \in ToSet(s) /\ \A x \in ToSet(s) : x <= Max(ToSet(s))
         /\ ToSet(s) \in SUBSET Int
<1>1. ToSet(s) = {s[i] : i \in 1 .. Len(s)} /\ \A i \in 1 .. Len(s) : s[i] \in Int
  BY DEF ToSet
<1>2. \E x \in ToSet(s) : \A y \in ToSet(s) : x =< y
  BY <1>1, ExtremesExist
<1>3. \E x \in ToSet(s) : \A y \in ToSet(s) : x >= y
  <2>1. PICK i \in 1 .. Len(s) : \A j \in 1 .. Len(s) : s[j] <= s[i]
    BY ExtremesExist
  <2>2. \A y \in ToSet(s) : s[i] >= y
    BY <1>1, <2>1
  <2> QED
    BY <1>1, <2>2
<1>4. ToSet(s) \in SUBSET Int
  BY <1>1
<1>5. Min(ToSet(s)) \in ToSet(s) /\ \A x \in ToSet(s) : Min(ToSet(s)) <= x
  BY <1>2 DEF Min
<1>6. Max(ToSet(s)) \in ToSet(s) /\ \A x \in ToSet(s) : Max(ToSet(s)) >= x
  BY <1>3 DEF Max
<1> QED
  BY <1>4, <1>5, <1>6

LEMMA ExtremeIs ==
  ASSUME NEW S \in SUBSET Int, NEW m \in S
  PROVE  /\ (\A x \in S : m <= x) => Min(S) = m
         /\ (\A x \in S : x <= m) => Max(S) = m
<1>1. ASSUME \A x \in S : m <= x PROVE Min(S) = m
  <2>1. Min(S) \in S /\ \A y \in S : Min(S) =< y
    BY <1>1 DEF Min
  <2>2. Min(S) \in Int /\ m \in Int /\ Min(S) <= m /\ m <= Min(S)
    BY <1>1, <2>1
  <2> QED
    BY <2>2
<1>2. ASSUME \A x \in S : x <= m PROVE Max(S) = m
  <2>1. \A x \in S : m >= x
    BY <1>2
  <2>2. Max(S) \in S /\ \A y \in S : Max(S) >= y
    BY <2>1 DEF Max
  <2>3. Max(S) \in Int /\ m \in Int /\ Max(S) >= m /\ m >= Max(S)
    BY <2>1, <2>2
  <2> QED
    BY <2>3
<1> QED
  BY <1>1, <1>2

LEMMA SummaryType ==
  ASSUME NEW s \in Seq(Int)
  PROVE  /\ SummaryOfValues(s) \in Summaries
         /\ SummaryOfValues(s).count = Len(s)
<1>1. CASE s = <<>>
  BY <1>1 DEF SummaryOfValues, NoSummary, Summary, Summaries
<1>2. CASE s # <<>>
  <2>1. Min(ToSet(s)) \in Int /\ Max(ToSet(s)) \in Int
    BY <1>2, ExtremesOf
  <2>2. Total(s) \in Int /\ Len(s) \in Nat
    BY TotalOfParts
  <2> QED
    BY <1>2, <2>1, <2>2 DEF SummaryOfValues, Summary, Summaries
<1> QED
  BY <1>1, <1>2

\* Two summaries joined are the summary of both.
LEMMA JoinedIsSummary ==
  ASSUME NEW a \in Seq(Int), NEW b \in Seq(Int)
  PROVE  Joined(SummaryOfValues(a), SummaryOfValues(b)) = SummaryOfValues(a \o b)
<1>1. CASE a = <<>>
  <2>1. a \o b = b
    BY <1>1, ConcatEmptySeq
  <2>2. SummaryOfValues(a).count = 0
    BY <1>1, SummaryType
  <2> QED
    BY <2>1, <2>2 DEF Joined
<1>2. CASE a # <<>> /\ b = <<>>
  <2>1. a \o b = a
    BY <1>2, ConcatEmptySeq
  <2>2. SummaryOfValues(b).count = 0 /\ SummaryOfValues(a).count # 0
    <3>1. SummaryOfValues(b).count = Len(b) /\ SummaryOfValues(a).count = Len(a)
      BY SummaryType
    <3>2. Len(b) = 0 /\ Len(a) # 0
      BY <1>2, EmptySeq
    <3> QED
      BY <3>1, <3>2
  <2> QED
    BY <2>1, <2>2 DEF Joined
<1>3. CASE a # <<>> /\ b # <<>>
  <2> DEFINE c == a \o b
             lo == Min(ToSet(a))
             lb == Min(ToSet(b))
             hi == Max(ToSet(a))
             hb == Max(ToSet(b))
             A == ToSet(a)
             B == ToSet(b)
  <2>1. c \in Seq(Int) /\ c # <<>> /\ Len(c) = Len(a) + Len(b)
    <3>1. c \in Seq(Int) /\ Len(c) = Len(a) + Len(b)
      BY ConcatProperties
    <3>2. c # <<>>
      BY <1>3, ConcatEqualIffEmpty
    <3> QED
      BY <3>1, <3>2
  <2>2. ToSet(c) = A \cup B
    <3>1. DOMAIN a = 1 .. Len(a) /\ DOMAIN b = 1 .. Len(b) /\ DOMAIN c = 1 .. (Len(a) + Len(b))
          /\ Len(a) \in Nat /\ Len(b) \in Nat
      BY <2>1
    <3>2. \A i \in 1 .. (Len(a) + Len(b)) : c[i] = IF i <= Len(a) THEN a[i] ELSE b[i - Len(a)]
      BY ConcatProperties
    <3> HIDE DEF c
    <3>3. \A x \in ToSet(c) : x \in A \cup B
      <4> SUFFICES ASSUME NEW i \in DOMAIN c PROVE c[i] \in A \cup B
        BY DEF ToSet
      <4>1. CASE i <= Len(a)
        <5>1. i \in DOMAIN a /\ c[i] = a[i]
          BY <3>1, <3>2, <4>1
        <5> QED
          BY <5>1 DEF ToSet
      <4>2. CASE ~(i <= Len(a))
        <5>1. i - Len(a) \in DOMAIN b /\ c[i] = b[i - Len(a)]
          BY <3>1, <3>2, <4>2
        <5> QED
          BY <5>1 DEF ToSet
      <4> QED
        BY <4>1, <4>2
    <3>4. \A x \in A : x \in ToSet(c)
      <4> SUFFICES ASSUME NEW i \in DOMAIN a PROVE a[i] \in ToSet(c)
        BY DEF ToSet
      <4>1. i \in DOMAIN c /\ c[i] = a[i]
        BY <3>1, <3>2
      <4> QED
        BY <4>1 DEF ToSet
    <3>5. \A x \in B : x \in ToSet(c)
      <4> SUFFICES ASSUME NEW i \in DOMAIN b PROVE b[i] \in ToSet(c)
        BY DEF ToSet
      <4>1. i + Len(a) \in DOMAIN c /\ ~(i + Len(a) <= Len(a)) /\ (i + Len(a)) - Len(a) = i
        BY <3>1
      <4>2. c[i + Len(a)] = b[i]
        BY <3>1, <3>2, <4>1
      <4> QED
        BY <4>1, <4>2 DEF ToSet
    <3> QED
      BY <3>3, <3>4, <3>5
  <2>3. /\ lo \in A /\ \A x \in A : lo <= x
        /\ hi \in A /\ \A x \in A : x <= hi
        /\ A \in SUBSET Int
    BY <1>3, ExtremesOf
  <2>4. /\ lb \in B /\ \A x \in B : lb <= x
        /\ hb \in B /\ \A x \in B : x <= hb
        /\ B \in SUBSET Int
    BY <1>3, ExtremesOf
  <2>5. /\ SummaryOfValues(a) = Summary(lo, hi, Total(a), Len(a))
        /\ SummaryOfValues(b) = Summary(lb, hb, Total(b), Len(b))
    BY <1>3 DEF SummaryOfValues
  <2>6. SummaryOfValues(c) = Summary(Min(ToSet(c)), Max(ToSet(c)), Total(c), Len(c))
    BY <2>1 DEF SummaryOfValues
  <2>7. Total(c) = Total(a) + Total(b)
    BY TotalOfParts
  <2>8. Len(a) # 0 /\ Len(b) # 0
    BY <1>3, EmptySeq
  <2> HIDE DEF c, lo, lb, hi, hb, A, B
  <2>9. Min(ToSet(c)) = IF lo < lb THEN lo ELSE lb
    <3> DEFINE m == IF lo < lb THEN lo ELSE lb
    <3>1. lo \in Int /\ lb \in Int
      BY <2>3, <2>4
    <3>2. m \in A \cup B /\ \A x \in A \cup B : x \in Int /\ m <= x
      BY <2>3, <2>4, <3>1
    <3>3. A \cup B \in SUBSET Int
      BY <3>2
    <3> HIDE DEF m
    <3>4. Min(A \cup B) = m
      BY <3>2, <3>3, ExtremeIs
    <3> QED
      BY <2>2, <3>4 DEF m
  <2>10. Max(ToSet(c)) = IF hi > hb THEN hi ELSE hb
    <3> DEFINE m == IF hi > hb THEN hi ELSE hb
    <3>1. hi \in Int /\ hb \in Int
      BY <2>3, <2>4
    <3>2. m \in A \cup B /\ \A x \in A \cup B : x \in Int /\ x <= m
      BY <2>3, <2>4, <3>1
    <3>3. A \cup B \in SUBSET Int
      BY <3>2
    <3> HIDE DEF m
    <3>4. Max(A \cup B) = m
      BY <3>2, <3>3, ExtremeIs
    <3> QED
      BY <2>2, <3>4 DEF m
  <2>11. SummaryOfValues(c) = Summary(IF lo < lb THEN lo ELSE lb, IF hi > hb THEN hi ELSE hb,
                                      Total(a) + Total(b), Len(a) + Len(b))
    BY <2>1, <2>6, <2>7, <2>9, <2>10
  <2>12. Joined(SummaryOfValues(a), SummaryOfValues(b))
           = Summary(IF lo < lb THEN lo ELSE lb, IF hi > hb THEN hi ELSE hb,
                     Total(a) + Total(b), Len(a) + Len(b))
    BY <2>5, <2>8 DEF Joined, Summary
  <2> QED
    BY <2>11, <2>12 DEF c
<1> QED
  BY <1>1, <1>2, <1>3

LEMMA JoinedType ==
  ASSUME NEW a \in Summaries, NEW b \in Summaries
  PROVE  Joined(a, b) \in Summaries
  BY DEF Joined, Summary, Summaries

-----------------------------------------------------------------------------
(* Buckets, one joined to the summary of the others.                        *)

Buckets == [t : Nat, v : Summaries]

Aggregates(f, records) ==
  /\ f \in [0 .. Len(records) -> Summaries]
  /\ f[0] = NoSummary
  /\ \A k \in 1 .. Len(records) : f[k] = Joined(f[k - 1], records[k].v)

LEMMA AggregateIs ==
  ASSUME NEW records \in Seq(Buckets), NEW f, Aggregates(f, records)
  PROVE  SummarizeAggregate(records) = f[Len(records)] /\ f[Len(records)] \in Summaries
<1> DEFINE N == Len(records)
           Behind(g) == g = [n \in 0 .. N |-> IF n = 0 THEN NoSummary ELSE Joined(g[n - 1], records[n].v)]
           F == CHOOSE g : Behind(g)
<1>1. N \in Nat /\ SummarizeAggregate(records) = F[N]
  BY DEF SummarizeAggregate
<1>2. f \in [0 .. N -> Summaries] /\ f[0] = NoSummary /\ \A k \in 1 .. N : f[k] = Joined(f[k - 1], records[k].v)
  BY DEF Aggregates
<1> HIDE DEF N, F
<1>3. \A k \in 0 .. N : k = 0 \/ k \in 1 .. N
  BY <1>1
<1>4. Behind(f)
  <2>1. f = [n \in 0 .. N |-> f[n]]
    BY <1>2
  <2>2. \A n \in 0 .. N : f[n] = IF n = 0 THEN NoSummary ELSE Joined(f[n - 1], records[n].v)
    BY <1>2, <1>3
  <2> QED
    BY <2>1, <2>2
<1>5. Behind(F)
  <2> HIDE DEF Behind
  <2> QED
    BY <1>4 DEF F
<1>6. \A n \in 0 .. N : F[n] = IF n = 0 THEN NoSummary ELSE Joined(F[n - 1], records[n].v)
  BY <1>5
<1> DEFINE P == {k \in Nat : k <= N => F[k] = f[k]}
<1>7. 0 \in P
  BY <1>1, <1>2, <1>6
<1>8. ASSUME NEW k \in P PROVE k + 1 \in P
  <2> SUFFICES ASSUME k + 1 <= N PROVE F[k + 1] = f[k + 1]
    BY <1>8
  <2>1. k \in Nat /\ F[k] = f[k]
    BY <1>1, <1>8
  <2>2. k + 1 \in 1 .. N /\ k + 1 \in 0 .. N /\ k + 1 # 0 /\ (k + 1) - 1 = k
    BY <1>1, <2>1
  <2> HIDE DEF P
  <2> QED
    BY <1>2, <1>6, <2>1, <2>2
<1>9. P = Nat
  <2> HIDE DEF P
  <2>1. P \in SUBSET Nat
    BY DEF P
  <2> QED
    BY <1>7, <1>8, <2>1, NatInd
<1>10. F[N] = f[N] /\ f[N] \in Summaries
  BY <1>1, <1>2, <1>9
<1> QED
  BY <1>1, <1>10 DEF N

LEMMA AggregateExists ==
  ASSUME NEW records \in Seq(Buckets)
  PROVE  \E f : Aggregates(f, records)
<1> DEFINE N == Len(records)
           step == [p \in Summaries \X (1 .. N) |-> Joined(p[1], records[p[2]].v)]
<1>1. N \in Nat /\ \A k \in 1 .. N : records[k].v \in Summaries
  <2>1. \A k \in 1 .. N : records[k] \in Buckets
    OBVIOUS
  <2> HIDE DEF N
  <2>2. \A k \in 1 .. N : records[k].v \in Summaries
    BY <2>1 DEF Buckets
  <2> QED
    BY <2>2 DEF N
<1> HIDE DEF N
<1>2. step \in [Summaries \X (1 .. N) -> Summaries]
  <2>1. \A p \in Summaries \X (1 .. N) : Joined(p[1], records[p[2]].v) \in Summaries
    BY <1>1, JoinedType
  <2> QED
    BY <2>1
<1>3. NoSummary \in Summaries
  BY DEF NoSummary, Summary, Summaries
<1>4. PICK g \in [0 .. N -> Summaries] : Iterates(g, NoSummary, N, step)
  <2> HIDE DEF step
  <2> QED
    BY <1>1, <1>2, <1>3, IterationExists
<1>5. ASSUME NEW k \in 1 .. N PROVE g[k] = Joined(g[k - 1], records[k].v)
  <2>1. k - 1 \in 0 .. N
    BY <1>1
  <2>2. g[k - 1] \in Summaries
    BY <2>1
  <2>3. step[<<g[k - 1], k>>] = Joined(g[k - 1], records[k].v)
    BY <1>5, <2>2
  <2> HIDE DEF step
  <2> QED
    BY <1>4, <1>5, <2>3 DEF Iterates
<1>6. g[0] = NoSummary
  BY <1>4 DEF Iterates
<1>7. Aggregates(g, records)
  BY <1>5, <1>6 DEF Aggregates, N
<1> QED
  BY <1>7

\* A bucket behind the others.
LEMMA AggregateAppend ==
  ASSUME NEW records \in Seq(Buckets), NEW r \in Buckets
  PROVE  /\ SummarizeAggregate(records) \in Summaries
         /\ SummarizeAggregate(Append(records, r)) = Joined(SummarizeAggregate(records), r.v)
<1> DEFINE n == Len(records)
           longer == Append(records, r)
<1>1. PICK f : Aggregates(f, records)
  BY AggregateExists
<1>2. f \in [0 .. n -> Summaries] /\ f[0] = NoSummary /\ \A k \in 1 .. n : f[k] = Joined(f[k - 1], records[k].v)
  BY <1>1 DEF Aggregates
<1>3. SummarizeAggregate(records) = f[n] /\ f[n] \in Summaries
  BY <1>1, AggregateIs
<1>4. /\ n \in Nat /\ longer \in Seq(Buckets) /\ Len(longer) = n + 1
      /\ longer[n + 1] = r /\ \A k \in 1 .. n : longer[k] = records[k]
  BY AppendProperties
<1>5. Joined(f[n], r.v) \in Summaries
  <2>1. r.v \in Summaries
    BY DEF Buckets
  <2> QED
    BY <1>3, <2>1, JoinedType
<1> HIDE DEF n, longer
<1> DEFINE g == [k \in 0 .. (n + 1) |-> IF k = n + 1 THEN Joined(f[n], r.v) ELSE f[k]]
<1>6. \A k \in 0 .. (n + 1) : k = n + 1 \/ k \in 0 .. n
  BY <1>4
<1>7. g[n + 1] = Joined(f[n], r.v) /\ \A k \in 0 .. n : g[k] = f[k]
  BY <1>4
<1>8. g \in [0 .. (n + 1) -> Summaries]
  BY <1>2, <1>5, <1>6
<1> HIDE DEF g
<1>9. ASSUME NEW k \in 1 .. (n + 1) PROVE g[k] = Joined(g[k - 1], longer[k].v)
  <2>1. CASE k = n + 1
    <3>1. k - 1 = n /\ n \in 0 .. n
      BY <1>4, <2>1
    <3> QED
      BY <1>4, <1>7, <2>1, <3>1
  <2>2. CASE k # n + 1
    <3>1. k \in 1 .. n /\ k \in 0 .. n /\ k - 1 \in 0 .. n
      BY <1>4, <2>2
    <3> QED
      BY <1>2, <1>4, <1>7, <3>1
  <2> QED
    BY <2>1, <2>2
<1>10. g[0] = NoSummary
  BY <1>2, <1>4, <1>7
<1>11. Aggregates(g, longer)
  BY <1>4, <1>8, <1>9, <1>10 DEF Aggregates
<1>12. SummarizeAggregate(longer) = g[n + 1]
  BY <1>4, <1>11, AggregateIs
<1> QED
  BY <1>3, <1>7, <1>12 DEF longer

LEMMA AggregateEmpty == SummarizeAggregate(<<>>) = NoSummary
<1> DEFINE f == [k \in 0 .. 0 |-> NoSummary]
<1>1. <<>> \in Seq(Buckets) /\ Len(<<>>) = 0
  OBVIOUS
<1>2. f[0] = NoSummary /\ f \in [0 .. 0 -> Summaries]
  BY DEF NoSummary, Summary, Summaries
<1>3. Aggregates(f, <<>>)
  BY <1>1, <1>2 DEF Aggregates
<1> QED
  BY <1>1, <1>2, <1>3, AggregateIs

-----------------------------------------------------------------------------
(* The lines of some files, in the order of their names.                    *)

Lines(h, names, T) == \A name \in names : h[name] \in Seq(T)
Alike(g, h, names) == \A name \in names : g[name] = h[name]
Beneath(names, top) == \A name \in names : name < top
Beyond(names, least) == \A name \in names : least < name

Blocks(h, names) == [i \in DOMAIN InOrder(names) |-> h[InOrder(names)[i]]]

Stacked(h, names) == FlattenSeq(Blocks(h, names))

InBlocks(h, names, T) ==
  /\ Blocks(h, names) \in Seq(Seq(T))
  /\ Cardinality(names) \in Nat
  /\ InOrder(names) \in [1 .. Cardinality(names) -> names]
  /\ Len(Blocks(h, names)) = Cardinality(names)
  /\ \A i \in 1 .. Cardinality(names) : Blocks(h, names)[i] = h[InOrder(names)[i]]

StacksOnTop(h, names, top) == Stacked(h, names \cup {top}) = Stacked(h, names) \o h[top]
StacksBelow(h, names, least) == Stacked(h, names \cup {least}) = h[least] \o Stacked(h, names)

LEMMA BlocksType ==
  ASSUME NEW T, NEW names \in SUBSET Nat, IsFiniteSet(names), NEW h, Lines(h, names, T)
  PROVE  InBlocks(h, names, T)
<1> DEFINE n == Cardinality(names)
           s == InOrder(names)
<1>1. n \in Nat /\ s \in [1 .. n -> names]
  BY InOrderAscends DEF Ascends
<1> HIDE DEF n, s
<1>2. DOMAIN s = 1 .. n /\ \A i \in 1 .. n : h[s[i]] \in Seq(T)
  BY <1>1 DEF Lines
<1>3. Blocks(h, names) = [i \in 1 .. n |-> h[s[i]]]
  BY <1>2 DEF Blocks, s
<1>4. Blocks(h, names) \in Seq(Seq(T))
  BY <1>1, <1>2, <1>3
<1>5. Len(Blocks(h, names)) = n /\ \A i \in 1 .. n : Blocks(h, names)[i] = h[s[i]]
  BY <1>1, <1>3
<1> QED
  BY <1>1, <1>4, <1>5 DEF n, s, InBlocks

LEMMA StackedSame ==
  ASSUME NEW T, NEW names \in SUBSET Nat, IsFiniteSet(names), NEW h, Lines(h, names, T),
         NEW g, Alike(g, h, names)
  PROVE  Stacked(g, names) = Stacked(h, names)
<1>1. InOrder(names) \in [1 .. Cardinality(names) -> names]
  BY InOrderAscends DEF Ascends
<1>2. Blocks(g, names) = Blocks(h, names)
  BY <1>1 DEF Blocks, Alike
<1> QED
  BY <1>2 DEF Stacked

LEMMA StackedType ==
  ASSUME NEW T, NEW names \in SUBSET Nat, IsFiniteSet(names), NEW h, Lines(h, names, T)
  PROVE  Stacked(h, names) \in Seq(T)
<1>1. InBlocks(h, names, T)
  BY BlocksType
<1>2. Blocks(h, names) \in Seq(Seq(T))
  BY <1>1 DEF InBlocks
<1>3. <<>> \in Seq(T)
  OBVIOUS
<1> QED
  BY <1>2, <1>3, FlattenAppend DEF Stacked

LEMMA StackedOnTop ==
  ASSUME NEW T, NEW names \in SUBSET Nat, IsFiniteSet(names), NEW top \in Nat, Beneath(names, top),
         NEW h, Lines(h, names \cup {top}, T)
  PROVE  StacksOnTop(h, names, top)
<1> DEFINE n == Cardinality(names)
           s == InOrder(names)
           U == names \cup {top}
           u == InOrder(U)
<1>0. InBlocks(h, names, T)
  <2>1. Lines(h, names, T)
    BY DEF Lines
  <2> QED
    BY <2>1, BlocksType
<1>1. /\ n \in Nat /\ s \in [1 .. n -> names] /\ Blocks(h, names) \in Seq(Seq(T))
      /\ Len(Blocks(h, names)) = n /\ \A i \in 1 .. n : Blocks(h, names)[i] = h[s[i]]
  BY <1>0 DEF InBlocks
<1>2. u = [i \in 1 .. (n + 1) |-> IF i = n + 1 THEN top ELSE s[i]]
  BY GreatestComesLast DEF Beneath
<1>3. h[top] \in Seq(T)
  BY DEF Lines
<1>4. Blocks(h, U) = [i \in DOMAIN u |-> h[u[i]]]
  BY DEF Blocks
<1> HIDE DEF n, s, u, U
<1>5. \A i \in 1 .. (n + 1) : h[u[i]] = IF i = n + 1 THEN h[top] ELSE h[s[i]]
  BY <1>2
<1>6. Blocks(h, U) = [i \in 1 .. (n + 1) |-> IF i = n + 1 THEN h[top] ELSE h[s[i]]]
  BY <1>2, <1>4, <1>5
<1>7. Append(Blocks(h, names), h[top]) = [i \in 1 .. (n + 1) |-> IF i = n + 1 THEN h[top] ELSE h[s[i]]]
  BY <1>1, <1>3
<1>8. /\ Stacked(h, names) \in Seq(T)
      /\ FlattenSeq(Append(Blocks(h, names), h[top])) = Stacked(h, names) \o h[top]
  BY <1>1, <1>3, FlattenAppend DEF Stacked
<1>9. Stacked(h, U) = Stacked(h, names) \o h[top]
  BY <1>6, <1>7, <1>8 DEF Stacked
<1> QED
  BY <1>8, <1>9 DEF U, StacksOnTop

LEMMA StackedBelow ==
  ASSUME NEW T, NEW names \in SUBSET Nat, IsFiniteSet(names), NEW least \in Nat, Beyond(names, least),
         NEW h, Lines(h, names \cup {least}, T)
  PROVE  StacksBelow(h, names, least)
<1> DEFINE n == Cardinality(names)
           s == InOrder(names)
           U == names \cup {least}
           u == InOrder(U)
<1>0. InBlocks(h, names, T)
  <2>1. Lines(h, names, T)
    BY DEF Lines
  <2> QED
    BY <2>1, BlocksType
<1> DEFINE b == Blocks(h, names)
<1>1. n \in Nat /\ s \in [1 .. n -> names] /\ b \in Seq(Seq(T)) /\ Len(b) = n /\ \A i \in 1 .. n : b[i] = h[s[i]]
  BY <1>0 DEF InBlocks
<1>2. u = [i \in 1 .. (n + 1) |-> IF i = 1 THEN least ELSE s[i - 1]]
  BY LeastComesFirst DEF Beyond
<1>3. h[least] \in Seq(T)
  BY DEF Lines
<1>4. Blocks(h, U) = [i \in DOMAIN u |-> h[u[i]]]
  BY DEF Blocks
<1>5. Stacked(h, names) = FlattenSeq(b)
  BY DEF Stacked
<1> HIDE DEF n, s, u, U, b
<1>6. \A i \in 1 .. (n + 1) : h[u[i]] = IF i = 1 THEN h[least] ELSE h[s[i - 1]]
  BY <1>2
<1>7. Blocks(h, U) = [i \in 1 .. (n + 1) |-> IF i = 1 THEN h[least] ELSE h[s[i - 1]]]
  BY <1>2, <1>4, <1>6
<1>8. <<h[least]>> \o b = [i \in 1 .. (n + 1) |-> IF i = 1 THEN h[least] ELSE h[s[i - 1]]]
  <2> DEFINE c == <<h[least]>> \o b
  <2>1. Len(b) = n
    BY <1>1
  <2>2. <<h[least]>> \in Seq(Seq(T)) /\ Len(<<h[least]>>) = 1
    BY <1>3
  <2>3. c \in Seq(Seq(T)) /\ Len(c) = 1 + n
        /\ \A i \in 1 .. (1 + n) : c[i] = IF i <= 1 THEN <<h[least]>>[i] ELSE b[i - 1]
    BY <1>1, <2>1, <2>2, ConcatProperties
  <2> HIDE DEF c
  <2>4. \A i \in 1 .. (n + 1) : c[i] = IF i = 1 THEN h[least] ELSE h[s[i - 1]]
    <3> TAKE i \in 1 .. (n + 1)
    <3>1. CASE i = 1
      BY <1>1, <2>3, <3>1
    <3>2. CASE i # 1
      <4>1. i \in 1 .. (1 + n) /\ ~(i <= 1) /\ i - 1 \in 1 .. n
        BY <1>1, <3>2
      <4>2. c[i] = b[i - 1] /\ b[i - 1] = h[s[i - 1]]
        BY <1>1, <2>3, <4>1
      <4> QED
        BY <3>2, <4>2
    <3> QED
      BY <3>1, <3>2
  <2>5. DOMAIN c = 1 .. (n + 1) /\ c = [i \in DOMAIN c |-> c[i]]
    BY <1>1, <2>3
  <2>6. c = [i \in 1 .. (n + 1) |-> c[i]]
    BY <2>5
  <2>7. c = [i \in 1 .. (n + 1) |-> IF i = 1 THEN h[least] ELSE h[s[i - 1]]]
    BY <2>4, <2>6
  <2> QED
    BY <2>7 DEF c
<1>9. FlattenSeq(<<h[least]>> \o b) = h[least] \o FlattenSeq(b)
  BY <1>1, <1>3, FlattenCons
<1>10. Stacked(h, U) = h[least] \o Stacked(h, names)
  BY <1>5, <1>7, <1>8, <1>9 DEF Stacked
<1> QED
  BY <1>10 DEF U, StacksBelow

-----------------------------------------------------------------------------
(* What a handler makes of its files.                                       *)

\* The live file and the dated ones, which are older.
Archive(files, day, T) ==
  /\ files \in [DOMAIN files -> Seq(T)]
  /\ DOMAIN files \in SUBSET Nat /\ IsFiniteSet(DOMAIN files) /\ Live \in DOMAIN files
  /\ day \in Nat \ {0} /\ \A name \in Dated(files) : name < day

LEMMA ArchiveFacts ==
  ASSUME NEW T, NEW files, NEW day, Archive(files, day, T)
  PROVE  /\ Dated(files) \in SUBSET (Nat \ {0}) /\ IsFiniteSet(Dated(files))
         /\ Cardinality(Dated(files)) \in Nat
         /\ DOMAIN files = Dated(files) \cup {Live}
         /\ Cardinality(DOMAIN files) = Cardinality(Dated(files)) + 1
         /\ Lines(files, Dated(files), T)
         /\ files[Live] \in Seq(T)
         /\ day \notin Dated(files) /\ day # Live /\ Live \notin Dated(files)
<1>1. Dated(files) \in SUBSET (Nat \ {0}) /\ DOMAIN files = Dated(files) \cup {Live} /\ Live \notin Dated(files)
  BY DEF Archive, Dated, Live
<1>2. IsFiniteSet(Dated(files)) /\ Cardinality(Dated(files)) = Cardinality(DOMAIN files) - 1
  BY FS_RemoveElement DEF Archive, Dated
<1>3. Cardinality(DOMAIN files) \in Nat /\ Cardinality(Dated(files)) \in Nat
  BY <1>2, FS_CardinalityType DEF Archive
<1>4. /\ Lines(files, Dated(files), T)
      /\ files[Live] \in Seq(T)
  BY DEF Archive, Dated, Lines
<1>5. day \notin Dated(files) /\ day # Live
  <2>1. day \in Dated(files) => day < day
    BY DEF Archive
  <2> QED
    BY <2>1 DEF Archive, Live
<1>6. Cardinality(DOMAIN files) = Cardinality(Dated(files)) + 1
  BY <1>2, <1>3
<1> QED
  BY <1>1, <1>2, <1>3, <1>4, <1>5, <1>6

\* All lines are those of the dated files and behind them those of the live one.
LEMMA AllLinesAre ==
  ASSUME NEW T, NEW files, NEW day, Archive(files, day, T)
  PROVE  /\ Stacked(files, Dated(files)) \in Seq(T)
         /\ AllLines(files) = Stacked(files, Dated(files)) \o files[Live]
         /\ AllLines(files) \in Seq(T)
<1>0. /\ Dated(files) \in SUBSET Nat /\ IsFiniteSet(Dated(files)) /\ files[Live] \in Seq(T)
      /\ Lines(files, Dated(files), T)
  BY ArchiveFacts
<1>a. InBlocks(files, Dated(files), T)
  BY <1>0, BlocksType
<1> DEFINE D == Dated(files)
           n == Cardinality(D)
           s == InOrder(D)
           order == OldestFirst(files)
<1>1. /\ D \in SUBSET Nat /\ IsFiniteSet(D) /\ files[Live] \in Seq(T)
      /\ Lines(files, D, T)
  BY <1>0
<1>2. order = Append(s, Live)
  BY DEF OldestFirst, Dated
<1>3. AllLines(files) = FlattenSeq([i \in DOMAIN order |-> files[order[i]]])
  BY DEF AllLines
<1> HIDE DEF D, order
<1> DEFINE b == Blocks(files, D)
<1>4. n \in Nat /\ s \in [1 .. n -> D] /\ b \in Seq(Seq(T)) /\ Len(b) = n /\ \A i \in 1 .. n : b[i] = files[s[i]]
  BY <1>a DEF D, InBlocks
<1> HIDE DEF n, s, b
<1>5. order = [i \in 1 .. (n + 1) |-> IF i = n + 1 THEN Live ELSE s[i]]
  <2>0. s \in [1 .. n -> Nat]
    BY <1>1, <1>4
  <2>a. n \in Nat
    BY <1>4
  <2>b. Live \in Nat
    BY DEF Live
  <2>1. s \in Seq(Nat) /\ Len(s) = n
    BY <2>0, <2>a
  <2>2. /\ order \in Seq(Nat) /\ Len(order) = n + 1 /\ order[n + 1] = Live
        /\ \A i \in 1 .. n : order[i] = s[i]
    BY <1>2, <2>1, <2>b, AppendProperties
  <2>3. DOMAIN order = 1 .. (n + 1) /\ order = [i \in DOMAIN order |-> order[i]]
    BY <1>4, <2>2
  <2>4. \A i \in 1 .. (n + 1) : order[i] = IF i = n + 1 THEN Live ELSE s[i]
    BY <1>4, <2>2
  <2> QED
    BY <2>3, <2>4
<1>6. [i \in DOMAIN order |-> files[order[i]]]
        = [i \in 1 .. (n + 1) |-> IF i = n + 1 THEN files[Live] ELSE files[s[i]]]
  <2>1. \A i \in 1 .. (n + 1) : files[order[i]] = IF i = n + 1 THEN files[Live] ELSE files[s[i]]
    BY <1>5
  <2> QED
    BY <1>5, <2>1
<1>7. Append(b, files[Live]) = [i \in 1 .. (n + 1) |-> IF i = n + 1 THEN files[Live] ELSE files[s[i]]]
  BY <1>1, <1>4
<1>8. FlattenSeq(b) \in Seq(T) /\ FlattenSeq(Append(b, files[Live])) = FlattenSeq(b) \o files[Live]
  BY <1>1, <1>4, FlattenAppend
<1>9. Stacked(files, D) = FlattenSeq(b)
  BY DEF Stacked, b
<1>10. AllLines(files) = Stacked(files, D) \o files[Live]
  BY <1>3, <1>6, <1>7, <1>8, <1>9
<1>11. AllLines(files) \in Seq(T)
  BY <1>1, <1>8, <1>9, <1>10, ConcatProperties
<1> QED
  BY <1>8, <1>9, <1>10, <1>11 DEF D

-----------------------------------------------------------------------------
(* Retention.                                                               *)

NewerNames(names, n) == {m \in names : m > n}

LEMMA NewerCounted ==
  ASSUME NEW names \in SUBSET Nat, IsFiniteSet(names), NEW n \in names
  PROVE  /\ Cardinality(names) \in Nat /\ Cardinality(NewerNames(names, n)) \in Nat
         /\ Cardinality(NewerNames(names, n)) <= Cardinality(names) - 1
<1>1. n \notin NewerNames(names, n)
  BY DEF NewerNames
<1>2. NewerNames(names, n) \subseteq names \ {n}
  BY <1>1 DEF NewerNames
<1>3. IsFiniteSet(names \ {n}) /\ Cardinality(names \ {n}) = Cardinality(names) - 1
  BY FS_RemoveElement
<1>4. /\ IsFiniteSet(NewerNames(names, n))
      /\ Cardinality(NewerNames(names, n)) <= Cardinality(names \ {n})
  BY <1>2, <1>3, FS_Subset
<1>5. Cardinality(names) \in Nat /\ Cardinality(NewerNames(names, n)) \in Nat
  BY <1>4, FS_CardinalityType
<1> QED
  BY <1>3, <1>4, <1>5

\* Up to the number of backups all files stay.
LEMMA AllRetained ==
  ASSUME NEW tier, Backups[tier] \in Nat, NEW names \in SUBSET Nat, IsFiniteSet(names),
         Cardinality(names) <= Backups[tier]
  PROVE  Retained(tier, names) = names
<1>1. ASSUME NEW n \in names PROVE Cardinality(NewerNames(names, n)) < Backups[tier]
  BY NewerCounted
<1>2. Retained(tier, names) = {n \in names : Cardinality(NewerNames(names, n)) < Backups[tier]}
  BY DEF Retained, NewerNames
<1> QED
  BY <1>1, <1>2

\* One above it the oldest file goes.
LEMMA OldestGoes ==
  ASSUME NEW tier, Backups[tier] \in Nat, NEW names \in SUBSET Nat, IsFiniteSet(names),
         Cardinality(names) = Backups[tier] + 1
  PROVE  \E least \in names :
           /\ \A n \in names : least <= n
           /\ Retained(tier, names) = names \ {least}
<1>1. names # {}
  BY FS_EmptySet
<1>2. PICK least \in names : \A n \in names : least <= n
  BY <1>1, NatLeast
<1>3. IsFiniteSet(names \ {least}) /\ Cardinality(names \ {least}) = Backups[tier]
  <2>1. Cardinality(names \ {least}) = Cardinality(names) - 1 /\ IsFiniteSet(names \ {least})
    BY FS_RemoveElement
  <2> QED
    BY <2>1
<1>4. NewerNames(names, least) = names \ {least}
  <2>1. \A m \in names : m > least <=> m # least
    BY <1>2
  <2> QED
    BY <2>1 DEF NewerNames
<1>5. ~(Cardinality(NewerNames(names, least)) < Backups[tier])
  BY <1>3, <1>4
<1>6. ASSUME NEW n \in names, n # least PROVE Cardinality(NewerNames(names, n)) < Backups[tier]
  <2> DEFINE rest == names \ {least}
  <2>1. n \in rest /\ rest \in SUBSET Nat /\ IsFiniteSet(rest)
    BY <1>3, <1>6
  <2>2. NewerNames(names, n) = NewerNames(rest, n)
    <3>1. \A m \in names : m > n => m # least
      BY <1>2, <1>6
    <3> QED
      BY <3>1 DEF NewerNames
  <2>3. Cardinality(rest) = Backups[tier]
    BY <1>3
  <2> HIDE DEF rest
  <2>4. Cardinality(NewerNames(rest, n)) \in Nat /\ Cardinality(NewerNames(rest, n)) <= Cardinality(rest) - 1
    BY <2>1, NewerCounted
  <2> QED
    BY <2>2, <2>3, <2>4
<1>7. Retained(tier, names) = {n \in names : Cardinality(NewerNames(names, n)) < Backups[tier]}
  BY DEF Retained, NewerNames
<1>8. Retained(tier, names) = names \ {least}
  BY <1>5, <1>6, <1>7
<1> QED
  BY <1>2, <1>8

\* A set with more than B names below a bound begins B below it.
LEMMA LeastIsFarBelow ==
  ASSUME NEW names \in SUBSET Nat, IsFiniteSet(names), NEW least \in names, NEW top \in Nat,
         \A n \in names : least <= n /\ n <= top
  PROVE  Cardinality(names) \in Nat /\ Cardinality(names) <= top - least + 1
<1>1. names \subseteq least .. top /\ least <= top
  OBVIOUS
<1>2. IsFiniteSet(least .. top) /\ Cardinality(least .. top) = top - least + 1
  BY <1>1, FS_Interval
<1>3. Cardinality(names) <= Cardinality(least .. top)
  BY <1>1, <1>2, FS_Subset
<1>4. Cardinality(names) \in Nat
  BY FS_CardinalityType
<1> QED
  BY <1>2, <1>3, <1>4

Associate(s, t, u) == (s \o t) \o u = s \o (t \o u)

LEMMA ConcatAssociates ==
  ASSUME NEW T, NEW s \in Seq(T), NEW t \in Seq(T), NEW u \in Seq(T)
  PROVE  Associate(s, t, u)
BY ConcatAssociative DEF Associate

-----------------------------------------------------------------------------
(* What a handler makes of a line.                                          *)

\* The files g are the files f with the record at the end, less the file that went.
Handled(f, g, next, record, backups, T) ==
  \/ /\ AllLines(g) = Append(AllLines(f), record)
     /\ Dated(f) \subseteq Dated(g)
     /\ Cardinality(Dated(f)) <= Cardinality(Dated(g))
  \/ \E gone \in Dated(f) :
       /\ f[gone] \o AllLines(g) = Append(AllLines(f), record)
       /\ AllLines(g) \in Seq(T)
       /\ gone + backups < next
       /\ Cardinality(Dated(g)) = backups

Extends(f, day, g, record, T) ==
  /\ Archive(g, day, T) /\ Dated(g) = Dated(f)
  /\ AllLines(g) = Append(AllLines(f), record)
  /\ g[Live] = Append(f[Live], record)
  /\ \A name \in Dated(f) : g[name] = f[name]

LEMMA EmitSameDay ==
  ASSUME NEW T, NEW f, NEW day, Archive(f, day, T), NEW record \in T
  PROVE  Extends(f, day, [f EXCEPT ![Live] = Append(@, record)], record, T)
<1> DEFINE g == [f EXCEPT ![Live] = Append(@, record)]
<1>1. /\ Dated(f) \in SUBSET Nat /\ IsFiniteSet(Dated(f)) /\ f[Live] \in Seq(T) /\ Live \notin Dated(f)
      /\ Lines(f, Dated(f), T)
  BY ArchiveFacts
<1>2. Append(f[Live], record) \in Seq(T)
  BY <1>1, AppendProperties
<1>3. DOMAIN g = DOMAIN f /\ Dated(g) = Dated(f) /\ Live \in DOMAIN f /\ Dated(f) \subseteq DOMAIN f
  BY DEF Archive, Dated
<1>4. g[Live] = Append(f[Live], record) /\ \A name \in Dated(f) : g[name] = f[name]
  BY <1>1, <1>3 DEF Archive
<1>5. g \in [DOMAIN f -> Seq(T)]
  BY <1>2 DEF Archive
<1> HIDE DEF g
<1>6. Archive(g, day, T)
  BY <1>3, <1>5 DEF Archive
<1>7. Stacked(g, Dated(f)) = Stacked(f, Dated(f)) /\ Stacked(f, Dated(f)) \in Seq(T)
  <2>1. Stacked(f, Dated(f)) \in Seq(T)
    BY AllLinesAre
  <2> QED
    BY <1>1, <1>4, <2>1, StackedSame DEF Alike
<1>8. AllLines(g) = Stacked(f, Dated(f)) \o Append(f[Live], record)
  BY <1>3, <1>4, <1>6, <1>7, AllLinesAre
<1>9. AllLines(f) = Stacked(f, Dated(f)) \o f[Live]
  BY AllLinesAre
<1>10. AllLines(g) = Append(AllLines(f), record)
  <2> DEFINE st == Stacked(f, Dated(f))
             l == f[Live]
  <2>1. st \in Seq(T) /\ l \in Seq(T) /\ AllLines(g) = st \o Append(l, record) /\ AllLines(f) = st \o l
    BY <1>1, <1>7, <1>8, <1>9
  <2> HIDE DEF st, l
  <2>2. st \o Append(l, record) = Append(st \o l, record)
    BY <2>1
  <2> QED
    BY <2>1, <2>2
<1> QED
  BY <1>3, <1>4, <1>6, <1>10 DEF g, Extends

RotatedFiles(f, day, kept, record) ==
  [name \in kept \cup {Live} |-> IF name = Live THEN <<record>> ELSE f[IF name = day THEN Live ELSE name]]

Rotates(f, day, g, next, record, backups, T) ==
  /\ Archive(g, next, T)
  /\ Cardinality(Dated(g)) \in Nat /\ Cardinality(Dated(g)) <= backups
  /\ Handled(f, g, next, record, backups, T)
  /\ Dated(g) \subseteq Dated(f) \cup {day}
  /\ g[Live] = <<record>>
  /\ \A name \in Dated(g) : g[name] = f[IF name = day THEN Live ELSE name]

LEMMA EmitOtherDay ==
  ASSUME NEW T, NEW f, NEW day, Archive(f, day, T), NEW record \in T, NEW next \in Nat, day < next,
         NEW tier, Backups[tier] \in Nat \ {0}, Cardinality(Dated(f)) <= Backups[tier]
  PROVE  Rotates(f, day, RotatedFiles(f, day, Retained(tier, Dated(f) \cup {day}), record), next, record, Backups[tier], T)
<1> DEFINE kept == Retained(tier, Dated(f) \cup {day})
           g == RotatedFiles(f, day, kept, record)
           D == Dated(f)
           N == D \cup {day}
           h == [name \in N |-> f[IF name = day THEN Live ELSE name]]
<1>1. /\ D \in SUBSET (Nat \ {0}) /\ IsFiniteSet(D) /\ f[Live] \in Seq(T) /\ Live \notin D
      /\ Lines(f, D, T) /\ Beneath(D, day)
      /\ day \notin D /\ day \in Nat \ {0} /\ day # Live
      /\ Cardinality(D) \in Nat
  <2>1. /\ Dated(f) \in SUBSET (Nat \ {0}) /\ IsFiniteSet(Dated(f)) /\ Cardinality(Dated(f)) \in Nat
        /\ Lines(f, Dated(f), T)
        /\ f[Live] \in Seq(T)
        /\ day \notin Dated(f) /\ day # Live /\ Live \notin Dated(f)
    BY ArchiveFacts
  <2>2. day \in Nat \ {0} /\ Beneath(Dated(f), day)
    BY DEF Archive, Beneath
  <2> QED
    BY <2>1, <2>2
<1>2. /\ N \in SUBSET (Nat \ {0}) /\ IsFiniteSet(N) /\ Cardinality(N) = Cardinality(D) + 1
  BY <1>1, FS_AddElement
<1>3. \A name \in N : name <= day
  BY <1>1 DEF Beneath
<1>4. Lines(h, N, T)
  BY <1>1 DEF Lines
<1>5. h[day] = f[Live] /\ Alike(h, f, D)
  BY <1>1 DEF Alike
<1>6. g = [name \in kept \cup {Live} |-> IF name = Live THEN <<record>> ELSE f[IF name = day THEN Live ELSE name]]
  BY DEF RotatedFiles
<1>7. kept = Retained(tier, N)
  OBVIOUS
<1>8. kept \subseteq N
  BY <1>7 DEF Retained
<1>9. \A name \in N : h[name] = f[IF name = day THEN Live ELSE name]
  OBVIOUS
<1> HIDE DEF N, h, D, kept, g
<1>10. Live \notin kept /\ \A name \in kept : name # Live
  BY <1>2, <1>8 DEF Live
<1>11. DOMAIN g = kept \cup {Live} /\ Dated(g) = kept /\ g[Live] = <<record>>
       /\ \A name \in kept : g[name] = f[IF name = day THEN Live ELSE name]
  BY <1>6, <1>10 DEF Dated
<1>12. Alike(g, h, kept) /\ Lines(h, kept, T) /\ Lines(g, kept, T)
  BY <1>4, <1>8, <1>9, <1>11 DEF Alike, Lines
<1>13. <<record>> \in Seq(T)
  OBVIOUS
<1>14. IsFiniteSet(kept) /\ kept \in SUBSET Nat
  BY <1>2, <1>8, FS_Subset
<1>15. Archive(g, next, T)
  <2>1. g \in [DOMAIN g -> Seq(T)]
    BY <1>6, <1>11, <1>12, <1>13 DEF Lines
  <2>2. DOMAIN g \in SUBSET Nat /\ IsFiniteSet(DOMAIN g) /\ Live \in DOMAIN g
    <3>1. IsFiniteSet(kept \cup {Live})
      BY <1>14, FS_AddElement
    <3>2. kept \cup {Live} \in SUBSET Nat /\ Live \in kept \cup {Live}
      BY <1>14 DEF Live
    <3> QED
      BY <1>11, <3>1, <3>2
  <2>3. next \in Nat \ {0} /\ \A name \in Dated(g) : name < next
    <3>1. ASSUME NEW name \in kept PROVE name < next
      <4>1. name \in Nat /\ name <= day /\ day \in Nat
        BY <1>1, <1>2, <1>3, <1>8
      <4> QED
        BY <4>1
    <3>2. next # 0
      BY <1>1
    <3> QED
      BY <1>11, <3>1, <3>2
  <2> QED
    BY <2>1, <2>2, <2>3 DEF Archive
<1>16. Stacked(h, N) = AllLines(f) /\ AllLines(f) \in Seq(T)
  <2>1. Stacked(h, N) = Stacked(h, D) \o h[day]
    <3>1. D \in SUBSET Nat /\ Beneath(D, day) /\ day \in Nat
      BY <1>1
    <3>2. Lines(h, D \cup {day}, T)
      BY <1>4 DEF N
    <3>a. IsFiniteSet(D)
      BY <1>1
    <3>3. StacksOnTop(h, D, day)
      BY <3>a, <3>1, <3>2, StackedOnTop
    <3> QED
      BY <3>3 DEF N, StacksOnTop
  <2>2. Stacked(h, D) = Stacked(f, D)
    BY <1>1, <1>5, StackedSame
  <2>3. AllLines(f) = Stacked(f, D) \o f[Live] /\ AllLines(f) \in Seq(T)
    BY AllLinesAre DEF D
  <2> QED
    BY <1>5, <2>1, <2>2, <2>3
<1>17. AllLines(g) = Stacked(h, kept) \o <<record>> /\ Stacked(h, kept) \in Seq(T) /\ AllLines(g) \in Seq(T)
  <2>1. AllLines(g) = Stacked(g, kept) \o <<record>> /\ Stacked(g, kept) \in Seq(T) /\ AllLines(g) \in Seq(T)
    BY <1>11, <1>15, AllLinesAre
  <2>3. Stacked(g, kept) = Stacked(h, kept)
    BY <1>12, <1>14, StackedSame
  <2> QED
    BY <2>1, <2>3
<1>18. Append(AllLines(f), record) = Stacked(h, N) \o <<record>>
  BY <1>16
<1>19. CASE Cardinality(N) <= Backups[tier]
  <2>1. kept = N
    BY <1>2, <1>7, <1>19, AllRetained
  <2>2. Cardinality(Dated(g)) = Cardinality(D) + 1 /\ Dated(g) = N
    BY <1>2, <1>11, <2>1
  <2>3. Handled(f, g, next, record, Backups[tier], T)
    <3>1. AllLines(g) = Append(AllLines(f), record)
      BY <1>17, <1>18, <2>1
    <3>2. Dated(f) \subseteq Dated(g)
      BY <2>2 DEF D, N
    <3>3. Cardinality(D) <= Cardinality(Dated(g))
      BY <1>1, <2>2
    <3> QED
      BY <3>1, <3>2, <3>3 DEF Handled, D
  <2>4. Cardinality(Dated(g)) \in Nat /\ Cardinality(Dated(g)) <= Backups[tier]
    BY <1>1, <1>2, <1>19, <2>2
  <2>5. Dated(g) \subseteq Dated(f) \cup {day} /\ g[Live] = <<record>>
        /\ \A name \in Dated(g) : g[name] = f[IF name = day THEN Live ELSE name]
    BY <1>8, <1>11 DEF N, D
  <2> QED
    BY <1>15, <2>3, <2>4, <2>5 DEF g, kept, Rotates
<1>20. CASE ~(Cardinality(N) <= Backups[tier])
  <2>1. Cardinality(N) = Backups[tier] + 1
    <3>1. Cardinality(D) <= Backups[tier]
      BY DEF D
    <3> QED
      BY <1>1, <1>2, <1>20, <3>1
  <2>2. PICK least \in N : (\A n \in N : least <= n) /\ Retained(tier, N) = N \ {least}
    <3>1. N \in SUBSET Nat /\ Backups[tier] \in Nat
      BY <1>2
    <3> QED
      BY <1>2, <2>1, <3>1, OldestGoes
  <2>3. kept = N \ {least} /\ N = kept \cup {least} /\ least \in Nat
    BY <1>2, <1>7, <2>2
  <2>4. Cardinality(Dated(g)) = Backups[tier]
    <3>1. Cardinality(kept) = Cardinality(N) - 1
      BY <1>2, <2>3, FS_RemoveElement
    <3> QED
      BY <1>11, <2>1, <3>1
  <2>5. Cardinality(N) <= day - least + 1
    <3>1. N \in SUBSET Nat /\ day \in Nat /\ \A n \in N : least <= n /\ n <= day
      BY <1>1, <1>2, <1>3, <2>2
    <3> QED
      BY <1>2, <3>1, LeastIsFarBelow
  <2>6. least + Backups[tier] < next
    BY <1>1, <2>1, <2>3, <2>5
  <2>7. least \in D /\ least # day
    <3>1. least # day
      BY <1>1, <2>1, <2>3, <2>5
    <3> QED
      BY <3>1 DEF N
  <2>8. Stacked(h, N) = h[least] \o Stacked(h, kept)
    <3>1. Beyond(kept, least)
      BY <1>14, <2>2, <2>3 DEF Beyond
    <3>2. Lines(h, kept \cup {least}, T)
      BY <1>4, <2>3
    <3>a. least \in Nat
      BY <2>3
    <3>3. StacksBelow(h, kept, least)
      BY <1>14, <3>a, <3>1, <3>2, StackedBelow
    <3> QED
      BY <2>3, <3>3 DEF StacksBelow
  <2>9. f[least] \o AllLines(g) = Append(AllLines(f), record)
    <3>1. h[least] = f[least] /\ f[least] \in Seq(T)
      BY <1>1, <1>5, <2>7 DEF Lines, Alike
    <3>a. f[least] \in Seq(T) /\ Stacked(h, kept) \in Seq(T)
      BY <1>17, <3>1
    <3>2. Associate(f[least], Stacked(h, kept), <<record>>)
      BY <1>13, <3>a, ConcatAssociates
    <3> QED
      BY <1>17, <1>18, <2>8, <3>1, <3>2 DEF Associate
  <2>10. Handled(f, g, next, record, Backups[tier], T)
    <3>1. least \in Dated(f)
      BY <2>7 DEF D
    <3> QED
      BY <1>17, <2>4, <2>6, <2>9, <3>1 DEF Handled
  <2>11. Dated(g) \subseteq Dated(f) \cup {day} /\ g[Live] = <<record>>
         /\ \A name \in Dated(g) : g[name] = f[IF name = day THEN Live ELSE name]
    BY <1>8, <1>11 DEF N, D
  <2>12. Cardinality(Dated(g)) \in Nat /\ Cardinality(Dated(g)) <= Backups[tier]
    BY <2>4
  <2> QED
    BY <1>15, <2>10, <2>11, <2>12 DEF g, kept, Rotates
<1> QED
  BY <1>19, <1>20

-----------------------------------------------------------------------------
(* A tier over a step.                                                      *)

TierKept(tier, files, day, now, T) ==
  /\ Archive(files, day, T)
  /\ day <= DayOf(tier, now)
  /\ Cardinality(Dated(files)) <= Backups[tier]

\* Where the handler put the record and the files that it had.
Filed(f, day, g, next, record) ==
  \/ /\ next = day
     /\ Dated(g) = Dated(f) /\ g[Live] = Append(f[Live], record)
     /\ \A name \in Dated(g) : g[name] = f[name]
  \/ /\ Dated(g) \subseteq Dated(f) \cup {day} /\ g[Live] = <<record>>
     /\ \A name \in Dated(g) : g[name] = f[IF name = day THEN Live ELSE name]

Made(e, tier, now, record, T) ==
  /\ Archive(e.files, e.day, T)
  /\ e.day = DayOf(tier, now)
  /\ Cardinality(Dated(e.files)) \in Nat /\ Cardinality(Dated(e.files)) <= Backups[tier]
  /\ Handled(thFiles[tier], e.files, e.day, record, Backups[tier], T)
  /\ Filed(thFiles[tier], thDay[tier], e.files, e.day, record)

LEMMA DaysRise ==
  ASSUME NEW tier \in Tiers, NEW a \in Nat, NEW b \in Nat, a <= b
  PROVE  DayOf(tier, a) \in Nat \ {0} /\ DayOf(tier, b) \in Nat \ {0} /\ DayOf(tier, a) <= DayOf(tier, b)
<1> DEFINE d == Days[tier]
<1>1. d \in Nat \ {0}
  BY TrendAssumption
<1>2. DayOf(tier, a) = 1 + a \div d /\ DayOf(tier, b) = 1 + b \div d
  BY DEF DayOf
<1> HIDE DEF d
<1>3. a \div d \in Nat /\ b \div d \in Nat /\ a \div d <= b \div d
  BY <1>1
<1> QED
  BY <1>2, <1>3

\* What is B days behind is B times the length of a day old.
LEMMA DaysBehind ==
  ASSUME NEW t \in Nat, NEW now \in Nat, NEW d \in Nat \ {0}, NEW b \in Nat, 1 + t \div d + b < 1 + now \div d
  PROVE  t < now - b * d
<1> DEFINE p == t \div d
           q == now \div d
<1>1. p \in Nat /\ q \in Nat /\ t < (p + 1) * d /\ q * d <= now
  <2>1. t = d * p + (t % d) /\ t % d < d /\ t % d \in Nat /\ p \in Nat
    OBVIOUS
  <2>2. now = d * q + (now % d) /\ now % d \in Nat /\ q \in Nat
    OBVIOUS
  <2> HIDE DEF p, q
  <2>3. (p + 1) * d = d * p + d /\ q * d = d * q /\ d * p \in Nat /\ d * q \in Nat
    BY <2>1, <2>2
  <2> QED
    BY <2>1, <2>2, <2>3
<1>2. p + 1 + b <= q
  BY <1>1
<1> HIDE DEF p, q
<1>3. (p + 1 + b) * d <= q * d
  BY <1>1, <1>2
<1>4. (p + 1 + b) * d = (p + 1) * d + b * d /\ b * d \in Nat /\ (p + 1) * d \in Nat /\ q * d \in Nat
  BY <1>1
<1> QED
  BY <1>1, <1>3, <1>4

LEMMA EmitMakes ==
  ASSUME NEW T, NEW tier \in Tiers, NEW now \in Nat, NEW record \in T, TierKept(tier, thFiles[tier], thDay[tier], thNow, T),
         thNow \in Nat, thNow <= now
  PROVE  Made(Emit(tier, now, record), tier, now, record, T)
<1> DEFINE f == thFiles[tier]
           day == thDay[tier]
           next == DayOf(tier, now)
           e == Emit(tier, now, record)
           g == [f EXCEPT ![Live] = Append(@, record)]
           r == RotatedFiles(f, day, Retained(tier, Dated(f) \cup {day}), record)
<1>1. Archive(f, day, T) /\ Cardinality(Dated(f)) <= Backups[tier] /\ Backups[tier] \in Nat \ {0}
  BY TrendAssumption DEF TierKept
<1>2. next \in Nat \ {0} /\ day \in Nat \ {0} /\ day <= next
  <2>1. DayOf(tier, thNow) <= next /\ next \in Nat \ {0} /\ DayOf(tier, thNow) \in Nat
    BY DaysRise
  <2>2. day <= DayOf(tier, thNow) /\ day \in Nat \ {0}
    BY DEF TierKept, Archive
  <2> QED
    BY <2>1, <2>2
<1>3. e.day = next /\ e.files = IF next = day THEN g ELSE r
  BY DEF Emit, RotatedFiles
<1>4. Cardinality(Dated(f)) \in Nat
  BY <1>1, ArchiveFacts
<1> HIDE DEF f, day, next, e
<1>5. CASE next = day
  <2>a. Extends(f, day, g, record, T)
    BY <1>1, EmitSameDay
  <2> HIDE DEF g
  <2>1. /\ Archive(g, day, T) /\ Dated(g) = Dated(f)
        /\ AllLines(g) = Append(AllLines(f), record)
        /\ g[Live] = Append(f[Live], record) /\ \A name \in Dated(f) : g[name] = f[name]
    BY <2>a DEF Extends
  <2>2. Handled(f, g, next, record, Backups[tier], T)
    <3>1. Cardinality(Dated(f)) <= Cardinality(Dated(g))
      BY <1>4, <2>1
    <3> QED
      BY <2>1, <3>1 DEF Handled
  <2>3. Filed(f, day, g, next, record)
    BY <1>5, <2>1 DEF Filed
  <2>4. e.files = g
    BY <1>3, <1>5
  <2> QED
    BY <1>1, <1>3, <1>4, <1>5, <2>1, <2>2, <2>3, <2>4 DEF Made, f, day, next, e
<1>6. CASE next # day
  <2>a. Rotates(f, day, r, next, record, Backups[tier], T)
    <3>1. day < next /\ next \in Nat
      BY <1>2, <1>6
    <3> QED
      BY <1>1, <3>1, EmitOtherDay
  <2> HIDE DEF r
  <2>1. /\ Archive(r, next, T)
        /\ Cardinality(Dated(r)) \in Nat /\ Cardinality(Dated(r)) <= Backups[tier]
        /\ Handled(f, r, next, record, Backups[tier], T)
        /\ Dated(r) \subseteq Dated(f) \cup {day}
        /\ r[Live] = <<record>>
        /\ \A name \in Dated(r) : r[name] = f[IF name = day THEN Live ELSE name]
    BY <2>a DEF Rotates
  <2>2. Filed(f, day, r, next, record)
    BY <2>1 DEF Filed
  <2>3. e.files = r
    BY <1>3, <1>6
  <2> QED
    BY <1>3, <2>1, <2>2, <2>3 DEF Made, f, day, next, e
<1> QED
  BY <1>5, <1>6

-----------------------------------------------------------------------------
(* The invariant.                                                           *)

RawRecords == [t : Nat, v : Int]

\* The raw lines are in the files of their days.
InTheirDays(files, day) ==
  /\ \A name \in Dated(files) : \A k \in 1 .. Len(files[name]) : DayOf("raw", files[name][k].t) = name
  /\ \A k \in 1 .. Len(files[Live]) : DayOf("raw", files[Live][k].t) = day

\* The lines that no file has any more are older than every window to come.
OldLines(lost, raw, lines, before) ==
  /\ lost \in Seq(RawRecords)
  /\ raw = lost \o lines
  /\ \A i \in 1 .. Len(lost) : lost[i].t < before

\* What the files have is what was written, less what is too old for a check.
RawIsKept(raw, lines, now) ==
  /\ raw \in Seq(RawRecords)
  /\ \A i, j \in 1 .. Len(raw) : i < j => raw[i].t < raw[j].t
  /\ \A i \in 1 .. Len(raw) : raw[i].t <= now
  /\ \E lost : OldLines(lost, raw, lines, now - CheckWindow)

\* The buckets that were written stand for the first samples, the open one for the last.
SplitSamples(closed, open, samples, bucket, files) ==
  /\ closed \in Seq(Int) /\ open \in Seq(Int)
  /\ samples = closed \o open
  /\ bucket.v = SummaryOfValues(open)
  /\ bucket.start = NoTime => open = <<>>
  /\ Cardinality(DOMAIN files) <= Backups["hourly"] =>
       SummarizeAggregate(AllLines(files)) = SummaryOfValues(closed)

\* The samples fall apart into those the hourly lines stand for and those of the open bucket.
BucketsAreKept(samples, bucket, files, now) ==
  /\ bucket \in [start : Nat \cup {NoTime}, v : Summaries]
  /\ bucket.start <= now
  /\ \A i \in 1 .. Len(AllLines(files)) : AllLines(files)[i].t <= now
  /\ \E closed, open : SplitSamples(closed, open, samples, bucket, files)

\* The inductive invariant: where the lines of each tier are, what of the written ones is gone,
\* and which samples each bucket stands for.
TrendKept ==
  /\ thNow \in 0 .. TrendHorizon
  /\ TierKept("raw", thFiles["raw"], thDay["raw"], thNow, RawRecords)
  /\ TierKept("hourly", thFiles["hourly"], thDay["hourly"], thNow, Buckets)
  /\ InTheirDays(thFiles["raw"], thDay["raw"])
  /\ RawIsKept(thRaw, AllLines(thFiles["raw"]), thNow)
  /\ BucketsAreKept(thSamples, thBucket, thFiles["hourly"], thNow)
  /\ NoFalseAlarm

-----------------------------------------------------------------------------
(* The raw tier over a poll.                                                *)

LEMMA RawTimes ==
  ASSUME NEW s \in Seq(RawRecords)
  PROVE  Len(s) \in Nat /\ \A i \in 1 .. Len(s) : s[i] \in RawRecords /\ s[i].t \in Nat /\ s[i].v \in Int
<1>1. Len(s) \in Nat
  OBVIOUS
<1>2. ASSUME NEW i \in 1 .. Len(s) PROVE s[i] \in RawRecords
  OBVIOUS
<1>3. \A r \in RawRecords : r.t \in Nat /\ r.v \in Int
  BY DEF RawRecords
<1> QED
  BY <1>1, <1>2, <1>3

AppendsBehind(s, t, e) == s \o Append(t, e) = Append(s \o t, e)

LEMMA ConcatAppends ==
  ASSUME NEW T, NEW s \in Seq(T), NEW t \in Seq(T), NEW e \in T
  PROVE  AppendsBehind(s, t, e)
BY DEF AppendsBehind

LEMMA RawLinesFiled ==
  ASSUME NEW now \in Nat, NEW f, NEW day, NEW g, NEW record \in RawRecords, record.t = now,
         InTheirDays(f, day), Filed(f, day, g, DayOf("raw", now), record), f[Live] \in Seq(RawRecords)
  PROVE  InTheirDays(g, DayOf("raw", now))
<1> DEFINE next == DayOf("raw", now)
<1>1. DayOf("raw", record.t) = next
  OBVIOUS
<1> HIDE DEF next
<1>2. CASE /\ next = day
           /\ Dated(g) = Dated(f) /\ g[Live] = Append(f[Live], record)
           /\ \A name \in Dated(g) : g[name] = f[name]
  <2>1. ASSUME NEW k \in 1 .. Len(g[Live]) PROVE DayOf("raw", g[Live][k].t) = next
    <3>1. /\ Len(g[Live]) = Len(f[Live]) + 1 /\ g[Live][Len(f[Live]) + 1] = record
          /\ \A j \in 1 .. Len(f[Live]) : g[Live][j] = f[Live][j]
      BY <1>2, AppendProperties
    <3>2. CASE k = Len(f[Live]) + 1
      BY <1>1, <3>1, <3>2
    <3>3. CASE k # Len(f[Live]) + 1
      <4>1. k \in 1 .. Len(f[Live])
        BY <3>1, <3>3
      <4>2. DayOf("raw", f[Live][k].t) = day
        BY <4>1 DEF InTheirDays
      <4> QED
        BY <1>2, <3>1, <4>1, <4>2
    <3> QED
      BY <3>2, <3>3
  <2>2. \A name \in Dated(g) : \A k \in 1 .. Len(g[name]) : DayOf("raw", g[name][k].t) = name
    BY <1>2 DEF InTheirDays
  <2> QED
    BY <2>1, <2>2 DEF InTheirDays, next
<1>3. CASE /\ Dated(g) \subseteq Dated(f) \cup {day} /\ g[Live] = <<record>>
           /\ \A name \in Dated(g) : g[name] = f[IF name = day THEN Live ELSE name]
  <2>1. ASSUME NEW k \in 1 .. Len(g[Live]) PROVE DayOf("raw", g[Live][k].t) = next
    <3>1. Len(g[Live]) = 1 /\ g[Live][1] = record
      BY <1>3
    <3> QED
      BY <1>1, <3>1
  <2>2. ASSUME NEW name \in Dated(g), NEW k \in 1 .. Len(g[name]) PROVE DayOf("raw", g[name][k].t) = name
    <3>1. CASE name = day
      BY <1>3, <3>1 DEF InTheirDays
    <3>2. CASE name # day
      BY <1>3, <3>2 DEF InTheirDays
    <3> QED
      BY <3>1, <3>2
  <2> QED
    BY <2>1, <2>2 DEF InTheirDays, next
<1> QED
  BY <1>2, <1>3 DEF Filed, next

\* A file that goes is too old for every later check.
LEMMA GoneIsOld ==
  ASSUME NEW now \in Nat, NEW f, NEW day, NEW gone \in Dated(f), Archive(f, day, RawRecords),
         InTheirDays(f, day), gone + Backups["raw"] < DayOf("raw", now)
  PROVE  \A k \in 1 .. Len(f[gone]) : f[gone][k].t < now - CheckWindow
<1> SUFFICES ASSUME NEW k \in 1 .. Len(f[gone]) PROVE f[gone][k].t < now - CheckWindow
  OBVIOUS
<1> DEFINE t == f[gone][k].t
           b == Backups["raw"]
           d == Days["raw"]
<1>1. b \in Nat /\ d \in Nat \ {0} /\ CheckWindow \in Nat /\ CheckWindow <= b * d
  BY TrendAssumption DEF Tiers
<1>2. t \in Nat
  <2>1. Lines(f, Dated(f), RawRecords)
    BY ArchiveFacts
  <2>2. f[gone] \in Seq(RawRecords)
    BY <2>1 DEF Lines
  <2>3. f[gone][k] \in RawRecords
    BY <2>2
  <2> QED
    BY <2>3 DEF RawRecords
<1>3. DayOf("raw", t) = gone
  BY DEF InTheirDays
<1>4. DayOf("raw", t) = 1 + t \div d /\ DayOf("raw", now) = 1 + now \div d
  BY DEF DayOf
<1>5. gone + b < DayOf("raw", now)
  OBVIOUS
<1> HIDE DEF t, b, d
<1>6. 1 + t \div d + b < 1 + now \div d
  BY <1>3, <1>4, <1>5
<1>7. t < now - b * d
  BY <1>1, <1>2, <1>6, DaysBehind
<1>8. b * d \in Nat
  BY <1>1
<1>9. t < now - CheckWindow
  BY <1>1, <1>2, <1>7, <1>8
<1> QED
  BY <1>9 DEF t

LEMMA RawGrows ==
  ASSUME NEW now \in Nat, NEW then \in Nat, then < now, NEW f, NEW day, Archive(f, day, RawRecords),
         InTheirDays(f, day), NEW raw, RawIsKept(raw, AllLines(f), then),
         NEW record \in RawRecords, record.t = now, NEW g, AllLines(g) \in Seq(RawRecords),
         Handled(f, g, DayOf("raw", now), record, Backups["raw"], RawRecords)
  PROVE  RawIsKept(Append(raw, record), AllLines(g), now)
<1> DEFINE n == Len(raw)
           more == Append(raw, record)
<1>1. /\ raw \in Seq(RawRecords) /\ n \in Nat
      /\ \A i, j \in 1 .. n : i < j => raw[i].t < raw[j].t
      /\ \A i \in 1 .. n : raw[i].t <= then
  BY DEF RawIsKept
<1>2. /\ more \in Seq(RawRecords) /\ Len(more) = n + 1 /\ more[n + 1] = record
      /\ \A i \in 1 .. n : more[i] = raw[i]
  BY <1>1, AppendProperties
<1>3. \A i \in 1 .. n : raw[i].t \in Nat
  BY <1>1, RawTimes
<1>a. n \in Nat
  BY <1>1
<1> HIDE DEF n, more
<1>4. \A i, j \in 1 .. (n + 1) : i < j => more[i].t < more[j].t
  <2> SUFFICES ASSUME NEW i \in 1 .. (n + 1), NEW j \in 1 .. (n + 1), i < j PROVE more[i].t < more[j].t
    OBVIOUS
  <2>1. i \in 1 .. n
    BY <1>a
  <2>2. CASE j = n + 1
    <3>1. more[j].t = now /\ more[i].t = raw[i].t /\ raw[i].t <= then /\ raw[i].t \in Nat
      BY <1>1, <1>2, <1>3, <2>1, <2>2
    <3> QED
      BY <3>1
  <2>3. CASE j # n + 1
    <3>1. j \in 1 .. n
      BY <1>a, <2>3
    <3> QED
      BY <1>1, <1>2, <2>1, <3>1
  <2> QED
    BY <2>2, <2>3
<1>5. \A i \in 1 .. (n + 1) : more[i].t <= now
  <2> SUFFICES ASSUME NEW i \in 1 .. (n + 1) PROVE more[i].t <= now
    OBVIOUS
  <2>1. CASE i = n + 1
    BY <1>2, <2>1
  <2>2. CASE i # n + 1
    <3>1. i \in 1 .. n
      BY <1>a, <2>2
    <3>2. more[i].t = raw[i].t /\ raw[i].t <= then /\ raw[i].t \in Nat
      BY <1>1, <1>2, <1>3, <3>1
    <3> QED
      BY <3>2
  <2> QED
    BY <2>1, <2>2
<1>6. PICK lost : OldLines(lost, raw, AllLines(f), then - CheckWindow)
  BY DEF RawIsKept
<1>7. /\ lost \in Seq(RawRecords) /\ raw = lost \o AllLines(f)
      /\ \A i \in 1 .. Len(lost) : lost[i].t < then - CheckWindow
  BY <1>6 DEF OldLines
<1>8. \A i \in 1 .. Len(lost) : lost[i].t < now - CheckWindow
  <2>1. CheckWindow \in Nat
    BY TrendAssumption
  <2>2. \A i \in 1 .. Len(lost) : lost[i].t \in Nat
    BY <1>7, RawTimes
  <2> QED
    BY <1>7, <2>1, <2>2
<1>9. AllLines(f) \in Seq(RawRecords)
  BY AllLinesAre
<1>10. more = lost \o Append(AllLines(f), record)
  <2>1. AppendsBehind(lost, AllLines(f), record)
    BY <1>7, <1>9, ConcatAppends
  <2> QED
    BY <1>7, <2>1 DEF more, AppendsBehind
<1>11. CASE AllLines(g) = Append(AllLines(f), record)
  <2>1. OldLines(lost, more, AllLines(g), now - CheckWindow)
    BY <1>7, <1>8, <1>10, <1>11 DEF OldLines
  <2> QED
    BY <1>2, <1>4, <1>5, <2>1 DEF RawIsKept, more
<1>12. ASSUME NEW gone \in Dated(f), f[gone] \o AllLines(g) = Append(AllLines(f), record),
              gone + Backups["raw"] < DayOf("raw", now)
       PROVE  RawIsKept(Append(raw, record), AllLines(g), now)
  <2> DEFINE a == f[gone]
  <2>1. a \in Seq(RawRecords)
    <3>1. Lines(f, Dated(f), RawRecords)
      BY ArchiveFacts
    <3> QED
      BY <3>1 DEF Lines
  <2>2. \A k \in 1 .. Len(a) : a[k].t < now - CheckWindow
    BY <1>12, GoneIsOld
  <2>3. a \o AllLines(g) = Append(AllLines(f), record)
    BY <1>12
  <2> HIDE DEF a
  <2>4. Associate(lost, a, AllLines(g))
    BY <1>7, <2>1, ConcatAssociates
  <2>5. more = (lost \o a) \o AllLines(g)
    BY <1>10, <2>3, <2>4 DEF Associate
  <2>6. /\ lost \o a \in Seq(RawRecords) /\ Len(lost \o a) = Len(lost) + Len(a)
        /\ \A i \in 1 .. (Len(lost) + Len(a)) : (lost \o a)[i] = IF i <= Len(lost) THEN lost[i] ELSE a[i - Len(lost)]
    BY <1>7, <2>1, ConcatProperties
  <2>7. Len(lost) \in Nat /\ Len(a) \in Nat
    BY <1>7, <2>1
  <2>8. ASSUME NEW i \in 1 .. Len(lost \o a) PROVE (lost \o a)[i].t < now - CheckWindow
    <3>1. CASE i <= Len(lost)
      BY <1>8, <2>6, <2>7, <3>1
    <3>2. CASE ~(i <= Len(lost))
      <4>1. i - Len(lost) \in 1 .. Len(a)
        BY <2>6, <2>7, <3>2
      <4>2. (lost \o a)[i] = a[i - Len(lost)]
        BY <2>6, <3>2
      <4> QED
        BY <2>2, <4>1, <4>2
    <3> QED
      BY <3>1, <3>2
  <2>9. OldLines(lost \o a, more, AllLines(g), now - CheckWindow)
    BY <2>5, <2>6, <2>8 DEF OldLines
  <2> QED
    BY <1>2, <1>4, <1>5, <2>9 DEF RawIsKept, more
<1> QED
  BY <1>11, <1>12 DEF Handled

\* Without a line the old ones get older.
LEMMA RawStays ==
  ASSUME NEW now \in Nat, NEW then \in Nat, then <= now, NEW raw, NEW lines, RawIsKept(raw, lines, then)
  PROVE  RawIsKept(raw, lines, now)
<1>1. PICK lost : OldLines(lost, raw, lines, then - CheckWindow)
  BY DEF RawIsKept
<1>2. CheckWindow \in Nat
  BY TrendAssumption
<1>a. lost \in Seq(RawRecords) /\ \A i \in 1 .. Len(lost) : lost[i].t < then - CheckWindow
  BY <1>1 DEF OldLines
<1>3. \A i \in 1 .. Len(lost) : lost[i].t \in Nat /\ lost[i].t < then - CheckWindow
  BY <1>a, RawTimes
<1>4. \A i \in 1 .. Len(lost) : lost[i].t < now - CheckWindow
  BY <1>2, <1>3
<1>5. OldLines(lost, raw, lines, now - CheckWindow)
  BY <1>1, <1>4 DEF OldLines
<1>b. raw \in Seq(RawRecords) /\ \A i \in 1 .. Len(raw) : raw[i].t <= then
  BY DEF RawIsKept
<1>6. \A i \in 1 .. Len(raw) : raw[i].t \in Nat /\ raw[i].t <= then
  BY <1>b, RawTimes
<1>7. \A i \in 1 .. Len(raw) : raw[i].t <= now
  BY <1>6
<1> QED
  BY <1>5, <1>7 DEF RawIsKept

-----------------------------------------------------------------------------
(* The buckets over a poll.                                                 *)

LEMMA ValueType ==
  ASSUME NEW level \in Int
  PROVE  ValueOf(level) \in Seq(Int)
BY DEF ValueOf

LEMMA BucketStart ==
  ASSUME NEW now \in Nat
  PROVE  now - (now % BucketLength) \in Nat /\ now - (now % BucketLength) <= now
<1> DEFINE b == BucketLength
<1>1. b \in Nat \ {0}
  BY TrendAssumption
<1> HIDE DEF b
<1>2. now = b * (now \div b) + (now % b) /\ now % b \in Nat /\ now \div b \in Nat
  BY <1>1
<1>3. b * (now \div b) \in Nat
  BY <1>1, <1>2
<1>4. now - (now % b) \in Nat /\ now - (now % b) <= now
  BY <1>2, <1>3
<1> QED
  BY <1>4 DEF b

\* The lines of a tier that got one are lines that it had, or that one.
LEMMA LinesFrom ==
  ASSUME NEW T, NEW f, NEW day, Archive(f, day, T), NEW record \in T, NEW g, NEW next, NEW backups,
         AllLines(g) \in Seq(T), Handled(f, g, next, record, backups, T),
         NEW i \in 1 .. Len(AllLines(g))
  PROVE  AllLines(g)[i] = record \/ \E j \in 1 .. Len(AllLines(f)) : AllLines(g)[i] = AllLines(f)[j]
<1> DEFINE l == AllLines(f)
           m == AllLines(g)
           more == Append(l, record)
<1>1. l \in Seq(T)
  BY AllLinesAre
<1>2. m \in Seq(T) /\ i \in 1 .. Len(m)
  OBVIOUS
<1>3. m = more \/ \E gone \in Dated(f) : f[gone] \o m = more
  BY DEF Handled
<1>4. Lines(f, Dated(f), T)
  BY ArchiveFacts
<1> HIDE DEF l, m
<1>5. /\ more \in Seq(T) /\ Len(more) = Len(l) + 1 /\ more[Len(l) + 1] = record /\ Len(l) \in Nat
      /\ \A j \in 1 .. Len(l) : more[j] = l[j]
  BY <1>1, AppendProperties
<1> HIDE DEF more
<1>6. \E j \in 1 .. Len(more) : m[i] = more[j]
  <2>1. CASE m = more
    BY <1>2, <2>1
  <2>2. ASSUME NEW gone \in Dated(f), f[gone] \o m = more PROVE \E j \in 1 .. Len(more) : m[i] = more[j]
    <3> DEFINE a == f[gone]
    <3>1. a \in Seq(T) /\ a \o m = more
      BY <1>4, <2>2 DEF Lines
    <3> HIDE DEF a
    <3>2. /\ Len(more) = Len(a) + Len(m) /\ Len(a) \in Nat /\ Len(m) \in Nat
          /\ \A j \in 1 .. (Len(a) + Len(m)) : more[j] = IF j <= Len(a) THEN a[j] ELSE m[j - Len(a)]
      BY <1>2, <3>1, ConcatProperties
    <3>3. i + Len(a) \in 1 .. Len(more) /\ ~(i + Len(a) <= Len(a)) /\ i + Len(a) - Len(a) = i
      BY <1>2, <3>2
    <3>4. more[i + Len(a)] = m[i]
      BY <3>2, <3>3
    <3> QED
      BY <3>3, <3>4
  <2> QED
    BY <1>3, <2>1, <2>2
<1>7. PICK j \in 1 .. Len(more) : m[i] = more[j]
  BY <1>6
<1>8. CASE j = Len(l) + 1
  BY <1>5, <1>7, <1>8 DEF m
<1>9. CASE j # Len(l) + 1
  <2>1. j \in 1 .. Len(l)
    BY <1>5, <1>9
  <2> QED
    BY <1>5, <1>7, <2>1 DEF m, l
<1> QED
  BY <1>8, <1>9

\* A bucket that is full is written and another one opened.
LEMMA BucketIsWritten ==
  ASSUME NEW now \in Nat, thNow \in Nat, thNow < now, NEW level \in Int,
         NEW f, NEW day, Archive(f, day, Buckets), BucketsAreKept(thSamples, thBucket, f, thNow),
         thBucket.start \notin {NoTime, now - (now % BucketLength)},
         NEW g, NEW next, Archive(g, next, Buckets),
         Handled(f, g, next, [t |-> thBucket.start, v |-> thBucket.v], Backups["hourly"], Buckets)
  PROVE  BucketsAreKept(thSamples \o ValueOf(level), BucketWith(now, level), g, now)
<1> DEFINE start == now - (now % BucketLength)
           value == SummaryOfValues(ValueOf(level))
           record == [t |-> thBucket.start, v |-> thBucket.v]
           bucket == BucketWith(now, level)
<1>1. thBucket.start \in Nat /\ thBucket.v \in Summaries /\ thBucket.start <= thNow
  BY DEF BucketsAreKept
<1>2. record \in Buckets /\ record.t = thBucket.start /\ record.v = thBucket.v
  BY <1>1 DEF Buckets
<1>3. bucket = [start |-> start, v |-> value]
  BY DEF BucketWith
<1>4. start \in Nat /\ start <= now
  BY BucketStart
<1>5. ValueOf(level) \in Seq(Int)
  BY ValueType
<1>6. value \in Summaries
  BY <1>5, SummaryType
<1>7. PICK closed, open : SplitSamples(closed, open, thSamples, thBucket, f)
  BY DEF BucketsAreKept
<1>8. /\ closed \in Seq(Int) /\ open \in Seq(Int) /\ thSamples = closed \o open
      /\ thBucket.v = SummaryOfValues(open)
      /\ Cardinality(DOMAIN f) <= Backups["hourly"] => SummarizeAggregate(AllLines(f)) = SummaryOfValues(closed)
  BY <1>7 DEF SplitSamples
<1>9. AllLines(g) \in Seq(Buckets) /\ AllLines(f) \in Seq(Buckets)
  BY AllLinesAre
<1>10. Handled(f, g, next, record, Backups["hourly"], Buckets)
  OBVIOUS
<1>11. start # NoTime /\ thNow <= now
  BY <1>4 DEF NoTime
<1> HIDE DEF start, value, record, bucket
<1>12. \A i \in 1 .. Len(AllLines(g)) : AllLines(g)[i].t <= now
  <2> SUFFICES ASSUME NEW i \in 1 .. Len(AllLines(g)) PROVE AllLines(g)[i].t <= now
    OBVIOUS
  <2>1. AllLines(g)[i] = record \/ \E j \in 1 .. Len(AllLines(f)) : AllLines(g)[i] = AllLines(f)[j]
    BY <1>2, <1>9, <1>10, LinesFrom
  <2>2. \A j \in 1 .. Len(AllLines(f)) : AllLines(f)[j].t <= thNow
    BY DEF BucketsAreKept
  <2>3. AllLines(g)[i].t <= thNow
    BY <1>1, <1>2, <2>1, <2>2
  <2>4. AllLines(g)[i] \in Buckets
    BY <1>9
  <2>5. AllLines(g)[i].t \in Nat
    BY <2>4 DEF Buckets
  <2> QED
    BY <1>11, <2>3, <2>5
<1>13. ASSUME Cardinality(DOMAIN g) <= Backups["hourly"]
       PROVE  SummarizeAggregate(AllLines(g)) = SummaryOfValues(closed \o open)
  <2>1. /\ Cardinality(DOMAIN g) = Cardinality(Dated(g)) + 1 /\ Cardinality(Dated(g)) \in Nat
        /\ Cardinality(DOMAIN f) = Cardinality(Dated(f)) + 1 /\ Cardinality(Dated(f)) \in Nat
    BY ArchiveFacts
  <2>2. Backups["hourly"] \in Nat
    BY TrendAssumption DEF Tiers
  <2>3. Cardinality(Dated(g)) # Backups["hourly"]
    BY <1>13, <2>1, <2>2
  <2>4. /\ AllLines(g) = Append(AllLines(f), record)
        /\ Cardinality(Dated(f)) <= Cardinality(Dated(g))
    BY <1>10, <2>3 DEF Handled
  <2>5. Cardinality(DOMAIN f) <= Backups["hourly"]
    BY <1>13, <2>1, <2>2, <2>4
  <2>6. SummarizeAggregate(AllLines(g)) = Joined(SummarizeAggregate(AllLines(f)), record.v)
    BY <1>2, <1>9, <2>4, AggregateAppend
  <2>7. Joined(SummaryOfValues(closed), SummaryOfValues(open)) = SummaryOfValues(closed \o open)
    BY <1>8, JoinedIsSummary
  <2> QED
    BY <1>2, <1>8, <2>5, <2>6, <2>7
<1>14. closed \o open \in Seq(Int)
  BY <1>8, ConcatProperties
<1>15. bucket.start = start /\ bucket.v = value
  BY <1>3
<1>16. SplitSamples(closed \o open, ValueOf(level), thSamples \o ValueOf(level), bucket, g)
  BY <1>5, <1>8, <1>11, <1>13, <1>14, <1>15 DEF SplitSamples, value
<1>17. bucket \in [start : Nat \cup {NoTime}, v : Summaries] /\ bucket.start <= now
  BY <1>3, <1>4, <1>6
<1> QED
  BY <1>12, <1>16, <1>17 DEF BucketsAreKept, bucket

\* Otherwise the sample is put into the open bucket, or opens one.
LEMMA BucketIsFilled ==
  ASSUME NEW now \in Nat, thNow \in Nat, thNow < now, NEW level \in Int,
         NEW f, NEW day, Archive(f, day, Buckets), BucketsAreKept(thSamples, thBucket, f, thNow),
         thBucket.start \in {NoTime, now - (now % BucketLength)}
  PROVE  BucketsAreKept(thSamples \o ValueOf(level), BucketWith(now, level), f, now)
<1> DEFINE start == now - (now % BucketLength)
           value == SummaryOfValues(ValueOf(level))
           bucket == BucketWith(now, level)
<1>1. thBucket.start \in {NoTime, start}
  OBVIOUS
<1>3. bucket = [start |-> start, v |-> IF thBucket.start = start THEN Joined(thBucket.v, value) ELSE value]
  BY DEF BucketWith
<1>4. start \in Nat /\ start <= now
  BY BucketStart
<1>5. ValueOf(level) \in Seq(Int)
  BY ValueType
<1>6. value = SummaryOfValues(ValueOf(level))
  OBVIOUS
<1>7. PICK closed, open : SplitSamples(closed, open, thSamples, thBucket, f)
  BY DEF BucketsAreKept
<1>8. /\ closed \in Seq(Int) /\ open \in Seq(Int) /\ thSamples = closed \o open
      /\ thBucket.v = SummaryOfValues(open)
      /\ thBucket.start = NoTime => open = <<>>
      /\ Cardinality(DOMAIN f) <= Backups["hourly"] => SummarizeAggregate(AllLines(f)) = SummaryOfValues(closed)
  BY <1>7 DEF SplitSamples
<1>9. AllLines(f) \in Seq(Buckets)
  BY AllLinesAre
<1>11. start # NoTime /\ thNow <= now
  BY <1>4 DEF NoTime
<1> HIDE DEF start, value, bucket
<1>12. \A i \in 1 .. Len(AllLines(f)) : AllLines(f)[i].t <= now
  <2> SUFFICES ASSUME NEW i \in 1 .. Len(AllLines(f)) PROVE AllLines(f)[i].t <= now
    OBVIOUS
  <2>3. AllLines(f)[i].t <= thNow
    BY DEF BucketsAreKept
  <2>4. AllLines(f)[i] \in Buckets
    BY <1>9
  <2>5. AllLines(f)[i].t \in Nat
    BY <2>4 DEF Buckets
  <2> QED
    BY <1>11, <2>3, <2>5
<1>13. bucket.start = start /\ bucket.v = SummaryOfValues(open \o ValueOf(level))
  <2>1. CASE thBucket.start = start
    <3>1. bucket.v = Joined(SummaryOfValues(open), SummaryOfValues(ValueOf(level)))
      BY <1>3, <1>6, <1>8, <2>1
    <3>2. Joined(SummaryOfValues(open), SummaryOfValues(ValueOf(level))) = SummaryOfValues(open \o ValueOf(level))
      BY <1>5, <1>8, JoinedIsSummary
    <3> QED
      BY <1>3, <3>1, <3>2
  <2>2. CASE thBucket.start # start
    <3>1. bucket.v = SummaryOfValues(ValueOf(level)) /\ bucket.start = start
      BY <1>3, <1>6, <2>2
    <3>2. open = <<>>
      BY <1>1, <1>8, <2>2
    <3>3. open \o ValueOf(level) = ValueOf(level)
      BY <1>5, <3>2, ConcatEmptySeq
    <3> QED
      BY <3>1, <3>3
  <2> QED
    BY <2>1, <2>2
<1>14. open \o ValueOf(level) \in Seq(Int)
  BY <1>5, <1>8, ConcatProperties
<1>15. Associate(closed, open, ValueOf(level))
  BY <1>5, <1>8, ConcatAssociates
<1>16. SplitSamples(closed, open \o ValueOf(level), thSamples \o ValueOf(level), bucket, f)
  <2>1. thSamples \o ValueOf(level) = closed \o (open \o ValueOf(level))
    BY <1>8, <1>15 DEF Associate
  <2> QED
    BY <1>8, <1>11, <1>13, <1>14, <2>1 DEF SplitSamples
<1>17. bucket \in [start : Nat \cup {NoTime}, v : Summaries] /\ bucket.start <= now
  <2>1. SummaryOfValues(open \o ValueOf(level)) \in Summaries
    BY <1>14, SummaryType
  <2>2. bucket = [start |-> bucket.start, v |-> bucket.v]
    BY <1>3
  <2> QED
    BY <1>4, <1>13, <2>1, <2>2
<1> QED
  BY <1>12, <1>16, <1>17 DEF BucketsAreKept, bucket

\* What is lost with the open bucket are the samples that it stood for.
LEMMA BucketIsLost ==
  ASSUME NEW f, BucketsAreKept(thSamples, thBucket, f, thNow), thNow \in Nat
  PROVE  BucketsAreKept(SubSeq(thSamples, 1, Len(thSamples) - thBucket.v.count), NoBucket, f, thNow)
<1>1. PICK closed, open : SplitSamples(closed, open, thSamples, thBucket, f)
  BY DEF BucketsAreKept
<1>2. /\ closed \in Seq(Int) /\ open \in Seq(Int) /\ thSamples = closed \o open
      /\ thBucket.v = SummaryOfValues(open)
      /\ Cardinality(DOMAIN f) <= Backups["hourly"] => SummarizeAggregate(AllLines(f)) = SummaryOfValues(closed)
  BY <1>1 DEF SplitSamples
<1>3. thBucket.v.count = Len(open)
  BY <1>2, SummaryType
<1> DEFINE s == thSamples
           r == SubSeq(s, 1, Len(s) - Len(open))
<1>4. r = closed
  <2>1. /\ Len(s) = Len(closed) + Len(open) /\ s \in Seq(Int) /\ Len(closed) \in Nat /\ Len(open) \in Nat
        /\ \A i \in 1 .. Len(closed) : s[i] = closed[i]
    <3>1. /\ s \in Seq(Int) /\ Len(s) = Len(closed) + Len(open) /\ Len(closed) \in Nat /\ Len(open) \in Nat
          /\ \A i \in 1 .. (Len(closed) + Len(open)) : s[i] = IF i <= Len(closed) THEN closed[i] ELSE open[i - Len(closed)]
      BY <1>2, ConcatProperties
    <3> QED
      BY <3>1
  <2> HIDE DEF s
  <2>2. Len(s) - Len(open) = Len(closed)
    BY <2>1
  <2>3. r = SubSeq(s, 1, Len(closed))
    BY <2>2
  <2>4. SubSeq(s, 1, Len(closed)) = [i \in 1 .. Len(closed) |-> s[i]]
    BY <2>1
  <2>5. closed = [i \in 1 .. Len(closed) |-> closed[i]]
    BY <1>2
  <2> QED
    BY <2>1, <2>3, <2>4, <2>5
<1> HIDE DEF r, s
<1>5. NoBucket.start = NoTime /\ NoBucket.v = SummaryOfValues(<<>>) /\ NoBucket.start <= thNow
  BY DEF NoBucket, SummaryOfValues, NoTime
<1>6. <<>> \in Seq(Int) /\ closed = closed \o <<>>
  BY <1>2, ConcatEmptySeq
<1>7. SplitSamples(closed, <<>>, closed, NoBucket, f)
  BY <1>2, <1>5, <1>6 DEF SplitSamples
<1>8. NoBucket \in [start : Nat \cup {NoTime}, v : Summaries]
  BY DEF NoBucket, NoSummary, Summary, Summaries
<1>9. BucketsAreKept(closed, NoBucket, f, thNow)
  BY <1>5, <1>7, <1>8 DEF BucketsAreKept
<1> QED
  BY <1>3, <1>4, <1>9 DEF r, s

-----------------------------------------------------------------------------
(* Reading a window back.                                                   *)

\* In a sequence whose times rise the lines from some time on are its last ones.
LEMMA WindowBegins ==
  ASSUME NEW s \in Seq(RawRecords), \A i, j \in 1 .. Len(s) : i < j => s[i].t < s[j].t, NEW w \in Int
  PROVE  \E m \in 0 .. Len(s) : \A i \in 1 .. Len(s) : s[i].t >= w <=> i > m
<1> DEFINE late == {i \in 1 .. Len(s) : s[i].t >= w}
<1>1. Len(s) \in Nat /\ \A i \in 1 .. Len(s) : s[i].t \in Nat
  BY RawTimes
<1>2. CASE late = {}
  <2>1. \A i \in 1 .. Len(s) : s[i].t >= w <=> i > Len(s)
    <3> SUFFICES ASSUME NEW i \in 1 .. Len(s) PROVE ~(s[i].t >= w) /\ ~(i > Len(s))
      OBVIOUS
    <3>1. i \notin late
      BY <1>2
    <3> QED
      BY <1>1, <3>1
  <2>2. Len(s) \in 0 .. Len(s)
    BY <1>1
  <2> HIDE DEF late
  <2> QED
    BY <2>1, <2>2
<1>3. CASE late # {}
  <2>1. late \in SUBSET Nat
    BY <1>1
  <2>2. PICK first \in late : \A i \in late : first <= i
    BY <1>3, <2>1, NatLeast
  <2>3. first \in 1 .. Len(s) /\ s[first].t >= w
    OBVIOUS
  <2>4. ASSUME NEW i \in 1 .. Len(s) PROVE s[i].t >= w <=> i > first - 1
    <3>1. CASE i < first
      <4>1. i \notin late
        BY <1>1, <2>1, <2>2, <3>1
      <4> QED
        BY <1>1, <2>3, <3>1, <4>1
    <3>2. CASE i = first
      BY <2>3, <3>2
    <3>3. CASE i > first
      <4>1. s[first].t < s[i].t
        BY <2>3, <3>3
      <4> QED
        BY <1>1, <2>3, <3>3, <4>1
    <3> QED
      BY <1>1, <2>3, <3>1, <3>2, <3>3
  <2>5. first - 1 \in 0 .. Len(s)
    BY <1>1, <2>3
  <2> QED
    BY <2>4, <2>5
<1> QED
  BY <1>2, <1>3

IsPart(s, a, b) == SubSeq(s, a + 1, b) = [k \in 1 .. (b - a) |-> s[a + k]]

LEMMA PartOf ==
  ASSUME NEW T, NEW s \in Seq(T), NEW b \in 0 .. Len(s), NEW a \in 0 .. b
  PROVE  IsPart(s, a, b)
<1>1. SubSeq(s, a + 1, b) = [k \in 1 .. (b - a) |-> s[a + k]]
  OBVIOUS
<1> QED
  BY <1>1 DEF IsPart

InWindow(s, w) == {i \in DOMAIN s : s[i].t >= w}

LEMMA WindowIsCompleteHolds ==
  ASSUME TrendKept
  PROVE  WindowIsComplete /\ ReadTier("raw", CheckWindow) = Picked(thRaw, InWindow(thRaw, thNow - CheckWindow))
<1> DEFINE lines == AllLines(thFiles["raw"])
           w == thNow - CheckWindow
           Reached(i) == \A j \in i .. Len(lines) : lines[j].t >= w
           places == {i \in DOMAIN lines : Reached(i) /\ lines[i].t <= thNow}
<1>1. /\ thRaw \in Seq(RawRecords) /\ Len(thRaw) \in Nat
      /\ \A i, j \in 1 .. Len(thRaw) : i < j => thRaw[i].t < thRaw[j].t
      /\ \A i \in 1 .. Len(thRaw) : thRaw[i].t <= thNow
  BY DEF TrendKept, RawIsKept
<1>2. PICK lost : OldLines(lost, thRaw, lines, w)
  BY DEF TrendKept, RawIsKept
<1>3. lines \in Seq(RawRecords)
  BY AllLinesAre DEF TrendKept, TierKept
<1>4. w \in Int /\ thNow \in Nat
  BY TrendAssumption DEF TrendKept
<1>5. ReadTier("raw", CheckWindow) = Picked(lines, places)
  BY DEF ReadTier
<1>6. DOMAIN lines = 1 .. Len(lines) /\ Len(lines) \in Nat
  BY <1>3
<1>7. \A i \in 1 .. Len(lines) : i \in places <=> (\A j \in i .. Len(lines) : lines[j].t >= w) /\ lines[i].t <= thNow
  BY <1>6
<1>8. places \subseteq 1 .. Len(lines)
  BY <1>6
<1> HIDE DEF lines, w, places
<1>9. /\ lost \in Seq(RawRecords) /\ thRaw = lost \o lines
      /\ \A i \in 1 .. Len(lost) : lost[i].t < w
  BY <1>2 DEF OldLines
<1>10. /\ Len(thRaw) = Len(lost) + Len(lines) /\ Len(lost) \in Nat
       /\ \A i \in 1 .. (Len(lost) + Len(lines)) : thRaw[i] = IF i <= Len(lost) THEN lost[i] ELSE lines[i - Len(lost)]
  BY <1>3, <1>9, ConcatProperties
<1> DEFINE a == Len(lost)
           n == Len(lines)
<1>11. a \in Nat /\ n \in Nat /\ Len(thRaw) = a + n
  BY <1>6, <1>10
<1>12. \A i \in 1 .. n : a + i \in 1 .. Len(thRaw) /\ thRaw[a + i] = lines[i]
  <2> SUFFICES ASSUME NEW i \in 1 .. n PROVE a + i \in 1 .. Len(thRaw) /\ thRaw[a + i] = lines[i]
    OBVIOUS
  <2>1. a + i \in 1 .. (Len(lost) + Len(lines)) /\ ~(a + i <= Len(lost)) /\ a + i - Len(lost) = i
    BY <1>6, <1>10
  <2> QED
    BY <1>10, <2>1
<1>13. \A i \in 1 .. a : i \in 1 .. Len(thRaw) /\ thRaw[i] = lost[i] /\ lost[i].t < w /\ lost[i].t \in Nat
  <2> SUFFICES ASSUME NEW i \in 1 .. a PROVE i \in 1 .. Len(thRaw) /\ thRaw[i] = lost[i] /\ lost[i].t < w /\ lost[i].t \in Nat
    OBVIOUS
  <2>1. i \in 1 .. (Len(lost) + Len(lines)) /\ i <= Len(lost)
    BY <1>6, <1>10
  <2>2. lost[i].t < w /\ lost[i].t \in Nat
    BY <1>9, RawTimes
  <2> QED
    BY <1>10, <2>1, <2>2
<1> HIDE DEF a, n
<1>14. \A i, j \in 1 .. n : i < j => lines[i].t < lines[j].t
  <2> SUFFICES ASSUME NEW i \in 1 .. n, NEW j \in 1 .. n, i < j PROVE lines[i].t < lines[j].t
    OBVIOUS
  <2>1. a + i < a + j
    BY <1>11
  <2> QED
    BY <1>1, <1>12, <2>1
<1>15. \A i \in 1 .. n : lines[i].t <= thNow
  BY <1>1, <1>12
<1>16. PICK m \in 0 .. n : \A i \in 1 .. n : lines[i].t >= w <=> i > m
  BY <1>3, <1>4, <1>14, WindowBegins DEF n
<1>17. places = (m + 1) .. n
  <2>1. ASSUME NEW i \in 1 .. n, i > m PROVE i \in places
    <3>1. ASSUME NEW j \in i .. n PROVE lines[j].t >= w
      <4>1. j \in 1 .. n /\ j > m
        BY <1>11, <2>1
      <4> QED
        BY <1>16, <4>1
    <3> QED
      BY <1>7, <1>15, <3>1 DEF n
  <2>2. ASSUME NEW i \in places PROVE i \in 1 .. n /\ i > m
    <3>1. i \in 1 .. n
      BY <1>8 DEF n
    <3>2. i \in i .. n
      BY <1>11, <3>1
    <3>3. lines[i].t >= w
      BY <1>7, <3>1, <3>2 DEF n
    <3> QED
      BY <1>16, <3>1, <3>3
  <2>3. \A i : i \in places <=> i \in (m + 1) .. n
    BY <1>11, <2>1, <2>2
  <2> QED
    BY <2>3
<1>18. InWindow(thRaw, w) = (a + m + 1) .. (a + n)
  <2>0. DOMAIN thRaw = 1 .. (a + n)
    BY <1>1, <1>11
  <2>a. \A i \in 1 .. (a + n) : i \in 1 .. a \/ (i - a \in 1 .. n /\ a + (i - a) = i)
    BY <1>11
  <2>1. \A i \in 1 .. (a + n) : thRaw[i].t >= w <=> i >= a + m + 1
    <3> SUFFICES ASSUME NEW i \in 1 .. (a + n) PROVE thRaw[i].t >= w <=> i >= a + m + 1
      OBVIOUS
    <3>1. CASE i \in 1 .. a
      <4>1. ~(i >= a + m + 1)
        BY <1>11, <3>1
      <4>2. thRaw[i].t < w /\ thRaw[i].t \in Nat
        BY <1>13, <3>1
      <4> QED
        BY <1>4, <4>1, <4>2
    <3>2. CASE i - a \in 1 .. n /\ a + (i - a) = i
      <4>1. thRaw[i] = lines[i - a]
        BY <1>12, <3>2
      <4>2. i - a > m <=> i >= a + m + 1
        BY <1>11
      <4> QED
        BY <1>16, <3>2, <4>1, <4>2
    <3> QED
      BY <2>a, <3>1, <3>2
  <2>2. InWindow(thRaw, w) = {i \in 1 .. (a + n) : thRaw[i].t >= w}
    BY <2>0 DEF InWindow
  <2>3. \A i : i \in (a + m + 1) .. (a + n) <=> i \in 1 .. (a + n) /\ i >= a + m + 1
    BY <1>11
  <2> QED
    BY <2>1, <2>2, <2>3
<1>19. Picked(lines, places) = SubSeq(lines, m + 1, n)
  BY <1>3, <1>17, PickedBehind DEF n
<1>20. Picked(thRaw, InWindow(thRaw, w)) = SubSeq(thRaw, a + m + 1, a + n)
  <2>1. a + m \in 0 .. Len(thRaw)
    BY <1>11
  <2>2. Picked(thRaw, (a + m + 1) .. Len(thRaw)) = SubSeq(thRaw, a + m + 1, Len(thRaw))
    BY <1>1, <2>1, PickedBehind
  <2> QED
    BY <1>11, <1>18, <2>2
<1>21. SubSeq(lines, m + 1, n) = SubSeq(thRaw, a + m + 1, a + n)
  <2>1. SubSeq(lines, m + 1, n) = [k \in 1 .. (n - m) |-> lines[m + k]]
    <3>1. m \in 0 .. n /\ n \in 0 .. Len(lines)
      BY <1>11 DEF n
    <3>2. IsPart(lines, m, n)
      BY <1>3, <3>1, PartOf
    <3> QED
      BY <3>2 DEF IsPart
  <2> DEFINE c == a + m
             d == a + n
  <2>2. c \in 0 .. d /\ d \in 0 .. Len(thRaw) /\ d - c = n - m
    BY <1>11
  <2>3. ASSUME NEW k \in 1 .. (n - m) PROVE thRaw[c + k] = lines[m + k]
    <3>1. m + k \in 1 .. n /\ a + (m + k) = c + k
      BY <1>11
    <3> QED
      BY <1>12, <3>1
  <2> HIDE DEF c, d
  <2>4. IsPart(thRaw, c, d)
    BY <1>1, <2>2, PartOf
  <2>5. SubSeq(thRaw, c + 1, d) = [k \in 1 .. (n - m) |-> thRaw[c + k]]
    BY <2>2, <2>4 DEF IsPart
  <2>6. SubSeq(lines, m + 1, n) = SubSeq(thRaw, c + 1, d)
    BY <2>1, <2>3, <2>5
  <2> QED
    BY <2>6 DEF c, d
<1>22. ReadTier("raw", CheckWindow) = Picked(thRaw, InWindow(thRaw, w))
  BY <1>5, <1>19, <1>20, <1>21
<1>23. InWindow(thRaw, w) = {i \in DOMAIN thRaw : thRaw[i].t >= thNow - CheckWindow}
  BY DEF InWindow, w
<1> QED
  BY <1>22, <1>23 DEF WindowIsComplete, w

-----------------------------------------------------------------------------
(* What the checks and the views make of what they read.                    *)

IsRead(points, at) ==
  /\ points \in Seq(RawRecords)
  /\ at \in [1 .. Len(points) -> InWindow(thRaw, thNow - CheckWindow)]
  /\ \A i, j \in 1 .. Len(points) : i < j => at[i] < at[j]
  /\ \A i \in 1 .. Len(points) : points[i] = thRaw[at[i]] /\ points[i].v # 0

\* The points are raw lines with a value, in order.
LEMMA PointsAreRead ==
  ASSUME TrendKept
  PROVE  \E at : IsRead(Points(ReadTier("raw", CheckWindow)), at)
<1> DEFINE P == InWindow(thRaw, thNow - CheckWindow)
           read == ReadTier("raw", CheckWindow)
           Q == {i \in DOMAIN read : read[i].v # 0}
           points == Points(read)
<1>1. thRaw \in Seq(RawRecords) /\ P \in SUBSET (1 .. Len(thRaw))
  BY DEF TrendKept, RawIsKept, InWindow
<1>2. read = Picked(thRaw, P)
  BY WindowIsCompleteHolds
<1>3. points = Picked(read, Q)
  BY DEF Points
<1> DEFINE p == InOrder(P)
           q == InOrder(Q)
           n == Cardinality(P)
           m == Cardinality(Q)
<1> HIDE DEF P, read, points, p, n
<1>4. /\ read \in Seq(RawRecords) /\ Len(read) = n /\ n \in Nat
      /\ Ascends(p, P, n)
      /\ \A k \in 1 .. n : read[k] = thRaw[p[k]]
  BY <1>1, <1>2, PickedInOrder DEF p, n
<1>5. Q \in SUBSET (1 .. Len(read)) /\ \A i \in Q : read[i].v # 0
  BY <1>4
<1> HIDE DEF Q, q, m
<1>6. /\ points \in Seq(RawRecords) /\ Len(points) = m /\ m \in Nat
      /\ Ascends(q, Q, m)
      /\ \A k \in 1 .. m : points[k] = read[q[k]]
  BY <1>3, <1>4, <1>5, PickedInOrder DEF q, m
<1>7. p \in [1 .. n -> P] /\ \A i, j \in 1 .. n : i < j => p[i] < p[j]
  BY <1>4 DEF Ascends
<1>8. q \in [1 .. m -> Q] /\ \A i, j \in 1 .. m : i < j => q[i] < q[j]
  BY <1>6 DEF Ascends
<1>9. \A k \in 1 .. m : q[k] \in Q /\ q[k] \in 1 .. n
  BY <1>4, <1>5, <1>8
<1> DEFINE at == [k \in 1 .. m |-> p[q[k]]]
<1>10. \A k \in 1 .. m : at[k] = p[q[k]] /\ at[k] \in P
  BY <1>7, <1>9
<1>11. at \in [1 .. m -> P]
  BY <1>10
<1> HIDE DEF at
<1>12. \A i, j \in 1 .. m : i < j => at[i] < at[j]
  BY <1>7, <1>8, <1>9, <1>10
<1>13. \A i \in 1 .. m : points[i] = thRaw[at[i]] /\ points[i].v # 0
  <2> SUFFICES ASSUME NEW i \in 1 .. m PROVE points[i] = thRaw[at[i]] /\ points[i].v # 0
    OBVIOUS
  <2>1. points[i] = read[q[i]] /\ read[q[i]].v # 0
    BY <1>5, <1>6, <1>9
  <2>2. read[q[i]] = thRaw[at[i]]
    BY <1>4, <1>9, <1>10
  <2> QED
    BY <2>1, <2>2
<1>14. IsRead(points, at)
  BY <1>6, <1>11, <1>12, <1>13 DEF IsRead, P
<1> QED
  BY <1>14 DEF points, read

\* What is true of the places of two points is true of their lines.
LEMMA PointsFacts ==
  ASSUME TrendKept, NEW points, NEW at, IsRead(points, at)
  PROVE  /\ Len(points) \in Nat
         /\ \A i \in 1 .. Len(points) :
              /\ points[i].t \in Nat /\ points[i].v \in Int /\ points[i].v # 0
              /\ at[i] \in DOMAIN thRaw /\ points[i] = thRaw[at[i]] /\ points[i].t >= thNow - CheckWindow
         /\ \A i, j \in 1 .. Len(points) : i < j => at[i] < at[j] /\ points[i].t < points[j].t
<1> DEFINE P == InWindow(thRaw, thNow - CheckWindow)
           n == Len(points)
<1>1. /\ thRaw \in Seq(RawRecords)
      /\ \A i, j \in 1 .. Len(thRaw) : i < j => thRaw[i].t < thRaw[j].t
  BY DEF TrendKept, RawIsKept
<1>2. \A i \in P : i \in DOMAIN thRaw /\ i \in 1 .. Len(thRaw) /\ thRaw[i].t >= thNow - CheckWindow
  BY <1>1 DEF InWindow
<1> HIDE DEF P
<1>3. /\ points \in Seq(RawRecords) /\ at \in [1 .. n -> P]
      /\ \A i, j \in 1 .. n : i < j => at[i] < at[j]
      /\ \A i \in 1 .. n : points[i] = thRaw[at[i]] /\ points[i].v # 0
  BY DEF IsRead, P
<1>4. n \in Nat /\ \A i \in 1 .. n : points[i].t \in Nat /\ points[i].v \in Int
  BY <1>3, RawTimes
<1> HIDE DEF n
<1>5. \A i \in 1 .. n : at[i] \in P
  BY <1>3
<1>6. \A i \in 1 .. n : at[i] \in DOMAIN thRaw /\ at[i] \in 1 .. Len(thRaw) /\ points[i].t >= thNow - CheckWindow
  BY <1>2, <1>3, <1>5
<1>7. \A i, j \in 1 .. n : i < j => at[i] < at[j] /\ points[i].t < points[j].t
  BY <1>1, <1>3, <1>6
<1> QED
  BY <1>3, <1>4, <1>6, <1>7 DEF n

LEMMA CrossingFoundHolds ==
  ASSUME TrendKept
  PROVE  CrossingFound
<1> DEFINE points == Points(ReadTier("raw", CheckWindow))
<1>1. PICK at : IsRead(points, at)
  BY PointsAreRead
<1> HIDE DEF points
<1> DEFINE n == Len(points)
<1>2. /\ n \in Nat
      /\ \A i \in 1 .. n : points[i].t \in Nat /\ points[i].v \in Int
      /\ \A i, j \in 1 .. n : i < j => points[i].t < points[j].t
  BY <1>1, PointsFacts
<1>3. DOMAIN points = 1 .. n
  BY <1>1 DEF IsRead
<1> HIDE DEF n
<1>4. ASSUME NEW threshold \in Levels, NEW i \in 1 .. n, NEW j \in 1 .. n,
             i < j, points[i].v >= threshold, points[j].v < threshold
      PROVE  \E t \in FindCrossings(points, threshold) : points[i].t < t /\ t <= points[j].t
  <2> DEFINE below == {k \in 1 .. n : k > i /\ points[k].v < threshold}
  <2>1. below \in SUBSET Nat /\ j \in below
    BY <1>2, <1>4
  <2>2. PICK k \in below : \A l \in below : k <= l
    BY <2>1, NatLeast
  <2>3. k \in 1 .. n /\ k > i /\ points[k].v < threshold /\ k <= j
    BY <2>1, <2>2
  <2>4. k - 1 \in 1 .. n /\ k - 1 >= i /\ k - 1 \notin below /\ k > 1
    BY <1>2, <2>2, <2>3
  <2>5. threshold \in Int
    BY TrendAssumption
  <2>6. points[k - 1].v >= threshold
    <3>1. CASE k - 1 = i
      BY <1>4, <3>1
    <3>2. CASE k - 1 # i
      <4>1. k - 1 > i
        BY <1>2, <2>3, <2>4, <3>2
      <4>2. ~(points[k - 1].v < threshold)
        BY <2>4, <4>1
      <4> QED
        BY <1>2, <2>4, <2>5, <4>2
    <3> QED
      BY <3>1, <3>2
  <2> HIDE DEF below
  <2>7. points[k].t \in FindCrossings(points, threshold)
    BY <1>3, <2>3, <2>4, <2>6 DEF FindCrossings, CrossedBelow
  <2>8. points[i].t < points[k].t
    BY <1>2, <2>3
  <2>9. points[k].t <= points[j].t
    <3>1. CASE k = j
      BY <1>2, <3>1
    <3>2. CASE k # j
      <4>1. k < j
        BY <1>2, <2>3, <3>2
      <4>2. points[k].t < points[j].t /\ points[k].t \in Nat /\ points[j].t \in Nat
        BY <1>2, <2>3, <4>1
      <4> QED
        BY <4>2
    <3> QED
      BY <3>1, <3>2
  <2> QED
    BY <2>7, <2>8, <2>9
<1> QED
  BY <1>3, <1>4 DEF CrossingFound, points

\* The sum of the squares about any centre is no more than the distances from it allow.
LEMMA SquaresAboutCentre ==
  ASSUME NEW values \in Seq(Int), NEW c \in Int, NEW limit \in Nat,
         \A i \in 1 .. Len(values) : values[i] - c \in -limit .. limit
  PROVE  /\ Total(values) \in Int /\ Total(Squares(values)) \in Int
         /\ Total(Squares(values)) - 2 * (c * Total(values)) + Len(values) * (c * c) <= Len(values) * (limit * limit)
<1> DEFINE n == Len(values)
           squares == Squares(values)
           cc == c * c
           ll == limit * limit
<1>1. n \in Nat /\ cc \in Int /\ ll \in Int /\ \A i \in 1 .. n : values[i] \in Int
  OBVIOUS
<1>2. squares \in Seq(Int) /\ Len(squares) = n /\ \A i \in 1 .. n : squares[i] = values[i] * values[i]
  BY <1>1 DEF Squares
<1>3. PICK f : Totals(f, values)
  BY TotalExists
<1>4. PICK g : Totals(g, squares)
  <2> HIDE DEF squares
  <2> QED
    BY <1>2, TotalExists
<1>5. Total(values) = f[n] /\ f[n] \in Int
  BY <1>3, TotalIs
<1>6. Total(squares) = g[n] /\ g[n] \in Int
  <2> HIDE DEF squares
  <2> QED
    BY <1>2, <1>4, TotalIs
<1>7. ASSUME NEW i \in 1 .. n PROVE squares[i] - 2 * (c * values[i]) + cc <= ll
  <2> DEFINE d == values[i] - c
  <2>1. d \in -limit .. limit /\ values[i] \in Int /\ values[i] = c + d
    BY <1>1
  <2> HIDE DEF d
  <2>2. d * d <= ll
    <3>1. (limit - d) * (limit + d) >= 0
      <4> DEFINE x == limit - d
                 y == limit + d
      <4>1. x \in Nat /\ y \in Nat
        BY <2>1
      <4> HIDE DEF x, y
      <4>2. x * y >= 0
        BY <4>1
      <4> QED
        BY <4>2 DEF x, y
    <3>2. (limit - d) * (limit + d) = ll - d * d
      BY <2>1
    <3> QED
      BY <2>1, <3>1, <3>2
  <2>3. values[i] * values[i] - 2 * (c * values[i]) + cc = d * d
    BY <2>1
  <2> QED
    BY <1>2, <2>2, <2>3
<1>8. /\ f \in [0 .. n -> Int] /\ f[0] = 0 /\ \A k \in 1 .. n : f[k] = f[k - 1] + values[k]
      /\ g \in [0 .. n -> Int] /\ g[0] = 0 /\ \A k \in 1 .. n : g[k] = g[k - 1] + squares[k]
  BY <1>2, <1>3, <1>4 DEF Totals
<1>9. \A i \in 1 .. n : squares[i] \in Int
  BY <1>2
<1> HIDE DEF n, squares, cc, ll
<1> DEFINE P == {k \in Nat : k <= n => g[k] - 2 * (c * f[k]) + k * cc <= k * ll}
<1>10. 0 \in P
  BY <1>1, <1>8
<1>11. ASSUME NEW k \in P PROVE k + 1 \in P
  <2> SUFFICES ASSUME k + 1 <= n PROVE g[k + 1] - 2 * (c * f[k + 1]) + (k + 1) * cc <= (k + 1) * ll
    OBVIOUS
  <2>1. k \in Nat /\ k + 1 \in 1 .. n /\ (k + 1) - 1 = k /\ k \in 0 .. n /\ g[k] - 2 * (c * f[k]) + k * cc <= k * ll
    BY <1>1
  <2> HIDE DEF P
  <2>2. /\ f[k + 1] = f[k] + values[k + 1] /\ g[k + 1] = g[k] + squares[k + 1]
        /\ f[k] \in Int /\ g[k] \in Int /\ values[k + 1] \in Int /\ squares[k + 1] \in Int
    BY <1>1, <1>8, <1>9, <2>1
  <2>3. squares[k + 1] - 2 * (c * values[k + 1]) + cc <= ll
    BY <1>7, <2>1
  <2>4. c * f[k + 1] = c * f[k] + c * values[k + 1]
    BY <2>2
  <2>5. (k + 1) * cc = k * cc + cc /\ (k + 1) * ll = k * ll + ll
    BY <1>1, <2>1
  <2> DEFINE u == c * f[k]
             v == c * values[k + 1]
             kc == k * cc
             kl == k * ll
  <2>6. u \in Int /\ v \in Int /\ kc \in Int /\ kl \in Int
    <3>1. k \in Int /\ cc \in Int /\ ll \in Int /\ c \in Int /\ f[k] \in Int /\ values[k + 1] \in Int
      BY <1>1, <2>1, <2>2
    <3>2. \A x, y \in Int : x * y \in Int
      OBVIOUS
    <3> QED
      BY <3>1, <3>2
  <2>7. /\ g[k] - 2 * u + kc <= kl /\ squares[k + 1] - 2 * v + cc <= ll
        /\ c * f[k + 1] = u + v /\ (k + 1) * cc = kc + cc /\ (k + 1) * ll = kl + ll
    BY <2>1, <2>3, <2>4, <2>5
  <2>8. /\ g[k] \in Int /\ squares[k + 1] \in Int /\ cc \in Int /\ ll \in Int
        /\ g[k + 1] = g[k] + squares[k + 1]
    BY <1>1, <2>2
  <2> DEFINE before == g[k]
             more == squares[k + 1]
  <2>9. before \in Int /\ more \in Int /\ g[k + 1] = before + more /\ before - 2 * u + kc <= kl /\ more - 2 * v + cc <= ll
    BY <2>7, <2>8
  <2> HIDE DEF u, v, kc, kl, before, more
  <2>10. (before + more) - 2 * (u + v) + (kc + cc) <= kl + ll
    BY <2>6, <2>8, <2>9
  <2> QED
    BY <2>7, <2>9, <2>10
<1>12. n \in P
  <2> HIDE DEF P
  <2>1. P \in SUBSET Nat
    BY DEF P
  <2> QED
    BY <1>1, <1>10, <1>11, <2>1, NatInd
<1>13. g[n] - 2 * (c * f[n]) + n * cc <= n * ll
  BY <1>1, <1>12
<1> QED
  BY <1>5, <1>6, <1>13 DEF n, squares, cc, ll

\* A standard deviation above a limit takes two values farther apart than that limit.
LEMMA DeviationNeedsDistance ==
  ASSUME NEW values \in Seq(Int), Deviates(values)
  PROVE  \E i, j \in 1 .. Len(values) : values[i] - values[j] > StdLimit
<1> DEFINE n == Len(values)
           s == Total(values)
           q == Total(Squares(values))
<1>1. n \in Nat /\ StdLimit \in Nat /\ \A i \in 1 .. n : values[i] \in Int
  BY TrendAssumption
<1>2. n * q - s * s > (n * StdLimit) * (n * StdLimit)
  BY DEF Deviates
<1> SUFFICES ASSUME \A i, j \in 1 .. n : ~(values[i] - values[j] > StdLimit) PROVE FALSE
  OBVIOUS
<1> DEFINE c == IF n = 0 THEN 0 ELSE values[1]
<1>3. c \in Int /\ \A i \in 1 .. n : values[i] - c \in -StdLimit .. StdLimit
  <2>1. CASE n = 0
    BY <1>1, <2>1
  <2>2. CASE n # 0
    <3>1. 1 \in 1 .. n /\ c = values[1]
      BY <1>1, <2>2
    <3>2. ASSUME NEW i \in 1 .. n PROVE values[i] - c \in -StdLimit .. StdLimit
      <4>1. ~(values[i] - values[1] > StdLimit) /\ ~(values[1] - values[i] > StdLimit)
        BY <3>1
      <4> QED
        BY <1>1, <3>1, <4>1
    <3> QED
      BY <1>1, <3>1, <3>2
  <2> QED
    BY <2>1, <2>2
<1> HIDE DEF c
<1>4. s \in Int /\ q \in Int /\ q - 2 * (c * s) + n * (c * c) <= n * (StdLimit * StdLimit)
  BY <1>1, <1>3, SquaresAboutCentre
<1> HIDE DEF n, s, q
<1> DEFINE a == q - 2 * (c * s) + n * (c * c)
           b == n * (StdLimit * StdLimit)
           e == s - n * c
<1>5. a \in Int /\ b \in Int /\ e \in Int /\ a <= b
  BY <1>1, <1>3, <1>4
<1>6. n * q - s * s = n * a - e * e
  BY <1>1, <1>3, <1>4
<1>7. (n * StdLimit) * (n * StdLimit) = n * b
  BY <1>1
<1> HIDE DEF a, b, e
<1>8. n * a <= n * b
  BY <1>1, <1>5
<1>9. e * e >= 0
  BY <1>5
<1> DEFINE na == n * a
           nb == n * b
           ee == e * e
<1>10. na \in Int /\ nb \in Int /\ ee \in Int
  <2>1. \A x, y \in Int : x * y \in Int
    OBVIOUS
  <2> QED
    BY <1>1, <1>5, <2>1
<1>11. na - ee > nb /\ na <= nb /\ ee >= 0
  BY <1>2, <1>6, <1>7, <1>8, <1>9
<1> HIDE DEF na, nb, ee
<1> QED
  BY <1>10, <1>11

\* What a failed check says of two points, with the words of NoFalseAlarm.
LEMMA AlarmsRestOnPoints ==
  ASSUME TrendKept, NEW points, NEW at, IsRead(points, at)
  PROVE  /\ Consumption(points) = "failed" =>
              \E i, j \in 1 .. Len(points) :
                i < j /\ points[i].v - points[j].v > RateLimit * (points[j].t - points[i].t)
         /\ Stability(points) = "failed" =>
              \E i, j \in 1 .. Len(points) :
                points[i].v - points[j].v > RangeLimit \/ points[i].v - points[j].v > StdLimit
<1> DEFINE n == Len(points)
<1>1. /\ n \in Nat /\ \A i \in 1 .. n : points[i].v \in Int
  BY PointsFacts
<1>2. points \in Seq(RawRecords)
  BY DEF IsRead
<1>3. ASSUME Consumption(points) = "failed"
      PROVE  \E i, j \in 1 .. n : i < j /\ points[i].v - points[j].v > RateLimit * (points[j].t - points[i].t)
  <2>1. ~(n < 2) /\ points[1].v - points[n].v > RateLimit * (points[n].t - points[1].t)
    BY <1>3 DEF Consumption
  <2>2. 1 \in 1 .. n /\ n \in 1 .. n /\ 1 < n
    BY <1>1, <2>1
  <2> QED
    BY <2>1, <2>2
<1>4. ASSUME Stability(points) = "failed"
      PROVE  \E i, j \in 1 .. n : points[i].v - points[j].v > RangeLimit \/ points[i].v - points[j].v > StdLimit
  <2> DEFINE values == Values(points)
             s == SummaryOfValues(values)
  <2>1. values \in Seq(Int) /\ Len(values) = n /\ \A i \in 1 .. n : values[i] = points[i].v
    BY <1>1, <1>2 DEF Values
  <2>a. s.count # 0 /\ (s.max - s.min > RangeLimit \/ Deviates(values))
    BY <1>4 DEF Stability
  <2>b. CASE Deviates(values)
    <3> HIDE DEF values
    <3>1. \E i, j \in 1 .. Len(values) : values[i] - values[j] > StdLimit
      BY <2>1, <2>b, DeviationNeedsDistance
    <3> QED
      BY <2>1, <3>1
  <2> SUFFICES ASSUME s.max - s.min > RangeLimit
               PROVE  \E i, j \in 1 .. n : points[i].v - points[j].v > RangeLimit
    BY <2>a, <2>b
  <2>2. s.count # 0 /\ s.max - s.min > RangeLimit
    BY <2>a
  <2>3. s.count = Len(values)
    BY <2>1, SummaryType
  <2> HIDE DEF values
  <2>4. values # <<>>
    BY <2>1, <2>2, <2>3
  <2>5. s.max = Max(ToSet(values)) /\ s.min = Min(ToSet(values))
    BY <2>4 DEF SummaryOfValues, Summary
  <2>6. Max(ToSet(values)) \in ToSet(values) /\ Min(ToSet(values)) \in ToSet(values)
    BY <2>1, <2>4, ExtremesOf
  <2>7. ToSet(values) = {values[i] : i \in 1 .. n}
    BY <2>1 DEF ToSet
  <2> HIDE DEF s
  <2>8. PICK i \in 1 .. n : values[i] = s.max
    BY <2>5, <2>6, <2>7
  <2>9. PICK j \in 1 .. n : values[j] = s.min
    BY <2>5, <2>6, <2>7
  <2>10. points[i].v - points[j].v > RangeLimit
    BY <2>1, <2>2, <2>8, <2>9
  <2> QED
    BY <2>10
<1> QED
  BY <1>3, <1>4

LEMMA ChecksAreRight ==
  ASSUME TrendKept, RunChecks
  PROVE  NoFalseAlarm'
<1> DEFINE points == Points(ReadTier("raw", CheckWindow))
           checked == {i \in DOMAIN thRaw : thRaw[i].v # 0 /\ thRaw[i].t >= thNow - CheckWindow}
<1>1. PICK at : IsRead(points, at)
  BY PointsAreRead
<1>2. thConditions' = ConditionsFor(Outcomes(points)) /\ thCheckedAt' = thNow /\ thRaw' = thRaw
  BY DEF RunChecks
<1> HIDE DEF points
<1> DEFINE n == Len(points)
<1>3. /\ n \in Nat
      /\ \A i \in 1 .. n : at[i] \in checked /\ points[i] = thRaw[at[i]]
      /\ \A i, j \in 1 .. n : i < j => at[i] < at[j]
  BY <1>1, PointsFacts
<1>4. /\ Consumption(points) = "failed" =>
           \E i, j \in 1 .. n : i < j /\ points[i].v - points[j].v > RateLimit * (points[j].t - points[i].t)
      /\ Stability(points) = "failed" =>
           \E i, j \in 1 .. n : points[i].v - points[j].v > RangeLimit \/ points[i].v - points[j].v > StdLimit
  BY <1>1, AlarmsRestOnPoints
<1>5. /\ "consumption" \in thConditions' => Consumption(points) = "failed"
      /\ "stability" \in thConditions' => Stability(points) = "failed"
  BY <1>2 DEF ConditionsFor, Outcomes, Judged
<1>6. NoFalseAlarm' <=>
        /\ "consumption" \in thConditions' =>
             \E i, j \in checked : i < j /\ thRaw[i].v - thRaw[j].v > RateLimit * (thRaw[j].t - thRaw[i].t)
        /\ "stability" \in thConditions' =>
             \E i, j \in checked :
               thRaw[i].v - thRaw[j].v > RangeLimit \/ thRaw[i].v - thRaw[j].v > StdLimit
  BY <1>2 DEF NoFalseAlarm
<1> HIDE DEF n, checked
<1>7. ASSUME "consumption" \in thConditions'
      PROVE  \E i, j \in checked : i < j /\ thRaw[i].v - thRaw[j].v > RateLimit * (thRaw[j].t - thRaw[i].t)
  <2>1. PICK i, j \in 1 .. n : i < j /\ points[i].v - points[j].v > RateLimit * (points[j].t - points[i].t)
    BY <1>4, <1>5, <1>7
  <2>2. at[i] \in checked /\ at[j] \in checked /\ at[i] < at[j] /\ points[i] = thRaw[at[i]] /\ points[j] = thRaw[at[j]]
    BY <1>3, <2>1
  <2> QED
    BY <2>1, <2>2
<1>8. ASSUME "stability" \in thConditions'
      PROVE  \E i, j \in checked :
               thRaw[i].v - thRaw[j].v > RangeLimit \/ thRaw[i].v - thRaw[j].v > StdLimit
  <2>1. PICK i, j \in 1 .. n : points[i].v - points[j].v > RangeLimit \/ points[i].v - points[j].v > StdLimit
    BY <1>4, <1>5, <1>8
  <2>2. at[i] \in checked /\ at[j] \in checked /\ points[i] = thRaw[at[i]] /\ points[j] = thRaw[at[j]]
    BY <1>3, <2>1
  <2> QED
    BY <2>1, <2>2
<1> QED
  BY <1>6, <1>7, <1>8

LEMMA AggregateIsExactHolds ==
  ASSUME TrendKept
  PROVE  AggregateIsExact
<1> DEFINE files == thFiles["hourly"]
           lines == AllLines(files)
           w == thNow - TrendHorizon
           places == {i \in DOMAIN lines : (\A j \in i .. Len(lines) : lines[j].t >= w) /\ lines[i].t <= thNow}
<1>1. lines \in Seq(Buckets)
  BY AllLinesAre DEF TrendKept, TierKept
<1>2. thNow \in Nat /\ w \in Int /\ w <= 0
  BY TrendAssumption DEF TrendKept
<1>3. \A i \in 1 .. Len(lines) : lines[i].t <= thNow
  BY DEF TrendKept, BucketsAreKept
<1>4. ReadTier("hourly", TrendHorizon) = Picked(lines, places)
  BY DEF ReadTier
<1>5. PICK closed, open : SplitSamples(closed, open, thSamples, thBucket, files)
  BY DEF TrendKept, BucketsAreKept
<1> HIDE DEF w
<1>6. places = 1 .. Len(lines)
  <2> HIDE DEF lines
  <2>1. Len(lines) \in Nat /\ DOMAIN lines = 1 .. Len(lines) /\ \A i \in 1 .. Len(lines) : lines[i] \in Buckets
    BY <1>1
  <2>2. \A i \in 1 .. Len(lines) : lines[i].t \in Nat
    BY <2>1 DEF Buckets
  <2>3. \A i \in 1 .. Len(lines) : lines[i].t >= w
    BY <1>2, <2>2
  <2>4. \A i \in 1 .. Len(lines) : \A j \in i .. Len(lines) : lines[j].t >= w
    <3> SUFFICES ASSUME NEW i \in 1 .. Len(lines), NEW j \in i .. Len(lines) PROVE lines[j].t >= w
      OBVIOUS
    <3>1. j \in 1 .. Len(lines)
      BY <2>1
    <3> QED
      BY <2>3, <3>1
  <2> QED
    BY <1>3, <2>1, <2>4
<1> HIDE DEF places, lines
<1>7. Picked(lines, places) = lines
  <2>1. 0 \in 0 .. Len(lines) /\ 0 + 1 = 1
    BY <1>1
  <2>2. Picked(lines, (0 + 1) .. Len(lines)) = SubSeq(lines, 0 + 1, Len(lines))
    BY <1>1, <2>1, PickedBehind
  <2>3. SubSeq(lines, 1, Len(lines)) = lines
    BY <1>1
  <2> QED
    BY <1>6, <2>1, <2>2, <2>3
<1>8. ASSUME Cardinality(DOMAIN files) <= Backups["hourly"]
      PROVE  Joined(SummarizeAggregate(lines), thBucket.v) = SummaryOfValues(thSamples)
  <2>1. /\ closed \in Seq(Int) /\ open \in Seq(Int) /\ thSamples = closed \o open
        /\ thBucket.v = SummaryOfValues(open) /\ SummarizeAggregate(lines) = SummaryOfValues(closed)
    BY <1>5, <1>8 DEF SplitSamples, lines
  <2>2. Joined(SummaryOfValues(closed), SummaryOfValues(open)) = SummaryOfValues(closed \o open)
    BY <2>1, JoinedIsSummary
  <2> QED
    BY <2>1, <2>2
<1> QED
  BY <1>4, <1>7, <1>8 DEF AggregateIsExact

-----------------------------------------------------------------------------
(* The steps.                                                               *)

LEMMA TrendBegins ==
  ASSUME TrendInit
  PROVE  TrendKept
<1> DEFINE empty == [name \in {Live} |-> <<>>]
<1>1. /\ thNow = 0 /\ thFiles = [t \in Tiers |-> empty] /\ thDay = [t \in Tiers |-> DayOf(t, 0)]
      /\ thBucket = NoBucket /\ thConditions = {} /\ thCheckedAt = 0 /\ thRaw = <<>> /\ thSamples = <<>>
  BY DEF TrendInit
<1>2. /\ thFiles["raw"] = empty /\ thFiles["hourly"] = empty
      /\ thDay["raw"] = DayOf("raw", 0) /\ thDay["hourly"] = DayOf("hourly", 0)
  BY <1>1 DEF Tiers
<1>3. DOMAIN empty = {Live} /\ empty[Live] = <<>>
  OBVIOUS
<1>4. Dated(empty) = {}
  BY <1>3 DEF Dated
<1>5. ASSUME NEW T PROVE empty \in [DOMAIN empty -> Seq(T)]
  BY <1>3
<1> HIDE DEF empty
<1>6. ASSUME NEW T, NEW tier \in Tiers PROVE TierKept(tier, empty, DayOf(tier, 0), 0, T)
  <2>1. DayOf(tier, 0) \in Nat \ {0}
    BY DaysRise
  <2>2. IsFiniteSet({Live}) /\ {Live} \in SUBSET Nat
    <3>1. IsFiniteSet({Live})
      BY FS_Singleton
    <3> QED
      BY <3>1 DEF Live
  <2>3. Cardinality({}) = 0
    BY FS_EmptySet
  <2>4. Backups[tier] \in Nat
    BY TrendAssumption
  <2>5. Archive(empty, DayOf(tier, 0), T)
    BY <1>3, <1>4, <1>5, <2>1, <2>2 DEF Archive
  <2> QED
    BY <1>4, <2>1, <2>3, <2>4, <2>5 DEF TierKept
<1>7. ASSUME NEW T PROVE AllLines(empty) = <<>>
  <2>1. Archive(empty, DayOf("raw", 0), T)
    BY <1>6 DEF TierKept, Tiers
  <2>2. AllLines(empty) = Stacked(empty, Dated(empty)) \o empty[Live]
    BY <2>1, AllLinesAre
  <2>3. Stacked(empty, {}) = <<>>
    <3>1. InOrder({}) = <<>>
      <4>1. InOrder({}) \in [1 .. Cardinality({}) -> {}]
        BY FS_EmptySet, InOrderAscends DEF Ascends
      <4>2. InOrder({}) \in [{} -> {}]
        BY <4>1, FS_EmptySet
      <4> QED
        BY <4>2
    <3>2. Blocks(empty, {}) = <<>>
      BY <3>1 DEF Blocks
    <3> QED
      BY <3>2 DEF Stacked, FlattenSeq
  <2> QED
    BY <1>3, <1>4, <2>2, <2>3
<1>8. AllLines(empty) = <<>>
  BY <1>7
<1>9. TierKept("raw", thFiles["raw"], thDay["raw"], thNow, RawRecords)
  BY <1>1, <1>2, <1>6 DEF Tiers
<1>10. TierKept("hourly", thFiles["hourly"], thDay["hourly"], thNow, Buckets)
  BY <1>1, <1>2, <1>6 DEF Tiers
<1>11. InTheirDays(thFiles["raw"], thDay["raw"])
  BY <1>2, <1>3, <1>4 DEF InTheirDays
<1>12. RawIsKept(thRaw, AllLines(thFiles["raw"]), thNow)
  <2>1. OldLines(<<>>, <<>>, <<>>, thNow - CheckWindow)
    <3>1. <<>> \in Seq(RawRecords) /\ <<>> = <<>> \o <<>>
      BY ConcatEmptySeq
    <3> QED
      BY <3>1 DEF OldLines
  <2>2. thRaw = <<>> /\ AllLines(thFiles["raw"]) = <<>> /\ Len(<<>>) = 0 /\ <<>> \in Seq(RawRecords)
    BY <1>1, <1>2, <1>8
  <2> QED
    BY <2>1, <2>2 DEF RawIsKept
<1>13. BucketsAreKept(thSamples, thBucket, thFiles["hourly"], thNow)
  <2>1. NoBucket.start = NoTime /\ NoBucket.v = SummaryOfValues(<<>>) /\ NoBucket.start <= thNow
    BY <1>1 DEF NoBucket, SummaryOfValues, NoTime
  <2>2. <<>> \in Seq(Int) /\ <<>> = <<>> \o <<>>
    BY ConcatEmptySeq
  <2>3. SummarizeAggregate(AllLines(empty)) = SummaryOfValues(<<>>)
    BY <1>8, AggregateEmpty DEF SummaryOfValues
  <2>4. SplitSamples(<<>>, <<>>, thSamples, thBucket, thFiles["hourly"])
    BY <1>1, <1>2, <2>1, <2>2, <2>3 DEF SplitSamples
  <2>5. NoBucket \in [start : Nat \cup {NoTime}, v : Summaries]
    BY DEF NoBucket, NoSummary, Summary, Summaries
  <2>6. Len(AllLines(thFiles["hourly"])) = 0
    BY <1>2, <1>8
  <2> QED
    BY <1>1, <2>1, <2>4, <2>5, <2>6 DEF BucketsAreKept
<1>14. NoFalseAlarm
  BY <1>1 DEF NoFalseAlarm
<1>15. thNow \in 0 .. TrendHorizon
  BY <1>1, TrendAssumption
<1> QED
  BY <1>9, <1>10, <1>11, <1>12, <1>13, <1>14, <1>15 DEF TrendKept

\* More lines do not take an alarm's ground away.
LEMMA AlarmsStay ==
  ASSUME TrendKept, NEW record \in RawRecords,
         thRaw' = thRaw \/ thRaw' = Append(thRaw, record),
         thConditions' \subseteq thConditions, thCheckedAt' = thCheckedAt
  PROVE  NoFalseAlarm'
<1> DEFINE checked == {i \in DOMAIN thRaw : thRaw[i].v # 0 /\ thRaw[i].t >= thCheckedAt - CheckWindow}
           later == {i \in DOMAIN thRaw' : thRaw'[i].v # 0 /\ thRaw'[i].t >= thCheckedAt - CheckWindow}
<1>1. thRaw \in Seq(RawRecords)
  BY DEF TrendKept, RawIsKept
<1>2. \A i \in DOMAIN thRaw : i \in DOMAIN thRaw' /\ thRaw'[i] = thRaw[i]
  <2>1. CASE thRaw' = thRaw
    BY <2>1
  <2>2. CASE thRaw' = Append(thRaw, record)
    <3>1. /\ Len(thRaw') = Len(thRaw) + 1 /\ thRaw' \in Seq(RawRecords)
          /\ \A i \in 1 .. Len(thRaw) : thRaw'[i] = thRaw[i]
      BY <1>1, <2>2, AppendProperties
    <3>2. Len(thRaw) \in Nat /\ DOMAIN thRaw = 1 .. Len(thRaw) /\ DOMAIN thRaw' = 1 .. Len(thRaw')
      BY <1>1, <3>1
    <3> QED
      BY <3>1, <3>2
  <2> QED
    BY <2>1, <2>2
<1>3. \A i \in checked : i \in later /\ thRaw'[i] = thRaw[i]
  BY <1>2
<1>4. /\ "consumption" \in thConditions =>
           \E i, j \in checked : i < j /\ thRaw[i].v - thRaw[j].v > RateLimit * (thRaw[j].t - thRaw[i].t)
      /\ "stability" \in thConditions =>
           \E i, j \in checked :
               thRaw[i].v - thRaw[j].v > RangeLimit \/ thRaw[i].v - thRaw[j].v > StdLimit
  BY DEF TrendKept, NoFalseAlarm
<1>5. NoFalseAlarm' <=>
        /\ "consumption" \in thConditions' =>
             \E i, j \in later : i < j /\ thRaw'[i].v - thRaw'[j].v > RateLimit * (thRaw'[j].t - thRaw'[i].t)
        /\ "stability" \in thConditions' =>
             \E i, j \in later :
               thRaw'[i].v - thRaw'[j].v > RangeLimit \/ thRaw'[i].v - thRaw'[j].v > StdLimit
  BY DEF NoFalseAlarm
<1> HIDE DEF checked, later
<1>6. ASSUME "consumption" \in thConditions'
      PROVE  \E i, j \in later : i < j /\ thRaw'[i].v - thRaw'[j].v > RateLimit * (thRaw'[j].t - thRaw'[i].t)
  <2>1. PICK i, j \in checked : i < j /\ thRaw[i].v - thRaw[j].v > RateLimit * (thRaw[j].t - thRaw[i].t)
    BY <1>4, <1>6
  <2>2. i \in later /\ j \in later /\ thRaw'[i] = thRaw[i] /\ thRaw'[j] = thRaw[j]
    BY <1>3
  <2> QED
    BY <2>1, <2>2
<1>7. ASSUME "stability" \in thConditions'
      PROVE  \E i, j \in later :
               thRaw'[i].v - thRaw'[j].v > RangeLimit \/ thRaw'[i].v - thRaw'[j].v > StdLimit
  <2>1. PICK i, j \in checked :
               thRaw[i].v - thRaw[j].v > RangeLimit \/ thRaw[i].v - thRaw[j].v > StdLimit
    BY <1>4, <1>7
  <2>2. i \in later /\ j \in later /\ thRaw'[i] = thRaw[i] /\ thRaw'[j] = thRaw[j]
    BY <1>3
  <2> QED
    BY <2>1, <2>2
<1> QED
  BY <1>5, <1>6, <1>7

LEMMA TierStays ==
  ASSUME NEW tier \in Tiers, NEW files, NEW day, NEW then \in Nat, NEW now \in Nat, then <= now, NEW T,
         TierKept(tier, files, day, then, T)
  PROVE  TierKept(tier, files, day, now, T)
<1>1. DayOf(tier, then) \in Nat /\ DayOf(tier, now) \in Nat /\ DayOf(tier, then) <= DayOf(tier, now)
  BY DaysRise
<1>2. day \in Nat /\ day <= DayOf(tier, then)
  BY DEF TierKept, Archive
<1>3. day <= DayOf(tier, now)
  BY <1>1, <1>2
<1> QED
  BY <1>3 DEF TierKept

LEMMA TierMade ==
  ASSUME NEW tier \in Tiers, NEW now \in Nat, NEW record, NEW T, NEW e, Made(e, tier, now, record, T)
  PROVE  TierKept(tier, e.files, e.day, now, T) /\ AllLines(e.files) \in Seq(T)
<1>1. DayOf(tier, now) \in Nat
  BY DaysRise
<1>2. Archive(e.files, e.day, T) /\ e.day = DayOf(tier, now)
      /\ Cardinality(Dated(e.files)) <= Backups[tier]
  BY DEF Made
<1>3. AllLines(e.files) \in Seq(T)
  BY <1>2, AllLinesAre
<1> QED
  BY <1>1, <1>2, <1>3 DEF TierKept

RawAfter(files, day, raw, now) ==
  /\ TierKept("raw", files, day, now, RawRecords)
  /\ InTheirDays(files, day)
  /\ RawIsKept(raw, AllLines(files), now)

LEMMA RawPolled ==
  ASSUME TrendKept, NEW now \in Nat, thNow < now, NEW level \in Int
  PROVE  LET raw == IF RawIsDue(now) THEN Emit("raw", now, [t |-> now, v |-> level]) ELSE Unwritten("raw")
             lines == IF RawIsDue(now) THEN Append(thRaw, [t |-> now, v |-> level]) ELSE thRaw
         IN RawAfter(raw.files, raw.day, lines, now)
<1> DEFINE record == [t |-> now, v |-> level]
           e == Emit("raw", now, record)
           f == thFiles["raw"]
           day == thDay["raw"]
<1>1. /\ TierKept("raw", f, day, thNow, RawRecords) /\ InTheirDays(f, day)
      /\ RawIsKept(thRaw, AllLines(f), thNow) /\ thNow \in Nat
  BY TrendAssumption DEF TrendKept
<1>2. record \in RawRecords /\ record.t = now
  BY DEF RawRecords
<1>3. "raw" \in Tiers
  BY DEF Tiers
<1>4. Unwritten("raw").files = f /\ Unwritten("raw").day = day
  BY DEF Unwritten
<1>5. CASE RawIsDue(now)
  <2>1. Made(e, "raw", now, record, RawRecords)
    <3> HIDE DEF record
    <3>1. thNow <= now
      BY <1>1
    <3> QED
      BY <1>1, <1>2, <1>3, <3>1, EmitMakes
  <2>2. /\ Handled(f, e.files, e.day, record, Backups["raw"], RawRecords)
        /\ Filed(f, day, e.files, e.day, record) /\ e.day = DayOf("raw", now)
    BY <2>1 DEF Made
  <2> HIDE DEF e, f, day, record
  <2>3. TierKept("raw", e.files, e.day, now, RawRecords) /\ AllLines(e.files) \in Seq(RawRecords)
    BY <1>3, <2>1, TierMade
  <2>4. Archive(f, day, RawRecords) /\ f[Live] \in Seq(RawRecords)
    BY <1>1, ArchiveFacts DEF TierKept
  <2>5. InTheirDays(e.files, DayOf("raw", now))
    BY <1>1, <1>2, <2>2, <2>4, RawLinesFiled
  <2>6. RawIsKept(Append(thRaw, record), AllLines(e.files), now)
    BY <1>1, <1>2, <2>2, <2>3, <2>4, RawGrows
  <2> QED
    BY <1>5, <2>2, <2>3, <2>5, <2>6 DEF e, record, RawAfter
<1>6. CASE ~RawIsDue(now)
  <2> HIDE DEF f, day
  <2>1. thNow <= now
    BY <1>1
  <2>2. TierKept("raw", f, day, now, RawRecords)
    BY <1>1, <1>3, <2>1, TierStays
  <2>3. RawIsKept(thRaw, AllLines(f), now)
    BY <1>1, <2>1, RawStays
  <2> QED
    BY <1>1, <1>4, <1>6, <2>2, <2>3 DEF RawAfter
<1> QED
  BY <1>5, <1>6

HourlyAfter(files, day, samples, bucket, now) ==
  /\ TierKept("hourly", files, day, now, Buckets)
  /\ BucketsAreKept(samples, bucket, files, now)

LEMMA HourlyPolled ==
  ASSUME TrendKept, NEW now \in Nat, thNow < now, NEW level \in Int
  PROVE  LET full == thBucket.start \notin {NoTime, now - (now % BucketLength)}
             hourly == IF full THEN Emit("hourly", now, [t |-> thBucket.start, v |-> thBucket.v])
                       ELSE Unwritten("hourly")
         IN HourlyAfter(hourly.files, hourly.day, thSamples \o ValueOf(level), BucketWith(now, level), now)
<1> DEFINE full == thBucket.start \notin {NoTime, now - (now % BucketLength)}
           record == [t |-> thBucket.start, v |-> thBucket.v]
           e == Emit("hourly", now, record)
           f == thFiles["hourly"]
           day == thDay["hourly"]
<1>1. /\ TierKept("hourly", f, day, thNow, Buckets)
      /\ BucketsAreKept(thSamples, thBucket, f, thNow) /\ thNow \in Nat
  BY TrendAssumption DEF TrendKept
<1>2. "hourly" \in Tiers
  BY DEF Tiers
<1>3. Unwritten("hourly").files = f /\ Unwritten("hourly").day = day
  BY DEF Unwritten
<1>4. Archive(f, day, Buckets) /\ thNow <= now
  BY <1>1 DEF TierKept
<1>5. CASE full
  <2>1. record \in Buckets
    <3>1. thBucket.start \in Nat /\ thBucket.v \in Summaries
      BY <1>1, <1>5 DEF BucketsAreKept
    <3> QED
      BY <3>1 DEF Buckets
  <2>2. Made(e, "hourly", now, record, Buckets)
    <3> HIDE DEF record
    <3> QED
      BY <1>1, <1>2, <1>4, <2>1, EmitMakes
  <2>3. /\ Handled(f, e.files, e.day, record, Backups["hourly"], Buckets)
        /\ Archive(e.files, e.day, Buckets)
    BY <2>2 DEF Made
  <2> HIDE DEF e, f, day
  <2>4. TierKept("hourly", e.files, e.day, now, Buckets)
    BY <1>2, <2>2, TierMade
  <2>5. BucketsAreKept(thSamples \o ValueOf(level), BucketWith(now, level), e.files, now)
    BY <1>1, <1>4, <1>5, <2>3, BucketIsWritten
  <2> QED
    BY <1>5, <2>4, <2>5 DEF e, HourlyAfter
<1>6. CASE ~full
  <2> HIDE DEF f, day
  <2>1. TierKept("hourly", f, day, now, Buckets)
    BY <1>1, <1>2, <1>4, TierStays
  <2>2. BucketsAreKept(thSamples \o ValueOf(level), BucketWith(now, level), f, now)
    BY <1>1, <1>4, <1>6, BucketIsFilled
  <2> QED
    BY <1>3, <1>6, <2>1, <2>2 DEF HourlyAfter
<1> QED
  BY <1>5, <1>6

LEMMA TrendSteps ==
  ASSUME TrendKept, [TrendNext]_thVars
  PROVE  TrendKept'
<1>1. CASE Relaunched
  <2>1. /\ thBucket' = NoBucket /\ thConditions' = {}
        /\ thSamples' = SubSeq(thSamples, 1, Len(thSamples) - thBucket.v.count)
        /\ thNow' = thNow /\ thFiles' = thFiles /\ thDay' = thDay /\ thCheckedAt' = thCheckedAt /\ thRaw' = thRaw
    BY <1>1 DEF Relaunched
  <2>2. thNow \in Nat /\ BucketsAreKept(thSamples, thBucket, thFiles["hourly"], thNow)
    BY TrendAssumption DEF TrendKept
  <2>3. BucketsAreKept(SubSeq(thSamples, 1, Len(thSamples) - thBucket.v.count), NoBucket, thFiles["hourly"], thNow)
    BY <2>2, BucketIsLost
  <2>4. NoFalseAlarm'
    BY <2>1 DEF NoFalseAlarm
  <2> QED
    BY <2>1, <2>3, <2>4 DEF TrendKept
<1>2. CASE RunChecks
  <2>1. NoFalseAlarm'
    BY <1>2, ChecksAreRight
  <2>2. UNCHANGED <<thNow, thFiles, thDay, thBucket, thRaw, thSamples>>
    BY <1>2 DEF RunChecks
  <2> QED
    BY <2>1, <2>2 DEF TrendKept
<1>3. ASSUME NEW dt \in 1 .. 2, NEW level \in Levels \cup {0}, Record(dt, level)
      PROVE  TrendKept'
  <2> DEFINE now == thNow + dt
             raw == IF RawIsDue(now) THEN Emit("raw", now, [t |-> now, v |-> level]) ELSE Unwritten("raw")
             full == thBucket.start \notin {NoTime, now - (now % BucketLength)}
             hourly == IF full THEN Emit("hourly", now, [t |-> thBucket.start, v |-> thBucket.v])
                       ELSE Unwritten("hourly")
             lines == IF RawIsDue(now) THEN Append(thRaw, [t |-> now, v |-> level]) ELSE thRaw
  <2>1. thNow \in Nat /\ now \in Nat /\ thNow < now
    BY TrendAssumption DEF TrendKept
  <2>2. level \in Int
    BY TrendAssumption
  <2>3. /\ now <= TrendHorizon /\ thNow' = now
        /\ thFiles' = [raw |-> raw.files, hourly |-> hourly.files]
        /\ thDay' = [raw |-> raw.day, hourly |-> hourly.day]
        /\ thRaw' = lines
        /\ thBucket' = BucketWith(now, level)
        /\ thSamples' = thSamples \o ValueOf(level)
        /\ thConditions' = thConditions /\ thCheckedAt' = thCheckedAt
    BY <1>3 DEF Record
  <2>4. RawAfter(raw.files, raw.day, lines, now)
    <3> HIDE DEF now
    <3> QED
      BY <2>1, <2>2, RawPolled
  <2>5. HourlyAfter(hourly.files, hourly.day, thSamples \o ValueOf(level), BucketWith(now, level), now)
    <3> HIDE DEF now
    <3> QED
      BY <2>1, <2>2, HourlyPolled
  <2>6. NoFalseAlarm'
    <3>1. [t |-> now, v |-> level] \in RawRecords
      BY <2>1, <2>2 DEF RawRecords
    <3> QED
      BY <2>3, <3>1, AlarmsStay
  <2> HIDE DEF raw, hourly, lines, now
  <2>7. /\ thFiles'["raw"] = raw.files /\ thFiles'["hourly"] = hourly.files
        /\ thDay'["raw"] = raw.day /\ thDay'["hourly"] = hourly.day
    BY <2>3
  <2>8. now \in 0 .. TrendHorizon
    BY <2>1, <2>3, TrendAssumption
  <2> QED
    BY <2>3, <2>4, <2>5, <2>6, <2>7, <2>8 DEF TrendKept, RawAfter, HourlyAfter
<1>4. CASE UNCHANGED thVars
  BY <1>4 DEF thVars, TrendKept, NoFalseAlarm
<1> QED
  BY <1>1, <1>2, <1>3, <1>4 DEF TrendNext

\* A check reads every raw line of its window in order through every rotation, the buckets sum
\* up what was sampled and not lost, a condition rests on two readings of its window, and no
\* crossing of a threshold is missed (tiered_trend_logger.py, trend_history.py, trend_checks.py):
\* for any readings, rotations, retentions and limits, however often the process ends.
THEOREM TrendsAreExactHolds == TrendSpec => []TrendsAreExact
<1>1. TrendInit => TrendKept
  BY TrendBegins
<1>2. TrendKept /\ [TrendNext]_thVars => TrendKept'
  BY TrendSteps
<1>3. TrendKept => TrendsAreExact
  <2>1. ASSUME TrendKept PROVE TrendsAreExact
    <3>1. WindowIsComplete /\ AggregateIsExact /\ CrossingFound
      BY <2>1, WindowIsCompleteHolds, AggregateIsExactHolds, CrossingFoundHolds
    <3>2. NoFalseAlarm
      BY <2>1 DEF TrendKept
    <3> QED
      BY <3>1, <3>2 DEF TrendsAreExact
  <2> QED
    BY <2>1
<1> QED
  BY <1>1, <1>2, <1>3, PTL DEF TrendSpec
=============================================================================
