-------------------------------- MODULE RunQueue --------------------------------
(***************************************************************************)
(* The queue of the procedure window and the queue of the Orchestrator.    *)
(* QueuePanel keeps the entries with their status and mirrors them into    *)
(* the Orchestrator's list of built procedures; the Orchestrator takes     *)
(* from its list by itself when a run is done or aborted.                  *)
(***************************************************************************)
EXTENDS Naturals, Sequences, FiniteSets, SequencesExt

CONSTANTS
  MaxProcs           \* bound on the procedures that are built, numbered from 1

VARIABLES
  qpEntries,         \* _queue: entries with procedure, status and whether it could be built
  qpRunning,         \* _queue_running
  oqQueue,           \* _procedure_queue
  oqState,           \* "idle" "ramping" (by hand) "busy" (a run) "operation" "error" "emergency"
  qpFile,            \* the queue that the last close saved, until it is restored
  qpOpen,            \* the windows are open
  qpMade,            \* the number of procedures built
  qpTaken,           \* the procedures that run_procedure() has started or refused
  qpRemoved,         \* the procedures whose entry was removed
  qpAstray           \* the panel marked an entry and the Orchestrator took none, or queued one unlisted

qpVars == <<qpEntries, qpRunning, oqQueue, oqState, qpFile, qpOpen, qpMade, qpTaken, qpRemoved, qpAstray>>

Indices == DOMAIN qpEntries
Queued == {oqQueue[i] : i \in DOMAIN oqQueue}
WithStatus(entries, status) == {i \in DOMAIN entries : entries[i].status = status}
First(set) == CHOOSE i \in set : \A j \in set : i <= j

-----------------------------------------------------------------------------
(* The Orchestrator.                                                        *)

\* (A slip of Drain.)
DrainLast(queue, refused) ==
  IF queue = <<>> THEN
    /\ ~refused
    /\ oqQueue' = queue /\ oqState' = "idle"
    /\ UNCHANGED qpTaken
  ELSE
    /\ oqQueue' = Front(queue)
    /\ oqState' = IF refused THEN "idle" ELSE "busy"
    /\ qpTaken' = qpTaken \cup {Last(queue)}

\* run_queue() in IDLE: the head of the queue is started, unless a magnet in persistent
\* mode refuses it.
Drain(queue, refused) ==
  IF queue = <<>> THEN
    /\ ~refused
    /\ oqQueue' = queue /\ oqState' = "idle"
    /\ UNCHANGED qpTaken
  ELSE
    /\ oqQueue' = Tail(queue)
    /\ oqState' = IF refused THEN "idle" ELSE "busy"
    /\ qpTaken' = qpTaken \cup {Head(queue)}

\* A run, an operation or a ramp by hand is under way.
Occupied == oqState \in {"ramping", "busy", "operation"}

-----------------------------------------------------------------------------
(* QueuePanel.                                                              *)

\* _advance_queue_status(): the running entry is finalised, the next pending promoted.
Advanced(entries, status) ==
  LET running == WithStatus(entries, "running")
      closed == IF running = {} THEN entries ELSE [entries EXCEPT ![First(running)].status = status]
      pending == WithStatus(closed, "pending")
  IN IF pending = {} THEN closed ELSE [closed EXCEPT ![First(pending)].status = "running"]

Advance(status) ==
  IF ~qpRunning THEN UNCHANGED <<qpEntries, qpRunning>>
  ELSE /\ qpEntries' = Advanced(qpEntries, status)
       /\ qpRunning' = (WithStatus(qpEntries, "pending") # {})

\* An entry that waits to be run, and could be built.
Armed(entry) == entry.status = "pending" /\ entry.built

\* _resync_orchestrator_queue(): the pending ones that were built, in the order of the list.
PendingProcs(entries) ==
  LET Among[n \in 0 .. Len(entries)] ==
        IF n = 0 THEN <<>>
        ELSE IF Armed(entries[n]) THEN Append(Among[n - 1], entries[n].proc) ELSE Among[n - 1]
  IN Among[Len(entries)]

\* add_entry(): an entry that could not be built is listed and never queued.
AddEntry(built) ==
  /\ qpOpen
  /\ qpMade < MaxProcs
  /\ qpMade' = qpMade + 1
  /\ qpEntries' = Append(qpEntries, [proc |-> qpMade', status |-> "pending", built |-> built])
  /\ oqQueue' = IF built THEN Append(oqQueue, qpMade') ELSE oqQueue
  /\ UNCHANGED <<qpRunning, oqState, qpFile, qpOpen, qpTaken, qpRemoved, qpAstray>>

\* _on_run_queue(): the first pending entry is marked, whatever the Orchestrator then does.
RunQueueClicked(refused) ==
  /\ qpOpen
  /\ WithStatus(qpEntries, "pending") # {}
  /\ qpRunning' = TRUE
  /\ qpEntries' = [qpEntries EXCEPT ![First(WithStatus(qpEntries, "pending"))].status = "running"]
  /\ IF oqState = "idle" THEN Drain(oqQueue, refused)
     ELSE ~refused /\ UNCHANGED <<oqQueue, oqState, qpTaken>>
  /\ qpAstray' = (qpAstray \/ oqState # "idle")
  /\ UNCHANGED <<qpFile, qpOpen, qpMade, qpRemoved>>

\* (A slip of Move.)
MoveUnsynced(i) ==
  /\ qpOpen
  /\ i \in Indices /\ i + 1 \in Indices
  /\ qpEntries' = [qpEntries EXCEPT ![i] = qpEntries[i + 1], ![i + 1] = qpEntries[i]]
  /\ UNCHANGED <<qpRunning, oqQueue, oqState, qpFile, qpOpen, qpMade, qpTaken, qpRemoved, qpAstray>>

\* _queue_move_up() and _queue_move_down(), with the resync of the Orchestrator's queue.
Move(i) ==
  /\ qpOpen
  /\ i \in Indices /\ i + 1 \in Indices
  /\ qpEntries' = [qpEntries EXCEPT ![i] = qpEntries[i + 1], ![i + 1] = qpEntries[i]]
  /\ oqQueue' = PendingProcs(qpEntries')
  /\ UNCHANGED <<qpRunning, oqState, qpFile, qpOpen, qpMade, qpTaken, qpRemoved, qpAstray>>

\* (A slip of RemoveEntry.)
RemoveEntryUnsynced(i) ==
  /\ qpOpen
  /\ i \in Indices
  /\ qpEntries' = RemoveAt(qpEntries, i)
  /\ qpRemoved' = qpRemoved \cup {qpEntries[i].proc}
  /\ UNCHANGED <<qpRunning, oqQueue, oqState, qpFile, qpOpen, qpMade, qpTaken, qpAstray>>

\* _queue_remove()
RemoveEntry(i) ==
  /\ qpOpen
  /\ i \in Indices
  /\ qpEntries' = RemoveAt(qpEntries, i)
  /\ qpRemoved' = qpRemoved \cup {qpEntries[i].proc}
  /\ oqQueue' = PendingProcs(qpEntries')
  /\ UNCHANGED <<qpRunning, oqState, qpFile, qpOpen, qpMade, qpTaken, qpAstray>>

\* reset(), for a new session
Reset ==
  /\ qpOpen
  /\ qpEntries' = <<>> /\ oqQueue' = <<>> /\ qpRunning' = FALSE
  /\ qpRemoved' = qpRemoved \cup {qpEntries[i].proc : i \in Indices}
  /\ qpAstray' = FALSE
  /\ UNCHANGED <<oqState, qpFile, qpOpen, qpMade, qpTaken>>

\* _on_run_now(): a procedure beside the queue, refused as well with a magnet in persistent
\* mode; one that meets a run is queued, and the panel does not list it.
RunNow(refused) ==
  /\ qpOpen
  /\ qpMade < MaxProcs
  /\ qpMade' = qpMade + 1
  /\ CASE refused -> UNCHANGED <<oqQueue, oqState, qpTaken, qpAstray>>
       [] ~refused /\ oqState \in {"idle", "ramping"} ->
            /\ oqState' = "busy" /\ qpTaken' = qpTaken \cup {qpMade'}
            /\ UNCHANGED <<oqQueue, qpAstray>>
       [] OTHER ->
            /\ oqQueue' = Append(oqQueue, qpMade') /\ qpAstray' = TRUE
            /\ UNCHANGED <<oqState, qpTaken>>
  /\ UNCHANGED <<qpEntries, qpRunning, qpFile, qpOpen, qpRemoved>>

\* procedure_finished reaches the panel before the Orchestrator goes on to its queue.
RunDone(refused) ==
  /\ qpOpen
  /\ oqState = "busy"
  /\ Advance("done")
  /\ Drain(oqQueue, refused)
  /\ UNCHANGED <<qpFile, qpOpen, qpMade, qpRemoved, qpAstray>>

\* An operation that is done, or what is under way aborted from the operations panel or by
\* "standby all": the Orchestrator goes on to its queue as well, and tells the panel nothing.
EndsUntold(refused) ==
  /\ qpOpen
  /\ Occupied
  /\ Drain(oqQueue, refused)
  /\ UNCHANGED <<qpEntries, qpRunning, qpFile, qpOpen, qpMade, qpRemoved, qpAstray>>

\* What begins and ends without a look at the queue: ramps and operations begin, whatever
\* is under way fails or comes home, an emergency is entered, errors and emergencies are
\* acknowledged.
OrchestratorMoves(to) ==
  /\ qpOpen
  /\ \/ oqState = "idle" /\ to \in {"ramping", "operation", "emergency"}
     \/ Occupied /\ to \in {"idle", "error", "emergency"}
     \/ oqState = "ramping" /\ to = "operation"
     \/ oqState = "error" /\ to \in {"idle", "emergency"}
     \/ oqState = "emergency" /\ to \in {"idle", "operation"}
  /\ oqState' = to
  /\ UNCHANGED <<qpEntries, qpRunning, oqQueue, qpFile, qpOpen, qpMade, qpTaken, qpRemoved, qpAstray>>

\* _on_abort(): also with nothing running, but not of an operation; in an emergency the
\* panel marks its entries and the Orchestrator ignores it.
AbortClicked(refused) ==
  /\ qpOpen
  /\ oqState # "operation"
  /\ Advance("failed")
  /\ IF oqState = "emergency" THEN ~refused /\ UNCHANGED <<oqQueue, oqState, qpTaken>>
     ELSE Drain(oqQueue, refused)
  /\ qpAstray' = (qpAstray \/ oqState = "emergency")
  /\ UNCHANGED <<qpFile, qpOpen, qpMade, qpRemoved>>

-----------------------------------------------------------------------------
(* Close and restart.                                                       *)

\* MonitorWindow.closeEvent(): unless idle, abort_procedure(); then the autosave, and the
\* application ends.
CloseWindow(refused) ==
  /\ qpOpen
  /\ qpOpen' = FALSE
  /\ qpFile' = qpEntries
  /\ IF oqState \in {"idle", "emergency"}
     THEN ~refused /\ UNCHANGED <<oqQueue, oqState, qpTaken>>
     ELSE Drain(oqQueue, refused)
  /\ UNCHANGED <<qpEntries, qpRunning, qpMade, qpRemoved, qpAstray>>

\* restore_items(): what was running when the file was written is pending again.
Restored(entries) ==
  [i \in DOMAIN entries |-> IF entries[i].status = "running" THEN [entries[i] EXCEPT !.status = "pending"] ELSE entries[i]]

\* (A slip of Reopen.)
ReopenUnarmed ==
  /\ ~qpOpen
  /\ qpOpen' = TRUE
  /\ qpEntries' = Restored(qpFile)
  /\ oqQueue' = <<>>
  /\ qpRunning' = FALSE /\ oqState' = "idle"
  /\ qpFile' = <<>> /\ qpTaken' = {} /\ qpAstray' = FALSE
  /\ UNCHANGED <<qpMade, qpRemoved>>

Reopen ==
  /\ ~qpOpen
  /\ qpOpen' = TRUE
  /\ qpEntries' = Restored(qpFile)
  /\ oqQueue' = PendingProcs(qpEntries')
  /\ qpRunning' = FALSE /\ oqState' = "idle"
  /\ qpFile' = <<>> /\ qpTaken' = {} /\ qpAstray' = FALSE
  /\ UNCHANGED <<qpMade, qpRemoved>>

QueueInit ==
  /\ qpEntries = <<>> /\ qpRunning = FALSE /\ oqQueue = <<>>
  /\ oqState = "idle" /\ qpFile = <<>> /\ qpOpen = TRUE
  /\ qpMade = 0 /\ qpTaken = {} /\ qpRemoved = {} /\ qpAstray = FALSE

QueueStates == {"idle", "ramping", "busy", "operation", "error", "emergency"}

QueueNext ==
  \/ Reopen \/ Reset
  \/ \E to \in QueueStates : OrchestratorMoves(to)
  \/ \E built \in BOOLEAN : AddEntry(built)
  \/ \E refused \in BOOLEAN :
       \/ RunNow(refused) \/ EndsUntold(refused)
       \/ RunQueueClicked(refused) \/ RunDone(refused) \/ AbortClicked(refused) \/ CloseWindow(refused)
  \/ \E i \in 1 .. MaxProcs : Move(i) \/ RemoveEntry(i)

QueueSpec == QueueInit /\ [][QueueNext]_qpVars

-----------------------------------------------------------------------------
\* What the operator has removed from the list does not wait to be started.
RemovedNeverRuns == qpRemoved \cap Queued = {}

\* The Orchestrator takes the listed procedures in the order of the list.
OrderAgrees ==
  \A i, j \in DOMAIN oqQueue : \A k, l \in Indices :
    i < j /\ oqQueue[i] = qpEntries[k].proc /\ oqQueue[j] = qpEntries[l].proc => k < l

\* A pending entry that could be built is still queued, unless it has been started or
\* refused; a restart re-arms what it interrupted.
NoPendingLost ==
  qpOpen =>
    \A i \in Indices :
      qpEntries[i].status = "pending" /\ qpEntries[i].built =>
        qpEntries[i].proc \in Queued \cup qpTaken

\* The next move or removal takes the entries shown as running out of the Orchestrator's
\* queue, so each of them must have been taken from it: this holds as long as Run Queue is
\* pressed while the Orchestrator is idle, Abort outside an emergency, and Run Now not
\* behind another run.  (Where one of these is, an entry can be shown as running, lose its
\* procedure to a move and be shown as done without having been run.)
RunningWasTaken ==
  ~qpAstray =>
    \A i \in Indices :
      qpEntries[i].status = "running" /\ qpEntries[i].built => qpEntries[i].proc \in qpTaken

\* With the window closed nothing is left running.
ClosesWithNoRun == ~qpOpen => oqState # "busy"

\* The list the operator edits and the list the Orchestrator takes from agree on what is
\* still to come, on its order, and on what has begun.
QueuesAgree ==
  /\ RemovedNeverRuns
  /\ OrderAgrees
  /\ NoPendingLost
  /\ RunningWasTaken
=============================================================================
