----------------------------- MODULE EventDrain -----------------------------
(***************************************************************************)
(* callbacks.py and the part of order_log.py it uses: the SDK's thread     *)
(* puts order events on a queue, the callback-processor takes them off,    *)
(* finds the batch of each through clord_index and appends them to its     *)
(* order record. The cycle worker is here only as far as the drain can see *)
(* it: it takes batch_state_lock, places and registers orders, and moves a *)
(* batch to a terminal directory. Of the lines it writes only the submit   *)
(* lines are kept.                                                         *)
(***************************************************************************)
EXTENDS Naturals, Sequences, FiniteSets

CONSTANTS
    Batch, NoBatch,   \* batch ids, and none
    OrdId, NoOrder,   \* client order ids, and none
    Events,           \* events the broker sends per order
    MaxEpoch,         \* replays and process starts in a run (a bound)
    Faults            \* what may go wrong, see Fault

(* ack: order_volume raises or returns nothing; disk: opening, reading,    *)
(* writing or moving a record fails; crash: the process dies; stop: it is  *)
(* shut down.                                                              *)
Fault == {"ack", "disk", "crash", "stop"}

ASSUME DrainAssumption ==
    /\ NoBatch \notin Batch /\ NoOrder \notin OrdId
    /\ Events \in Nat /\ MaxEpoch \in Nat
    /\ Faults \subseteq Fault

VARIABLES
    placed,   \* placed[o]: the batch order o was placed for
    sent,     \* sent[o]: how many of o's events were delivered since the
              \* last (re)connect
    epoch,    \* replays and restarts so far
    queue,    \* _event_queue
    stopped,  \* has shutdown begun?
    dpc,      \* where _drain_loop is; "down" and "unstarted" are the process's
    events,   \* the events of this pass that are not resolved yet
    byBatch,  \* the resolved ones per batch, until they are written
    last,     \* _drain_loop's stop: this pass is the last one
    wpc,      \* where the worker is; it holds the lock unless "idle"
    wb,       \* the batch it is working on
    wo,       \* the order it has placed and not yet registered
    index,    \* clord_index
    at,       \* the directory of each batch document
    dirs,     \* dirs[b]: the directories that hold a record of b
    lines,    \* lines[b][d]: the lines of that record that reached the OS
    out,      \* the file of the open session, <<batch, directory>> or <<>>
    buf       \* what the open session has not written out

brokerVars == <<placed, sent, epoch>>
drainVars == <<dpc, events, byBatch, last>>
workerVars == <<wpc, wb, wo>>
fileVars == <<at, dirs, lines, out, buf>>
vars == <<brokerVars, queue, stopped, drainVars, workerVars, index, fileVars>>

LiveDir == {"pending", "finished", "expired"}

(* An event, and the line it becomes: the n-th event of an order. The      *)
(* submit line has n = 0.                                                  *)
Line == [ord : OrdId, n : 0..Events]
Event == [ord : OrdId, n : 1..Events]
Stop == [ord |-> NoOrder, n |-> 0]
Submit(o) == [ord |-> o, n |-> 0]

DrainTypeOK ==
    /\ placed \in [OrdId -> Batch \cup {NoBatch}]
    /\ sent \in [OrdId -> 0..Events] /\ epoch \in Nat
    /\ queue \in Seq(Event \cup {Stop}) /\ stopped \in BOOLEAN
    /\ dpc \in {"down", "unstarted", "get", "collect", "wait", "resolve",
                "write", "close", "exited"}
    /\ events \in Seq(Event) /\ last \in BOOLEAN
    /\ byBatch \in [Batch -> Seq(Event)]
    /\ wpc \in {"idle", "reconcile", "placed", "decide", "move_record"}
    /\ wb \in Batch \cup {NoBatch} /\ wo \in OrdId \cup {NoOrder}
    /\ wpc # "idle" => wb \in Batch
    /\ wpc = "placed" => wo \in OrdId
    /\ index \in [OrdId -> Batch \cup {NoBatch}]
    /\ at \in [Batch -> LiveDir]
    /\ dirs \in [Batch -> SUBSET LiveDir]
    /\ lines \in [Batch -> [LiveDir -> Seq(Line)]]
    /\ out \in (Batch \X LiveDir) \cup {<<>>}
    /\ buf \in Seq(Line)
    /\ out = <<>> => buf = <<>>

Init ==
    /\ placed = [o \in OrdId |-> NoBatch] /\ sent = [o \in OrdId |-> 0]
    /\ epoch = 0 /\ queue = <<>> /\ stopped = FALSE
    /\ dpc = "unstarted" /\ events = <<>> /\ last = FALSE
    /\ byBatch = [b \in Batch |-> <<>>]
    /\ wpc = "idle" /\ wb = NoBatch /\ wo = NoOrder
    /\ index = [o \in OrdId |-> NoBatch]
    /\ at = [b \in Batch |-> "pending"]
    /\ dirs = [b \in Batch |-> {}]
    /\ lines = [b \in Batch |-> [d \in LiveDir |-> <<>>]]
    /\ out = <<>> /\ buf = <<>>

-----------------------------------------------------------------------------
(* Sessions. Whoever holds the lock has at most one open.                  *)

(* _Session.append: the first one opens, and so creates, the file.         *)
AppendTo(b, d, new) ==
    /\ dirs' = [dirs EXCEPT ![b] = @ \cup {d}]
    /\ out' = <<b, d>>
    /\ buf' = buf \o new

(* Mutant: the file is opened to be written anew.                          *)
WriteAnew(n) ==
    lines' = IF out = <<>> THEN lines
             ELSE [lines EXCEPT ![out[1]][out[2]] = SubSeq(buf, 1, n)]

(* n lines of the buffer reach the OS.                                     *)
WriteOut(n) ==
    lines' = IF out = <<>> THEN lines
             ELSE [lines EXCEPT ![out[1]][out[2]] = @ \o SubSeq(buf, 1, n)]

(* The file object's buffer is full before the session is closed.          *)
Spill ==
    /\ buf # <<>>
    /\ WriteOut(1) /\ buf' = Tail(buf)
    /\ UNCHANGED <<brokerVars, queue, stopped, drainVars, workerVars, index,
                   at, dirs, out>>

CloseFile == WriteOut(Len(buf)) /\ buf' = <<>> /\ out' = <<>>

(* Mutant: a record is taken to be where cycle_session finds it.           *)
LocatedPending(b) == "pending"
(* locate_record: pending/ first, then finished/, then expired/.           *)
Located(b) == IF "pending" \in dirs[b] THEN "pending"
              ELSE IF "finished" \in dirs[b] THEN "finished" ELSE "expired"

-----------------------------------------------------------------------------
(* The SDK's thread. It runs from the moment the process has connected.    *)

Alive == dpc # "down"

(* on_order_status and on_execution_report: copy the event, put it.        *)
Deliver(o) ==
    /\ Alive
    /\ placed[o] # NoBatch /\ sent[o] < Events
    /\ sent' = [sent EXCEPT ![o] = @ + 1]
    /\ queue' = Append(queue, [ord |-> o, n |-> sent[o] + 1])
    /\ UNCHANGED <<placed, epoch, stopped, drainVars, workerVars, index,
                   fileVars>>

(* The channel drops and returns: the broker sends everything once more.   *)
Replay ==
    /\ Alive /\ epoch < MaxEpoch
    /\ epoch' = epoch + 1
    /\ sent' = [o \in OrdId |-> 0]
    /\ UNCHANGED <<placed, queue, stopped, drainVars, workerVars, index,
                   fileVars>>

-----------------------------------------------------------------------------
(* _drain_loop and _process_drained.                                       *)

LockFree == wpc = "idle" /\ dpc \notin {"resolve", "write", "close"}

(* Mutant: the first event of a pass is left on the queue.                 *)
GetEventPeeks ==
    /\ dpc = "get" /\ queue # <<>>
    /\ IF Head(queue) = Stop
       THEN dpc' = "exited" /\ UNCHANGED events
       ELSE dpc' = "collect" /\ events' = <<Head(queue)>>
    /\ UNCHANGED <<brokerVars, queue, stopped, byBatch, last, workerVars, index,
                   fileVars>>

(* _event_queue.get(), which blocks.                                       *)
GetEvent ==
    /\ dpc = "get" /\ queue # <<>>
    /\ queue' = Tail(queue)
    /\ IF Head(queue) = Stop
       THEN dpc' = "exited" /\ UNCHANGED events
       ELSE dpc' = "collect" /\ events' = <<Head(queue)>>
    /\ UNCHANGED <<brokerVars, stopped, byBatch, last, workerVars, index,
                   fileVars>>

(* Mutants: the sentinel is collected like an event; it is swallowed.      *)
CollectAll ==
    /\ dpc = "collect"
    /\ \/ /\ queue = <<>>
          /\ dpc' = "wait" /\ UNCHANGED <<queue, events>>
       \/ /\ queue # <<>> /\ queue' = Tail(queue)
          /\ events' = Append(events, Head(queue)) /\ UNCHANGED dpc
    /\ UNCHANGED <<brokerVars, stopped, byBatch, last, workerVars, index,
                   fileVars>>

CollectNoStop ==
    /\ dpc = "collect"
    /\ \/ /\ queue = <<>>
          /\ dpc' = "wait" /\ UNCHANGED <<queue, events>>
       \/ /\ queue # <<>> /\ queue' = Tail(queue)
          /\ IF Head(queue) = Stop
             THEN dpc' = "wait" /\ UNCHANGED events
             ELSE events' = Append(events, Head(queue)) /\ UNCHANGED dpc
    /\ UNCHANGED <<brokerVars, stopped, byBatch, last, workerVars, index,
                   fileVars>>

(* Mutant: the sentinel ends the loop at once.                             *)
CollectReturns ==
    /\ dpc = "collect"
    /\ \/ /\ queue = <<>>
          /\ dpc' = "wait" /\ UNCHANGED <<queue, events>>
       \/ /\ queue # <<>> /\ queue' = Tail(queue)
          /\ IF Head(queue) = Stop
             THEN dpc' = "exited" /\ UNCHANGED events
             ELSE events' = Append(events, Head(queue)) /\ UNCHANGED dpc
    /\ UNCHANGED <<brokerVars, stopped, byBatch, last, workerVars, index,
                   fileVars>>

(* _event_queue.get_nowait(), until the queue is empty or holds the        *)
(* sentinel.                                                               *)
Collect ==
    /\ dpc = "collect"
    /\ \/ /\ queue = <<>>
          /\ dpc' = "wait" /\ UNCHANGED <<queue, events, last>>
       \/ /\ queue # <<>> /\ queue' = Tail(queue)
          /\ IF Head(queue) = Stop
             THEN dpc' = "wait" /\ last' = TRUE /\ UNCHANGED events
             ELSE /\ events' = Append(events, Head(queue))
                  /\ UNCHANGED <<dpc, last>>
    /\ UNCHANGED <<brokerVars, stopped, byBatch, workerVars, index, fileVars>>

(* Mutant: the pass is grouped without the lock.                           *)
TakeNoLock ==
    /\ dpc = "wait"
    /\ dpc' = "resolve"
    /\ UNCHANGED <<brokerVars, queue, stopped, events, byBatch, last,
                   workerVars, index, fileVars>>

(* _process_drained takes the lock, and keeps it to the end of the pass.   *)
TakeLock ==
    /\ dpc = "wait" /\ LockFree
    /\ dpc' = "resolve"
    /\ UNCHANGED <<brokerVars, queue, stopped, events, byBatch, last,
                   workerVars, index, fileVars>>

(* _build_line: the batch of an event, or nothing for a foreign one.       *)
Foreign(e) == index[e.ord] = NoBatch

(* Mutants: a group keeps its first event; the groups share one list.      *)
GroupedFirst(e) ==
    IF Foreign(e) \/ byBatch[index[e.ord]] # <<>> THEN byBatch
    ELSE [byBatch EXCEPT ![index[e.ord]] = <<e>>]
GroupedTogether(e) ==
    IF Foreign(e) THEN byBatch
    ELSE [b \in Batch |-> IF b = index[e.ord] \/ byBatch[b] # <<>>
                          THEN Append(byBatch[b], e) ELSE byBatch[b]]
(* by_batch once e is resolved; a foreign event is dropped.                *)
Grouped(e) == IF Foreign(e) THEN byBatch
              ELSE [byBatch EXCEPT ![index[e.ord]] = Append(@, e)]

ResolveEvent ==
    /\ dpc = "resolve" /\ events # <<>>
    /\ events' = Tail(events) /\ byBatch' = Grouped(Head(events))
    /\ dpc' = IF Len(events) = 1 THEN "write" ELSE "resolve"
    /\ UNCHANGED <<brokerVars, queue, stopped, last, workerVars, index,
                   fileVars>>

(* The group of b is written, or given up.                                 *)
Done(b) == byBatch' = [byBatch EXCEPT ![b] = <<>>]

(* drain_session yields nothing: the events of b are dropped.              *)
NoRecord(b) ==
    /\ dpc = "write" /\ byBatch[b] # <<>>
    /\ dirs[b] = {}
    /\ Done(b)
    /\ UNCHANGED <<brokerVars, queue, stopped, dpc, events, last,
                   workerVars, index, fileVars>>

WriteGroup(b) ==
    /\ dpc = "write" /\ byBatch[b] # <<>>
    /\ dirs[b] # {}
    /\ Done(b)
    /\ AppendTo(b, Located(b), byBatch[b])
    /\ dpc' = "close"
    /\ UNCHANGED <<brokerVars, queue, stopped, events, last, workerVars,
                   index, at, lines>>

CloseGroup ==
    /\ dpc = "close"
    /\ CloseFile
    /\ dpc' = "write"
    /\ UNCHANGED <<brokerVars, queue, stopped, events, byBatch, last,
                   workerVars, index, at, dirs>>

(* Mutant: the exception leaves the loop over the groups.                  *)
GroupRaisesOut ==
    /\ "disk" \in Faults /\ dpc = "close"
    /\ buf' = <<>> /\ out' = <<>>
    /\ byBatch' = [b \in Batch |-> <<>>]
    /\ dpc' = "write"
    /\ UNCHANGED <<brokerVars, queue, stopped, events, last,
                   workerVars, index, at, dirs, lines>>

(* An append or the close raises: the rest of the group is lost, the other *)
(* groups are still written.                                               *)
GroupRaises ==
    /\ "disk" \in Faults /\ dpc = "close"
    /\ buf' = <<>> /\ out' = <<>>
    /\ dpc' = "write"
    /\ UNCHANGED <<brokerVars, queue, stopped, events, byBatch, last,
                   workerVars, index, at, dirs, lines>>

(* Mutant: return instead of continue.                                     *)
EndPassReturns ==
    /\ dpc = "write" /\ \A b \in Batch : byBatch[b] = <<>>
    /\ dpc' = "exited"
    /\ UNCHANGED <<brokerVars, queue, stopped, events, byBatch, last,
                   workerVars, index, fileVars>>

EndPass ==
    /\ dpc = "write" /\ \A b \in Batch : byBatch[b] = <<>>
    /\ dpc' = IF last THEN "exited" ELSE "get"
    /\ UNCHANGED <<brokerVars, queue, stopped, events, byBatch, last,
                   workerVars, index, fileVars>>

-----------------------------------------------------------------------------
(* The worker.                                                             *)

Working == dpc \notin {"down", "unstarted"}

(* run_cycle on the active batch.                                          *)
StartCycle(b) ==
    /\ Working /\ ~stopped /\ LockFree
    /\ at[b] = "pending"
    /\ wpc' = "reconcile" /\ wb' = b
    /\ UNCHANGED <<brokerVars, queue, stopped, drainVars, wo, index,
                   fileVars>>

(* order_volume reaches the broker: its events may come from now on.       *)
PlaceOrder(o) ==
    /\ wpc = "reconcile" /\ placed[o] = NoBatch
    /\ placed' = [placed EXCEPT ![o] = wb]
    /\ wpc' = "placed" /\ wo' = o
    /\ UNCHANGED <<sent, epoch, queue, stopped, drainVars, wb, index,
                   fileVars>>

(* order_volume answers: clord_index, then the submit line.                *)
RegisterOrder ==
    /\ wpc = "placed"
    /\ index' = [index EXCEPT ![wo] = wb]
    /\ \/ AppendTo(wb, "pending", <<Submit(wo)>>)
       \/ "disk" \in Faults /\ UNCHANGED <<dirs, out, buf>>
    /\ wpc' = "reconcile" /\ wo' = NoOrder
    /\ UNCHANGED <<brokerVars, queue, stopped, drainVars, wb, at, lines>>

(* It raises, or returns nothing.                                          *)
OrderUnanswered ==
    /\ "ack" \in Faults /\ wpc = "placed"
    /\ wpc' = "reconcile" /\ wo' = NoOrder
    /\ UNCHANGED <<brokerVars, queue, stopped, drainVars, wb, index,
                   fileVars>>

(* The end of _reconcile's with block.                                     *)
CloseSession ==
    /\ wpc = "reconcile"
    /\ CloseFile
    /\ wpc' = "decide"
    /\ UNCHANGED <<brokerVars, queue, stopped, drainVars, wb, wo, index,
                   at, dirs>>

(* Closing raises: the buffer is lost and the cycle over.                  *)
CloseRaises ==
    /\ "disk" \in Faults
    /\ wpc = "reconcile" /\ buf # <<>>
    /\ buf' = <<>> /\ out' = <<>>
    /\ wpc' = "idle" /\ wb' = NoBatch
    /\ UNCHANGED <<brokerVars, queue, stopped, drainVars, wo, index,
                   at, dirs, lines>>

EndCycle ==
    /\ wpc = "decide"
    /\ wpc' = "idle" /\ wb' = NoBatch
    /\ UNCHANGED <<brokerVars, queue, stopped, drainVars, wo, index,
                   fileVars>>

(* move_pair: the document, then the record.                               *)
MoveDocument(d) ==
    /\ wpc = "decide"
    /\ at' = [at EXCEPT ![wb] = d]
    /\ wpc' = "move_record"
    /\ UNCHANGED <<brokerVars, queue, stopped, drainVars, wb, wo, index,
                   dirs, lines, out, buf>>

(* Unless the move raises, the record follows.                             *)
MoveRecord ==
    /\ wpc = "move_record"
    /\ \/ /\ dirs' = [dirs EXCEPT ![wb] = IF @ = {} THEN {} ELSE {at[wb]}]
          /\ lines' = [lines EXCEPT ![wb]["pending"] = <<>>,
                                   ![wb][at[wb]] = lines[wb]["pending"]]
       \/ "disk" \in Faults /\ UNCHANGED <<dirs, lines>>
    /\ wpc' = "idle" /\ wb' = NoBatch
    /\ UNCHANGED <<brokerVars, queue, stopped, drainVars, wo, index,
                   at, out, buf>>

-----------------------------------------------------------------------------
(* The process.                                                            *)

(* _shutdown: stop_event, then callbacks.stop() puts the sentinel.         *)
Shutdown ==
    /\ "stop" \in Faults /\ Working /\ ~stopped
    /\ stopped' = TRUE
    /\ queue' = Append(queue, Stop)
    /\ UNCHANGED <<brokerVars, drainVars, workerVars, index, fileVars>>

(* It ends, after a shutdown or without one. Memory is gone.               *)
Crash ==
    /\ Alive
    /\ "crash" \in Faults \/ stopped
    /\ dpc' = "down" /\ events' = <<>> /\ last' = FALSE
    /\ byBatch' = [b \in Batch |-> <<>>]
    /\ wpc' = "idle" /\ wb' = NoBatch /\ wo' = NoOrder
    /\ queue' = <<>> /\ stopped' = FALSE
    /\ index' = [o \in OrdId |-> NoBatch]
    /\ out' = <<>> /\ buf' = <<>>
    /\ UNCHANGED <<brokerVars, at, dirs, lines>>

(* gm.run connects, and the broker sends everything once more, before it   *)
(* calls init().                                                           *)
Connect ==
    /\ dpc = "down" /\ epoch < MaxEpoch
    /\ dpc' = "unstarted"
    /\ epoch' = epoch + 1 /\ sent' = [o \in OrdId |-> 0]
    /\ UNCHANGED <<placed, queue, stopped, events, byBatch, last, workerVars,
                   index, fileVars>>

SubmitOnDisk(o, b) == \E d \in dirs[b] : \E i \in 1..Len(lines[b][d]) :
    lines[b][d][i] = Submit(o)

OnRecord(b) == {o \in OrdId : SubmitOnDisk(o, b)}

(* The orders whose submit lines are among the first n of b's record.      *)
ReadUpTo(b, n) == {o \in OrdId : \E d \in dirs[b] :
    \E i \in 1..Len(lines[b][d]) : i <= n /\ lines[b][d][i] = Submit(o)}

(* What _scan_submits may have found in b's record: it swallows an error   *)
(* while opening or reading it, and keeps what it has read before.         *)
Scans(b) == {OnRecord(b)} \cup
    IF "disk" \in Faults
    THEN {ReadUpTo(b, n) : n \in UNION {0..Len(lines[b][d]) : d \in dirs[b]}}
    ELSE {}

Rebuilt(found, o) == IF \E b \in Batch : o \in found[b]
                     THEN CHOOSE b \in Batch : o \in found[b] ELSE NoBatch

(* Mutant: the drain is started on the index as it is.                     *)
InitNoRebuild ==
    /\ dpc = "unstarted"
    /\ dpc' = "get"
    /\ UNCHANGED <<brokerVars, queue, stopped, events, byBatch, last,
                   workerVars, index, fileVars>>

(* init: rebuild_clord_index, then start the drain and the worker.         *)
InitProcess ==
    /\ dpc = "unstarted"
    /\ \E found \in [Batch -> SUBSET OrdId] :
          /\ \A b \in Batch : found[b] \in Scans(b)
          /\ index' = [o \in OrdId |-> Rebuilt(found, o)]
    /\ dpc' = "get"
    /\ UNCHANGED <<brokerVars, queue, stopped, events, byBatch, last,
                   workerVars, fileVars>>

-----------------------------------------------------------------------------
SDK == Replay \/ \E o \in OrdId : Deliver(o)

Drain ==
    \/ GetEvent \/ Collect \/ TakeLock \/ ResolveEvent
    \/ \E b \in Batch : NoRecord(b) \/ WriteGroup(b)
    \/ CloseGroup \/ GroupRaises \/ EndPass

Worker ==
    \/ \E b \in Batch : StartCycle(b)
    \/ \E o \in OrdId : PlaceOrder(o)
    \/ RegisterOrder \/ OrderUnanswered
    \/ CloseSession \/ CloseRaises \/ EndCycle
    \/ \E d \in {"finished", "expired"} : MoveDocument(d)
    \/ MoveRecord

Process == Shutdown \/ Crash \/ Connect \/ InitProcess

Next == SDK \/ Drain \/ Worker \/ Spill \/ Process

Spec == Init /\ [][Next]_vars
=============================================================================
