------------------------------- MODULE Cycle --------------------------------
(***************************************************************************)
(* cycle.py: run_cycle and its helpers, one step per call that another     *)
(* actor can get between, composed with the broker, the trade channel, the *)
(* order log and the connector's mirror. The worker holds batch_state_lock *)
(* from "unfinished" to the end of the cycle, so the lock has no variable: *)
(* it is free exactly where pc is in LockFree.                             *)
(***************************************************************************)
EXTENDS Broker, OrderLog, Channel, Windows

VARIABLES
    t,        \* the clock
    endAge,   \* ticks since last_cycle_end_at, stops at Grace
    pc,       \* where run_cycle is
    now,      \* run_cycle's local now
    vol,      \* volume of each symbol in the broker snapshot
    unf,      \* order ids in the broker snapshot's unfinished orders
    scan,     \* files of pending/ that _pass_one has still to parse
    seen,     \* _pass_one's result: the batches that stay pending
    cur,      \* the batch being expired, reconciled or finished
    todo,     \* symbols of cur that _reconcile has still to visit
    dst       \* the directory move_pair is moving cur to

localVars == <<now, vol, unf, scan, seen, cur, todo, dst>>
cycleVars == <<t, endAge, pc, now, vol, unf, scan, seen, cur, todo, dst>>
vars == <<brokerVars, logVars, channelVars, cycleVars>>

PC == {"idle", "guarded", "unfinished", "pass_one", "cancel_log",
       "move_doc", "move_record", "reconcile", "matched", "down"}
LockFree == {"idle", "guarded", "down"}
Handling == {"cancel_log", "move_doc", "move_record", "reconcile", "matched"}

CycleTypeOK ==
    /\ t \in Time /\ now \in 0..MaxTime /\ endAge \in 0..Grace
    /\ pc \in PC
    /\ vol \in [Symbol -> Nat] /\ unf \subseteq OrdId
    /\ scan \subseteq Batch /\ seen \subseteq Batch
    /\ cur \in Batch \cup {NoBatch} /\ todo \subseteq Symbol
    /\ dst \in {"finished", "expired"}
    /\ pc \in Handling => cur \in Batch

TypeOK == BrokerTypeOK /\ LogTypeOK /\ ChannelTypeOK /\ CycleTypeOK

ForgetSnapshot ==
    /\ now' = 0 /\ vol' = [s \in Symbol |-> 0] /\ unf' = {}
    /\ scan' = {} /\ seen' = {} /\ cur' = NoBatch /\ todo' = {}
    /\ dst' = "finished"

Init ==
    /\ BrokerInit /\ LogInit /\ ChannelInit
    /\ t = 1 /\ endAge = Grace /\ pc = "idle"
    /\ now = 0 /\ vol = [s \in Symbol |-> 0] /\ unf = {}
    /\ scan = {} /\ seen = {} /\ cur = NoBatch /\ todo = {}
    /\ dst = "finished"

-----------------------------------------------------------------------------
(* run_cycle: the guards, the lock, the snapshot.                          *)

(* Mutant: the reconnect grace is forgotten.                               *)
PassGuardsNoGrace ==
    /\ pc = "idle" /\ up /\ endAge = Grace
    /\ Announced \/ Late
    /\ pc' = "guarded"
    /\ UNCHANGED <<brokerVars, logVars, channelVars, t, endAge, localVars>>

(* Where the SDK's callbacks are prompt, they have returned by the time    *)
(* the worker looks at the flag.                                           *)
PassGuards ==
    /\ pc = "idle"
    /\ up /\ upAge = Grace /\ endAge = Grace
    /\ Announced \/ Late
    /\ pc' = "guarded"
    /\ UNCHANGED <<brokerVars, logVars, channelVars, t, endAge, localVars>>

(* The finally block: release the lock, stamp last_cycle_end_at.           *)
EndCycle == pc' = "idle" /\ endAge' = 0 /\ ForgetSnapshot

(* Mutant: the sellable volume is taken for the total.                     *)
ReadPositionsAvailable ==
    /\ pc = "guarded"
    /\ now' = t
    /\ vol' \in {held, [s \in Symbol |-> 0]}
    /\ pc' = "unfinished"
    /\ UNCHANGED <<brokerVars, logVars, channelVars, t, endAge,
                   unf, scan, seen, cur, todo, dst>>

(* Take the lock, read the clock, call get_position.                       *)
ReadPositions ==
    /\ pc = "guarded"
    /\ now' = t
    /\ vol' \in IF Answers THEN {held} ELSE {held, [s \in Symbol |-> 0]}
    /\ pc' = "unfinished"
    /\ UNCHANGED <<brokerVars, logVars, channelVars, t, endAge,
                   unf, scan, seen, cur, todo, dst>>

(* Mutant: orders the index does not know are filtered out.                *)
ReadUnfinishedIndexed ==
    /\ pc = "unfinished"
    /\ unf' = {o \in Live : index[o] # NoBatch}
    /\ scan' = Pending
    /\ pc' = "pass_one"
    /\ UNCHANGED <<brokerVars, logVars, channelVars, t, endAge,
                   now, vol, seen, cur, todo, dst>>

(* get_unfinished_orders, then _pass_one's glob of pending/.               *)
ReadUnfinished ==
    /\ pc = "unfinished"
    /\ unf' \in IF Answers THEN {Live} ELSE {Live, {}}
    /\ scan' = Pending
    /\ pc' = "pass_one"
    /\ UNCHANGED <<brokerVars, logVars, channelVars, t, endAge,
                   now, vol, seen, cur, todo, dst>>

(* Either query may raise; nothing has been done yet.                      *)
QueryRaises ==
    /\ "query" \in Faults
    /\ pc \in {"guarded", "unfinished"}
    /\ EndCycle
    /\ UNCHANGED <<brokerVars, logVars, channelVars, t>>

-----------------------------------------------------------------------------
(* _pass_one: one step per file, in the order of sorted(glob).             *)

Next1(b) == b \in scan /\ \A c \in scan : b <= c

(* Mutant: the record goes to failed/ with its document.                   *)
PassOneInvalidPair(b) ==
    /\ pc = "pass_one" /\ Next1(b)
    /\ ~doc[b].ok \/ "disk" \in Faults
    /\ scan' = scan \ {b}
    /\ MoveDoc(b, "failed") /\ MoveRecordTo(b, "failed")
    /\ UNCHANGED <<brokerVars, channelVars, doc, lines, buf, index,
                   t, endAge, pc, now, vol, unf, seen, cur, todo, dst>>

(* parse_and_validate raises, also for a passing read error: move_invalid. *)
(* When that raises too, the file stays and the scan goes on.              *)
PassOneInvalid(b) ==
    /\ pc = "pass_one" /\ Next1(b)
    /\ ~doc[b].ok \/ "disk" \in Faults
    /\ scan' = scan \ {b}
    /\ \/ MoveDoc(b, "failed")
       \/ "disk" \in Faults /\ UNCHANGED at
    /\ UNCHANGED <<brokerVars, channelVars, doc, recAt, lines, buf, index,
                   t, endAge, pc, now, vol, unf, seen, cur, todo, dst>>

(* Mutant: orders are taken for the batch's by their symbol.               *)
OursBySymbol(b) == {o \in unf : book[o].sym \in doc[b].syms}
Ours(b) == {o \in unf : index[o] = b}

(* Mutant: a batch whose orders are still live is not closed.              *)
ExpiredAndQuiet(b) == now > doc[b].expires /\ Ours(b) = {}
Expired(b) == now > doc[b].expires

(* _cancel_alive: order_cancel on the batch's orders in the snapshot. An   *)
(* exception is logged and the batch is closed all the same.               *)
PassOneExpired(b) ==
    /\ pc = "pass_one" /\ Next1(b)
    /\ doc[b].ok /\ Expired(b)
    /\ \/ RequestCancel(Ours(b))
       \/ "cancel" \in Faults /\ UNCHANGED book
    /\ scan' = scan \ {b} /\ cur' = b /\ dst' = "expired"
    /\ pc' = "cancel_log"
    /\ UNCHANGED <<held, logVars, channelVars, t, endAge,
                   now, vol, unf, seen, todo>>

(* _cancel_alive's session: one cancel line per order, written and closed. *)
LogCancels ==
    /\ pc = "cancel_log"
    /\ lines' = [lines EXCEPT ![cur] = @ \cup ({"cancel"} \X Ours(cur))]
    /\ IF Ours(cur) = {} THEN UNCHANGED recAt ELSE OpenRecord(cur)
    /\ pc' = "move_doc"
    /\ UNCHANGED <<brokerVars, channelVars, at, doc, buf, index,
                   t, endAge, localVars>>

PassOneKeep(b) ==
    /\ pc = "pass_one" /\ Next1(b)
    /\ doc[b].ok /\ ~Expired(b)
    /\ scan' = scan \ {b} /\ seen' = seen \cup {b}
    /\ UNCHANGED <<brokerVars, logVars, channelVars, t, endAge, pc,
                   now, vol, unf, cur, todo, dst>>

-----------------------------------------------------------------------------
(* _has_overlap and the choice of the active batch. The code compares      *)
(* neighbours after sorting by valid_at; WindowsProofs shows that this is  *)
(* the same as comparing every pair, and that at most one batch is active. *)

Overlap == SomeOverlap(seen, doc)
Active == {b \in seen : now >= doc[b].valid}

StopAfterPassOne ==
    /\ pc = "pass_one" /\ scan = {}
    /\ Overlap \/ Active = {}
    /\ EndCycle
    /\ UNCHANGED <<brokerVars, logVars, channelVars, t>>

StartReconcile(b) ==
    /\ pc = "pass_one" /\ scan = {}
    /\ ~Overlap /\ b \in Active
    /\ cur' = b /\ todo' = doc[b].syms
    /\ pc' = "reconcile"
    /\ UNCHANGED <<brokerVars, logVars, channelVars, t, endAge,
                   now, vol, unf, scan, seen, dst>>

-----------------------------------------------------------------------------
(* _reconcile: one step per order of the document.                         *)

Goal(s) == doc[cur].target[s]
Diff(s) == Goal(s) - vol[s]
(* Mutant: only the batch's own orders are waited for.                     *)
UnfinishedOwn(s) == {o \in unf : book[o].sym = s /\ o \in Submitted(cur)}
UnfinishedOn(s) == {o \in unf : book[o].sym = s}

(* _cap_sell: what is submitted when the broker would sell avail shares.   *)
Capped(s, avail) == Diff(s) < 0 /\ avail < 0 - Diff(s)
Quantity(s, avail) == IF Diff(s) > 0 THEN Diff(s)
                      ELSE IF Capped(s, avail) THEN avail ELSE 0 - Diff(s)
CapLine(s, avail) == IF Capped(s, avail) THEN {<<"cap", s>>} ELSE {}
Write(new) == IF new = {} THEN UNCHANGED <<recAt, buf>> ELSE AppendLine(cur, new)

(* What visiting s leaves alone, whatever it does about an order.          *)
Visit(s) ==
    /\ pc = "reconcile" /\ s \in todo
    /\ todo' = todo \ {s}
    /\ UNCHANGED <<held, at, doc, lines, channelVars, t, endAge, pc,
                   now, vol, unf, scan, seen, cur, dst>>

(* An unfinished order, own or foreign, is waited for; or nothing is left  *)
(* to do.                                                                  *)
LeaveOrder(s) ==
    /\ Visit(s)
    /\ UnfinishedOn(s) # {} \/ Diff(s) = 0
    /\ UNCHANGED <<book, recAt, buf, index>>

Differs(s) == UnfinishedOn(s) = {} /\ Diff(s) # 0

(* avail, the broker's available volume, only matters here: it is chosen   *)
(* now instead of in the snapshot.                                         *)
CapToNothing(s) ==
    /\ Visit(s) /\ Differs(s)
    /\ Quantity(s, 0) = 0
    /\ Write(CapLine(s, 0))
    /\ UNCHANGED <<book, index>>

Place(s, avail, o) ==
    /\ Differs(s) /\ Quantity(s, avail) > 0
    /\ PlaceOrder(o, s, Diff(s) > 0, Quantity(s, avail), cur, Goal(s))

(* Mutant: the order is logged but not indexed.                            *)
SubmitUnindexed(s, avail, o) ==
    /\ Visit(s) /\ Place(s, avail, o)
    /\ UNCHANGED index
    /\ Write(CapLine(s, avail) \cup {<<"submit", o>>})

(* _submit: the order is placed, indexed and logged.                       *)
SubmitOrder(s, avail, o) ==
    /\ Visit(s) /\ Place(s, avail, o)
    /\ index' = [index EXCEPT ![o] = cur]
    /\ Write(CapLine(s, avail) \cup {<<"submit", o>>})

(* order_volume raises or returns no usable result: placed or not, the     *)
(* program has no id for it.                                               *)
SubmitUnanswered(s, avail) ==
    /\ "ack" \in Faults
    /\ Visit(s) /\ Differs(s) /\ Quantity(s, avail) > 0
    /\ (\E o \in OrdId : Place(s, avail, o)) \/ UNCHANGED book
    /\ Write(CapLine(s, avail))
    /\ UNCHANGED index

(* session.append raises: on the cap line, before the order is placed, or  *)
(* on the submit line, after the order is placed and indexed.              *)
CapRaises(s, avail) ==
    /\ Capped(s, avail)
    /\ UNCHANGED <<book, recAt, buf, index>>

SubmitLineRaises(s, avail) ==
    /\ \E o \in OrdId : /\ Place(s, avail, o)
                        /\ index' = [index EXCEPT ![o] = cur]
    /\ Write(CapLine(s, avail))

AppendRaises(s, avail) ==
    /\ "disk" \in Faults
    /\ Visit(s) /\ Differs(s)
    /\ CapRaises(s, avail) \/ SubmitLineRaises(s, avail)

SpillBuffer ==
    /\ pc = "reconcile" /\ Spill(cur)
    /\ UNCHANGED <<brokerVars, channelVars, at, doc, recAt, index,
                   t, endAge, pc, localVars>>

CloseSession ==
    /\ pc = "reconcile" /\ todo = {}
    /\ Close(cur)
    /\ pc' = "matched"
    /\ UNCHANGED <<brokerVars, channelVars, at, doc, recAt, index,
                   t, endAge, localVars>>

-----------------------------------------------------------------------------
(* _matched, and move_pair.                                                *)

(* replay_record swallows a read error and then returns no line at all.    *)
OwnIds == {Submitted(cur)} \cup IF "disk" \in Faults THEN {{}} ELSE {}

(* Mutants: no position is compared; a position past the target will do.   *)
MatchedNoOrders(own) == \A s \in doc[cur].syms : UnfinishedOn(s) \cap own = {}
MatchedAtLeast(own) == \A s \in doc[cur].syms :
    vol[s] >= Goal(s) /\ UnfinishedOn(s) \cap own = {}

Matched(own) == \A s \in doc[cur].syms :
    vol[s] = Goal(s) /\ UnfinishedOn(s) \cap own = {}

NotMatched ==
    /\ pc = "matched"
    /\ \E own \in OwnIds : ~Matched(own)
    /\ EndCycle
    /\ UNCHANGED <<brokerVars, logVars, channelVars, t>>

FinishBatch ==
    /\ pc = "matched"
    /\ \E own \in OwnIds : Matched(own)
    /\ dst' = "finished"
    /\ pc' = "move_doc"
    /\ UNCHANGED <<brokerVars, logVars, channelVars, t, endAge,
                   now, vol, unf, scan, seen, cur, todo>>

MoveDocument ==
    /\ pc = "move_doc"
    /\ MoveDoc(cur, dst)
    /\ pc' = "move_record"
    /\ UNCHANGED <<brokerVars, channelVars, doc, recAt, lines, buf, index,
                   t, endAge, localVars>>

(* After an expired batch the scan goes on; after a finished one the cycle *)
(* is over.                                                                *)
MoveRecord ==
    /\ pc = "move_record"
    /\ MoveRecordTo(cur, dst)
    /\ \/ /\ dst = "expired"
          /\ pc' = "pass_one" /\ cur' = NoBatch
          /\ UNCHANGED <<endAge, now, vol, unf, scan, seen, todo, dst>>
       \/ dst = "finished" /\ EndCycle
    /\ UNCHANGED <<brokerVars, channelVars, at, doc, lines, buf, index, t>>

(* A file operation of the worker raises out of run_cycle: what was done   *)
(* before stays done, what came after is lost, the buffer included.        *)
DiskRaises ==
    /\ "disk" \in Faults
    /\ \/ pc \in {"cancel_log", "move_doc", "move_record"}
       \/ pc = "reconcile" /\ todo = {} /\ buf # {}
    /\ buf' = {}
    /\ EndCycle
    /\ UNCHANGED <<brokerVars, channelVars, at, doc, recAt, lines, index, t>>

-----------------------------------------------------------------------------
(* The other actors.                                                       *)

(* Mutant: _is_terminal is not asked.                                      *)
MirrorFileAgain(b, d, passNow) ==
    /\ pc \in {"idle", "guarded"}
    /\ d.valid < d.expires
    /\ at[b] # "pending" => passNow < d.expires
    /\ at[b] # "pending" \/ doc[b] # d
    /\ MoveDoc(b, "pending")
    /\ doc' = [doc EXCEPT ![b] = d]
    /\ UNCHANGED <<brokerVars, channelVars, recAt, lines, buf, index,
                   cycleVars>>

(* connector._import_pass, one file: version d of batch b, by a clock the  *)
(* pass read at an earlier moment, before it waited for the lock.          *)
MirrorFile(b, d, passNow) ==
    /\ pc \in {"idle", "guarded"}
    /\ d.valid < d.expires
    /\ at[b] \notin Terminal
    /\ at[b] = "absent" => passNow < d.expires
    /\ at[b] = "absent" \/ doc[b] # d
    /\ MoveDoc(b, "pending")
    /\ doc' = [doc EXCEPT ![b] = d]
    /\ UNCHANGED <<brokerVars, channelVars, recAt, lines, buf, index,
                   cycleVars>>

Quiet == pc # "unfinished" \/ "torn" \in Faults

BrokerStep ==
    /\ \/ Quiet /\ \E o \in OrdId : EndOrder(o) \/ \E q \in 1..book[o].left : Fill(o, q)
       \/ \E o \in OrdId, s \in Symbol, isBuy \in BOOLEAN : ManualOrder(o, s, isBuy)
    /\ UNCHANGED <<logVars, channelVars, cycleVars>>

ChannelStep ==
    /\ pc # "down"
    /\ \/ LinkDrops /\ \/ "gap" \in Faults
                       \/ "drop" \in Faults /\ pc \notin {"guarded", "unfinished"}
       \/ LinkReturns \/ OnDisconnected
       \/ OnConnectedSet \/ OnConnectedStamp \/ OnLoggedIn
    /\ UNCHANGED <<brokerVars, logVars, cycleVars>>

Tick ==
    /\ t' = IF t < MaxTime THEN t + 1 ELSE t
    /\ endAge' = Older(endAge, Grace)
    /\ ChannelTick
    /\ UNCHANGED <<brokerVars, logVars, pc, localVars>>

(* The process dies: memory, and with it the open session's buffer, is     *)
(* gone.                                                                   *)
Crash ==
    /\ "crash" \in Faults /\ pc # "down"
    /\ pc' = "down"
    /\ buf' = {} /\ index' = [o \in OrdId |-> NoBatch]
    /\ endAge' = Grace /\ ForgetSnapshot
    /\ UNCHANGED <<brokerVars, channelVars, at, doc, recAt, lines, t>>

(* main.init: rebuild_clord_index, then the worker starts idle.            *)
Restart ==
    /\ pc = "down"
    /\ pc' = "idle"
    /\ RebuildIndex /\ ChannelRestart
    /\ UNCHANGED <<brokerVars, at, doc, recAt, lines, buf, t, endAge, localVars>>

-----------------------------------------------------------------------------
PassOne == \E b \in Batch : PassOneInvalid(b) \/ PassOneExpired(b) \/ PassOneKeep(b)

ReconcileOrder == \E s \in Symbol :
    \/ LeaveOrder(s)
    \/ CapToNothing(s)
    \/ \E avail \in 0..vol[s] :
        \/ \E o \in OrdId : SubmitOrder(s, avail, o)
        \/ SubmitUnanswered(s, avail)
        \/ AppendRaises(s, avail)

Worker ==
    \/ PassGuards \/ ReadPositions \/ ReadUnfinished \/ QueryRaises
    \/ PassOne \/ LogCancels
    \/ StopAfterPassOne \/ \E b \in Batch : StartReconcile(b)
    \/ ReconcileOrder \/ SpillBuffer \/ CloseSession
    \/ NotMatched \/ FinishBatch \/ MoveDocument \/ MoveRecord \/ DiskRaises

Mirror == \E b \in Batch : \E d \in Docs[b], passNow \in 1..t :
    MirrorFile(b, d, passNow)

Next == Worker \/ Mirror \/ BrokerStep \/ ChannelStep \/ Tick \/ Crash \/ Restart

Spec == Init /\ [][Next]_vars
=============================================================================
