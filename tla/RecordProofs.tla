---------------------------- MODULE RecordProofs -----------------------------
(***************************************************************************)
(* Theorems about what the cycle knows of its own orders: the index that a *)
(* restart rebuilds from the records, the orders an expired batch cancels, *)
(* and the windows in which orders are placed.                             *)
(***************************************************************************)
EXTENDS LifecycleProofs

USE BatchAssumption, SymbolAssumption, ClockAssumption, GraceAssumption,
    OpeningAssumption, DocsAssumption

(* Where files can be read, or where the process lives, no restart rebuilds *)
(* the index from a record that it could not read to the end.              *)
WholeIndex == ~({"disk", "crash"} \subseteq Faults)

(* The lines of the open session are those of the batch in hand; a submit  *)
(* line or an index entry belongs to an order that was placed, for that    *)
(* batch: so no order is in two records.                                   *)
RecordInv ==
    /\ buf # {} => pc = "reconcile"
    /\ \A o \in OrdId : <<"submit", o>> \in buf =>
          book[o].st # "unused" /\ book[o].owner = cur /\ index[o] = cur
    /\ \A b \in Batch : \A o \in Submitted(b) :
          book[o].st # "unused" /\ book[o].owner = b
    /\ \A o \in OrdId : index[o] # NoBatch =>
          book[o].st # "unused" /\ book[o].owner = index[o]
    /\ pc = "down" => "crash" \in Faults
    /\ WholeIndex => RecordedIsIndexed

(* Placed orders keep their owner.                                         *)
Owned == \A o \in OrdId : book[o].st # "unused" =>
    book'[o].st # "unused" /\ book'[o].owner = book[o].owner

LEMMA BookUnchangedOwned == UNCHANGED book => Owned
BY DEF Owned

LEMMA CancelOwned ==
    ASSUME TypeOK, NEW ords, RequestCancel(ords)
    PROVE  Owned
<1>1. \A o \in OrdId : book[o] \in Order
  BY DEF TypeOK, BrokerTypeOK
<1>2. \A ord \in Order : LET new == [ord EXCEPT !.asked = TRUE] IN
        new.st = ord.st /\ new.owner = ord.owner
  BY DEF Order
<1> QED
  BY <1>1, <1>2 DEF RequestCancel, Owned

LEMMA PlaceOwned ==
    ASSUME TypeOK, NEW o \in OrdId, NEW s, NEW isBuy, NEW q, NEW b, NEW g,
           PlaceOrder(o, s, isBuy, q, b, g)
    PROVE  /\ Owned /\ book[o].st = "unused"
           /\ book'[o].st = "live" /\ book'[o].owner = b
BY DEF TypeOK, BrokerTypeOK, PlaceOrder, Owned

LEMMA BrokerOwned ==
    ASSUME TypeOK, BrokerStep
    PROVE  Owned
<1>1. \A o \in OrdId : book[o] \in Order
  BY DEF TypeOK, BrokerTypeOK
<1>2. ASSUME NEW o \in OrdId, EndOrder(o)
      PROVE  Owned
  BY <1>1, <1>2 DEF EndOrder, Ended, Order, TypeOK, BrokerTypeOK, Owned
<1>3. ASSUME NEW o \in OrdId, NEW q \in 1..book[o].left, Fill(o, q)
      PROVE  Owned
  BY <1>1, <1>3 DEF Fill, Ended, Order, TypeOK, BrokerTypeOK, Owned
<1> QED
  BY <1>2, <1>3, PlaceOwned DEF BrokerStep, ManualOrder

(* Steps that add no line and no index entry keep the invariant.           *)
LEMMA RecordKept ==
    ASSUME RecordInv, Owned, UNCHANGED <<lines, index>>, pc' = "down" <=> pc = "down",
           \/ buf' = {}
           \/ UNCHANGED <<buf, cur>> /\ (pc = "reconcile" => pc' = "reconcile")
    PROVE  RecordInv'
<1>1. \A b \in Batch : Submitted(b)' = Submitted(b)
  BY DEF Submitted
<1>2. \A o \in OrdId : <<"submit", o>> \in buf' => <<"submit", o>> \in buf /\ cur' = cur
  OBVIOUS
<1>3. WholeIndex => RecordedIsIndexed'
  BY <1>1 DEF RecordInv, RecordedIsIndexed
<1>4. buf' # {} => pc' = "reconcile"
  BY DEF RecordInv
<1>5. \A b \in Batch : \A o \in Submitted(b) : o \in OrdId
  BY DEF Submitted
<1> QED
  BY <1>1, <1>2, <1>3, <1>4, <1>5 DEF RecordInv, Owned

(* The session's lines reach the disk: they are the batch's own.           *)
LEMMA CloseKeepsRecord ==
    ASSUME TypeOK, RecordInv, cur \in Batch, Close(cur), UNCHANGED <<book, index>>,
           pc # "down", pc' # "down"
    PROVE  RecordInv'
<1> USE DEF RecordInv
<1>1. /\ buf' = {} /\ lines' = [lines EXCEPT ![cur] = lines[cur] \cup buf]
  BY DEF Close
<1>2. /\ lines'[cur] = lines[cur] \cup buf
      /\ \A b \in Batch \ {cur} : lines'[b] = lines[b]
  BY <1>1 DEF TypeOK, LogTypeOK
<1>3. ASSUME NEW b \in Batch, NEW o \in Submitted(b)'
      PROVE  /\ book[o].st # "unused" /\ book[o].owner = b
             /\ WholeIndex => index[o] = b
  <2>1. o \in OrdId /\ <<"submit", o>> \in lines'[b]
    BY <1>3 DEF Submitted
  <2>2. CASE o \in Submitted(b)
    BY <2>2 DEF RecordedIsIndexed
  <2>3. CASE o \notin Submitted(b)
    BY <1>2, <2>1, <2>3 DEF Submitted
  <2> QED
    BY <2>2, <2>3
<1> QED
  BY <1>1, <1>3 DEF RecordedIsIndexed

(* An order that a visit places is in no record and not in the index yet.  *)
LEMMA VisitKeepsRecord ==
    ASSUME TypeOK, RecordInv, NEW s \in Symbol, Visit(s),
           NEW new, Write(new) \/ UNCHANGED <<recAt, buf>>,
           \/ /\ UNCHANGED index /\ Owned
              /\ \A o \in OrdId : <<"submit", o>> \notin new
           \/ \E avail \in 0..vol[s] : \E o \in OrdId :
                 /\ Place(s, avail, o) /\ index' = [index EXCEPT ![o] = cur]
                 /\ \A p \in OrdId : <<"submit", p>> \in new => p = o
    PROVE  RecordInv'
<1> USE DEF RecordInv
<1>1. /\ pc = "reconcile" /\ cur \in Batch /\ UNCHANGED <<lines, cur, pc>>
      /\ buf' = buf \/ buf' = buf \cup new
  BY DEF Visit, Write, AppendLine, TypeOK, CycleTypeOK, Handling
<1>2. \A b \in Batch : Submitted(b)' = Submitted(b) /\ Submitted(b) \subseteq OrdId
  BY <1>1 DEF Submitted
<1>3. CASE /\ UNCHANGED index /\ Owned
           /\ \A o \in OrdId : <<"submit", o>> \notin new
  <2>1. \A o \in OrdId : <<"submit", o>> \in buf' => <<"submit", o>> \in buf
    BY <1>1, <1>3
  <2> QED
    BY <1>1, <1>2, <1>3, <2>1 DEF Owned, RecordedIsIndexed
<1>4. ASSUME NEW avail \in 0..vol[s], NEW o \in OrdId,
             Place(s, avail, o), index' = [index EXCEPT ![o] = cur],
             \A p \in OrdId : <<"submit", p>> \in new => p = o
      PROVE  RecordInv'
  <2>1. /\ Owned /\ book[o].st = "unused"
        /\ book'[o].st = "live" /\ book'[o].owner = cur
    BY <1>4, PlaceOwned DEF Place
  <2>2. /\ index'[o] = cur /\ \A p \in OrdId \ {o} : index'[p] = index[p]
    BY <1>4 DEF TypeOK, LogTypeOK
  <2>3. \A p \in OrdId : <<"submit", p>> \in buf' => p = o \/ <<"submit", p>> \in buf
    BY <1>1, <1>4
  <2>4. \A b \in Batch : o \notin Submitted(b)
    BY <2>1
  <2>5. \A p \in OrdId : <<"submit", p>> \in buf' =>
           book'[p].st # "unused" /\ book'[p].owner = cur' /\ index'[p] = cur'
    BY <1>1, <2>1, <2>2, <2>3 DEF Owned
  <2>6. \A b \in Batch : \A p \in Submitted(b)' :
           book'[p].st # "unused" /\ book'[p].owner = b
    BY <1>2, <2>1 DEF Owned
  <2>7. \A p \in OrdId : index'[p] # NoBatch =>
           book'[p].st # "unused" /\ book'[p].owner = index'[p]
    BY <2>1, <2>2 DEF Owned
  <2>8. WholeIndex => RecordedIsIndexed'
    <3>1. ASSUME WholeIndex, NEW b \in Batch, NEW p \in Submitted(b)'
          PROVE  index'[p] = b
      <4>1. p \in Submitted(b) /\ p \in OrdId /\ p # o
        BY <1>2, <2>4, <3>1
      <4> QED
        BY <1>1, <2>2, <3>1, <4>1 DEF RecordedIsIndexed
    <3> QED
      BY <3>1 DEF RecordedIsIndexed
  <2>9. (buf' # {} => pc' = "reconcile") /\ pc' # "down"
    BY <1>1
  <2> QED
    BY <2>5, <2>6, <2>7, <2>8, <2>9
<1> QED
  BY <1>3, <1>4

LEMMA NoNewLine ==
    ASSUME TypeOK, RecordInv, NEW s \in Symbol, Visit(s), UNCHANGED <<recAt, buf>>,
           \/ UNCHANGED index /\ Owned
           \/ \E avail \in 0..vol[s] : \E o \in OrdId :
                 Place(s, avail, o) /\ index' = [index EXCEPT ![o] = cur]
    PROVE  RecordInv'
<1> DEFINE none == {}
<1>1. \A o \in OrdId : <<"submit", o>> \notin none
  OBVIOUS
<1> HIDE DEF none
<1> QED
  BY <1>1, VisitKeepsRecord

LEMMA ReconcileKeepsRecord ==
    ASSUME TypeOK, RecordInv, ReconcileOrder
    PROVE  RecordInv'
<1>1. PICK s \in Symbol :
        \/ LeaveOrder(s)
        \/ CapToNothing(s)
        \/ \E avail \in 0..vol[s] :
            \/ \E o \in OrdId : SubmitOrder(s, avail, o)
            \/ SubmitUnanswered(s, avail)
            \/ AppendRaises(s, avail)
  BY DEF ReconcileOrder
<1>2. \A avail : \A o \in OrdId : <<"submit", o>> \notin CapLine(s, avail)
  BY DEF CapLine
<1>3. CASE LeaveOrder(s)
  <2>1. Visit(s) /\ UNCHANGED <<book, recAt, buf, index>>
    BY <1>3 DEF LeaveOrder
  <2> QED
    BY <2>1, BookUnchangedOwned, NoNewLine
<1>4. CASE CapToNothing(s)
  BY <1>2, <1>4, BookUnchangedOwned, VisitKeepsRecord DEF CapToNothing
<1>5. ASSUME NEW avail \in 0..vol[s], NEW o \in OrdId, SubmitOrder(s, avail, o)
      PROVE  RecordInv'
  <2>1. \A p \in OrdId : <<"submit", p>> \in CapLine(s, avail) \cup {<<"submit", o>>} => p = o
    BY <1>2
  <2> QED
    BY <1>5, <2>1, VisitKeepsRecord DEF SubmitOrder
<1>6. ASSUME NEW avail \in 0..vol[s], SubmitUnanswered(s, avail)
      PROVE  RecordInv'
  <2>1. /\ Visit(s) /\ Write(CapLine(s, avail)) /\ UNCHANGED index
        /\ UNCHANGED book \/ \E o \in OrdId : Place(s, avail, o)
    BY <1>6 DEF SubmitUnanswered
  <2>2. Owned
    BY <2>1, BookUnchangedOwned, PlaceOwned DEF Place
  <2> QED
    BY <1>2, <2>1, <2>2, VisitKeepsRecord
<1>7. ASSUME NEW avail \in 0..vol[s], AppendRaises(s, avail)
      PROVE  RecordInv'
  <2>1. Visit(s)
    BY <1>7 DEF AppendRaises
  <2>2. CASE CapRaises(s, avail)
    BY <2>1, <2>2, BookUnchangedOwned, NoNewLine DEF CapRaises
  <2>3. CASE SubmitLineRaises(s, avail)
    BY <1>2, <2>1, <2>3, VisitKeepsRecord DEF SubmitLineRaises
  <2> QED
    BY <1>7, <2>2, <2>3 DEF AppendRaises
<1> QED
  BY <1>1, <1>3, <1>4, <1>5, <1>6, <1>7

LEMMA WorkerKeepsRecord ==
    ASSUME TypeOK, RecordInv, Worker
    PROVE  RecordInv'
<1>1. CASE SpillBuffer \/ CloseSession
  <2>1. /\ cur \in Batch /\ Close(cur) /\ UNCHANGED <<book, index>>
        /\ pc # "down" /\ pc' # "down"
    BY <1>1 DEF SpillBuffer, Spill, CloseSession, brokerVars, TypeOK, CycleTypeOK, Handling
  <2> QED
    BY <2>1, CloseKeepsRecord
<1>2. CASE LogCancels
  <2>1. /\ UNCHANGED <<book, buf, index, cur>> /\ pc' # "down" /\ pc # "down"
        /\ lines' = [lines EXCEPT ![cur] = lines[cur] \cup ({"cancel"} \X Ours(cur))]
        /\ pc # "reconcile"
    BY <1>2 DEF LogCancels, brokerVars, localVars
  <2>2. \A b \in Batch : Submitted(b)' = Submitted(b)
    BY <2>1 DEF Submitted, TypeOK, LogTypeOK
  <2> QED
    BY <2>1, <2>2 DEF RecordInv, RecordedIsIndexed
<1>3. ASSUME NEW b \in Batch, PassOneExpired(b)
      PROVE  RecordInv'
  <2>1. /\ UNCHANGED <<buf, lines, index>> /\ pc = "pass_one" /\ pc' = "cancel_log"
        /\ UNCHANGED book \/ RequestCancel(Ours(b))
    BY <1>3 DEF PassOneExpired, logVars
  <2>2. Owned
    BY <2>1, BookUnchangedOwned, CancelOwned
  <2>3. buf = {}
    BY <2>1 DEF RecordInv
  <2> QED
    BY <2>1, <2>2, <2>3, RecordKept
<1>4. CASE \/ PassGuards \/ ReadPositions \/ ReadUnfinished \/ QueryRaises
           \/ StopAfterPassOne \/ NotMatched \/ FinishBatch \/ MoveDocument
           \/ MoveRecord \/ DiskRaises
           \/ \E b \in Batch : PassOneInvalid(b) \/ PassOneKeep(b) \/ StartReconcile(b)
  <2>1. /\ UNCHANGED <<book, lines, index>> /\ pc # "down" /\ pc' # "down"
        /\ buf' = {} \/ (UNCHANGED buf /\ pc # "reconcile")
    BY <1>4 DEF PassGuards, ReadPositions, ReadUnfinished, QueryRaises,
       StopAfterPassOne, NotMatched, FinishBatch, MoveDocument, MoveRecord,
       DiskRaises, PassOneInvalid, PassOneKeep, StartReconcile, EndCycle, brokerVars,
       logVars
  <2>2. buf' = {}
    BY <2>1 DEF RecordInv
  <2> QED
    BY <2>1, <2>2, BookUnchangedOwned, RecordKept
<1> QED
  BY <1>1, <1>2, <1>3, <1>4, ReconcileKeepsRecord DEF Worker, PassOne

(* A restart finds each order in the one record that has it, if it finds   *)
(* it at all: a record that cannot be read to the end hides the rest of    *)
(* its orders.                                                             *)
LEMMA RestartKeepsRecord ==
    ASSUME TypeOK, RecordInv, Restart
    PROVE  RecordInv'
<1>1. /\ pc = "down"
      /\ UNCHANGED <<book, lines, buf, cur>> /\ pc' = "idle"
      /\ RebuildIndex
  BY DEF Restart, brokerVars, localVars
<1>2. PICK found \in [Batch -> SUBSET OrdId] :
        /\ \A b \in Batch : found[b] \in Scans(b)
        /\ index' = [o \in OrdId |-> Rebuilt(found, o)]
  BY <1>1 DEF RebuildIndex
<1>3. \A b \in Batch : Submitted(b)' = Submitted(b) /\ Submitted(b) \subseteq OrdId
  BY <1>1 DEF Submitted
<1>4. \A b \in Batch : /\ found[b] \subseteq Submitted(b)
                       /\ WholeIndex => found[b] = Submitted(b)
  BY <1>1, <1>2 DEF Scans, WholeIndex, RecordInv
<1>5. ASSUME NEW b \in Batch, NEW o \in Submitted(b), WholeIndex
      PROVE  Rebuilt(found, o) = b
  <2>1. o \in found[b] /\ \A c \in Batch : o \in found[c] => c = b
    BY <1>3, <1>4, <1>5 DEF RecordInv
  <2> QED
    BY <2>1 DEF Rebuilt
<1>6. ASSUME NEW o \in OrdId, Rebuilt(found, o) # NoBatch
      PROVE  book[o].st # "unused" /\ book[o].owner = Rebuilt(found, o)
  <2>1. Rebuilt(found, o) \in Batch /\ o \in found[Rebuilt(found, o)]
    BY <1>6 DEF Rebuilt
  <2> QED
    BY <1>4, <2>1 DEF RecordInv
<1>7. buf = {}
  BY <1>1 DEF RecordInv
<1>8. WholeIndex => RecordedIsIndexed'
  BY <1>2, <1>3, <1>5 DEF RecordedIsIndexed
<1> QED
  BY <1>1, <1>2, <1>3, <1>6, <1>7, <1>8 DEF RecordInv

LEMMA NextKeepsRecord ==
    ASSUME TypeOK, RecordInv, [Next]_vars
    PROVE  RecordInv'
<1>1. CASE Mirror \/ ChannelStep \/ Tick \/ UNCHANGED vars
  <2>1. UNCHANGED <<book, lines, buf, index, cur, pc>>
    BY <1>1 DEF Mirror, MirrorFile, ChannelStep, Tick, vars, brokerVars, logVars,
       cycleVars, localVars
  <2> QED
    BY <2>1, BookUnchangedOwned, RecordKept
<1>2. CASE BrokerStep
  <2>1. UNCHANGED <<lines, buf, index, cur, pc>>
    BY <1>2 DEF BrokerStep, logVars, cycleVars
  <2> QED
    BY <1>2, <2>1, BrokerOwned, RecordKept
<1>3. CASE Crash
  <2>1. /\ UNCHANGED <<book, lines>> /\ buf' = {} /\ pc' = "down" /\ "crash" \in Faults
        /\ \A o \in OrdId : index'[o] = NoBatch
    BY <1>3 DEF Crash, brokerVars
  <2>2. \A b \in Batch : Submitted(b)' = Submitted(b)
    BY <2>1 DEF Submitted
  <2> QED
    BY <2>1, <2>2 DEF RecordInv, RecordedIsIndexed
<1> QED
  BY <1>1, <1>2, <1>3, WorkerKeepsRecord, RestartKeepsRecord DEF Next

LEMMA InitRecordInv == Init => RecordInv
<1> SUFFICES ASSUME Init PROVE RecordInv
  OBVIOUS
<1>1. \A b \in Batch : Submitted(b) = {}
  BY DEF Init, LogInit, Submitted
<1> QED
  BY <1>1 DEF Init, LogInit, RecordInv, RecordedIsIndexed

LEMMA RecordInvHolds == Spec => [](TypeOK /\ RecordInv)
<1>1. Init => TypeOK /\ RecordInv
  BY InitTypeOK, InitRecordInv
<1>2. TypeOK /\ RecordInv /\ [Next]_vars => (TypeOK /\ RecordInv)'
  BY NextTypeOK, NextKeepsRecord
<1> QED
  BY <1>1, <1>2, PTL DEF Spec

(* While the program runs, each order with a submit line on disk is in     *)
(* clord_index under the batch of that record, whatever else fails, trades *)
(* on the account or dies, and after every restart: unless a record that   *)
(* could not be read met a restart.                                        *)
THEOREM RecordedStaysIndexed ==
    ASSUME WholeIndex
    PROVE  Spec => []RecordedIsIndexed
<1>1. RecordInv => RecordedIsIndexed
  BY DEF RecordInv
<1> QED
  BY RecordInvHolds, <1>1, PTL

(* Nothing is cancelled but the orders of a batch that has expired by the  *)
(* cycle's clock: with any fault, after any restart.                       *)
THEOREM CancelsOnlyTheExpired == Spec => CancelsOnlyExpired
<1>1. ASSUME TypeOK, RecordInv, [Next]_vars,
             NEW o \in OrdId, ~book[o].asked, book'[o].asked
      PROVE  book[o].owner \in Batch /\ now > doc[book[o].owner].expires
  <2>1. \A p \in OrdId : book[p] \in Order
    BY <1>1 DEF TypeOK, BrokerTypeOK
  <2>2. PICK b \in Batch : PassOneExpired(b) /\ RequestCancel(Ours(b))
    <3>1. \A p \in OrdId : \A s, isBuy, q, b, g :
             PlaceOrder(p, s, isBuy, q, b, g) => ~book'[o].asked
      BY <1>1, <2>1 DEF PlaceOrder, TypeOK, BrokerTypeOK
    <3>2. \A s \in Symbol : \A avail : \A p \in OrdId : ~Place(s, avail, p)
      BY <1>1, <3>1 DEF Place
    <3>3. CASE BrokerStep
      <4>1. ASSUME NEW p \in OrdId, EndOrder(p)
            PROVE  FALSE
        BY <1>1, <2>1, <4>1 DEF EndOrder, Ended, Order, TypeOK, BrokerTypeOK
      <4>2. ASSUME NEW p \in OrdId, NEW q \in 1..book[p].left, Fill(p, q)
            PROVE  FALSE
        BY <1>1, <2>1, <4>2 DEF Fill, Ended, Order, TypeOK, BrokerTypeOK
      <4> QED
        BY <1>1, <3>1, <3>3, <4>1, <4>2 DEF BrokerStep, ManualOrder
    <3>4. CASE ReconcileOrder
      BY <1>1, <3>2, <3>4 DEF ReconcileOrder, LeaveOrder, CapToNothing, SubmitOrder,
         SubmitUnanswered, AppendRaises, CapRaises, SubmitLineRaises
    <3>5. CASE \E b \in Batch : PassOneExpired(b)
      BY <1>1, <3>5 DEF PassOneExpired
    <3>6. CASE ~BrokerStep /\ ~ReconcileOrder /\ ~\E b \in Batch : PassOneExpired(b)
      <4>1. UNCHANGED book
        BY <1>1, <3>6 DEF Next, Worker, PassGuards, ReadPositions, ReadUnfinished,
           QueryRaises, PassOne, PassOneInvalid, PassOneKeep, LogCancels,
           StopAfterPassOne, StartReconcile, SpillBuffer, CloseSession, NotMatched,
           FinishBatch, MoveDocument, MoveRecord, DiskRaises, Mirror, MirrorFile,
           ChannelStep, Tick, Crash, Restart, vars, brokerVars
      <4> QED
        BY <1>1, <4>1
    <3> QED
      BY <3>3, <3>4, <3>5, <3>6
  <2>3. o \in Ours(b)
    BY <1>1, <2>2 DEF RequestCancel
  <2>4. book[o].owner = b
    BY <1>1, <2>3 DEF Ours, RecordInv
  <2> QED
    BY <2>2, <2>4 DEF PassOneExpired, Expired
<1>2. TypeOK /\ RecordInv /\ [Next]_vars =>
        [\A o \in OrdId : ~book[o].asked /\ book'[o].asked =>
            /\ book[o].owner \in Batch
            /\ now > doc[book[o].owner].expires]_vars
  BY <1>1
<1> QED
  BY RecordInvHolds, <1>2, PTL DEF Spec, CancelsOnlyExpired

-----------------------------------------------------------------------------
(* Orders that outlive an expired batch.                                   *)

(* The link behaves, order_cancel is carried out, and no restart meets a   *)
(* record that cannot be read.                                             *)
Obeyed == WholeIndex /\ Faults \cap {"gap", "late", "cancel"} = {}

Expiring == /\ pc \in {"cancel_log", "move_doc", "move_record"}
            /\ dst = "expired"

(* The snapshot has every own order until the worker starts to trade: so   *)
(* the sweep asks for those that are on record.                            *)
ExpiryInv ==
    /\ Scanning => OwnLive \subseteq unf
    /\ Expiring => \A o \in OwnLive :
          book[o].owner = cur /\ o \in Submitted(cur) => book[o].asked
    /\ ExpiredWasCancelled

StaysAsked == \A o \in OwnLive' :
    /\ o \in OwnLive /\ book'[o].owner = book[o].owner
    /\ book[o].asked => book'[o].asked

LEMMA StaysAskedKeeps ==
    ASSUME ExpiryInv, StaysAsked,
           Scanning' => Scanning /\ UNCHANGED unf,
           Expiring' => Expiring /\ UNCHANGED cur /\ Submitted(cur)' = Submitted(cur),
           \A b \in Batch : at'[b] = "expired" =>
               at[b] = "expired" /\ Submitted(b)' = Submitted(b)
    PROVE  ExpiryInv'
BY DEF ExpiryInv, StaysAsked, ExpiredWasCancelled, OwnLive

LEMMA BookUnchangedAsked == UNCHANGED book => StaysAsked
BY DEF StaysAsked, OwnLive, Live

LEMMA BrokerAsked ==
    ASSUME TypeOK, BrokerStep
    PROVE  StaysAsked
<1>1. \A o \in OrdId : book[o] \in Order
  BY DEF TypeOK, BrokerTypeOK
<1>2. ASSUME NEW o \in OrdId, EndOrder(o)
      PROVE  StaysAsked
  BY <1>1, <1>2 DEF EndOrder, Ended, Order, TypeOK, BrokerTypeOK, StaysAsked, OwnLive, Live
<1>3. ASSUME NEW o \in OrdId, NEW q \in 1..book[o].left, Fill(o, q)
      PROVE  StaysAsked
  BY <1>1, <1>3 DEF Fill, Ended, Order, TypeOK, BrokerTypeOK, StaysAsked, OwnLive, Live
<1>4. ASSUME NEW o \in OrdId, NEW s \in Symbol, NEW isBuy \in BOOLEAN,
             ManualOrder(o, s, isBuy)
      PROVE  StaysAsked
  BY <1>1, <1>4 DEF ManualOrder, PlaceOrder, TypeOK, BrokerTypeOK, StaysAsked, OwnLive, Live
<1> QED
  BY <1>2, <1>3, <1>4 DEF BrokerStep

(* The sweep of an expired batch asks for every order that its record has. *)
LEMMA ExpireKeeps ==
    ASSUME Obeyed, TypeOK, RecordInv, ExpiryInv, NEW b \in Batch, PassOneExpired(b)
    PROVE  ExpiryInv'
<1> USE DEF ExpiryInv
<1>1. /\ RequestCancel(Ours(b)) /\ UNCHANGED <<at, lines, index, unf>> /\ Scanning
      /\ cur' = b /\ pc = "pass_one"
  BY DEF PassOneExpired, Obeyed, logVars, Scanning
<1>2. \A ord \in Order : LET new == [ord EXCEPT !.asked = TRUE] IN
        new.st = ord.st /\ new.owner = ord.owner /\ new.asked
  BY DEF Order
<1>3. \A o \in OrdId : book[o] \in Order
  BY DEF TypeOK, BrokerTypeOK
<1>4. \A o \in OrdId : /\ book'[o].st = book[o].st /\ book'[o].owner = book[o].owner
                       /\ book[o].asked => book'[o].asked
                       /\ o \in Ours(b) \cap Live => book'[o].asked
  BY <1>1, <1>2, <1>3 DEF RequestCancel
<1>5. OwnLive' = OwnLive /\ OwnLive \subseteq Live /\ OwnLive \subseteq OrdId
  BY <1>4 DEF OwnLive, Live
<1>6. \A c \in Batch : Submitted(c)' = Submitted(c)
  BY <1>1 DEF Submitted
<1>7. \A o \in Submitted(b) : index[o] = b
  BY <1>1 DEF RecordInv, RecordedIsIndexed, Obeyed
<1>8. \A o \in OwnLive : o \in Submitted(b) => o \in Ours(b) \cap Live
  BY <1>1, <1>5, <1>7 DEF Ours
<1>9. OwnLive' \subseteq unf'
  BY <1>1, <1>5
<1>10. \A o \in OwnLive' : o \in Submitted(b)' => book'[o].asked
  BY <1>4, <1>5, <1>6, <1>8
<1>11. ExpiredWasCancelled'
  <2>1. ASSUME NEW o \in OwnLive', at'[book'[o].owner] = "expired",
               o \in Submitted(book[o].owner)'
        PROVE  book'[o].asked
    <3>1. o \in OwnLive /\ book'[o].owner = book[o].owner /\ book[o].owner \in Batch
      BY <1>4, <1>5, <2>1 DEF OwnLive
    <3>2. at[book[o].owner] = "expired" /\ o \in Submitted(book[o].owner)
      BY <1>1, <1>6, <2>1, <3>1
    <3> QED
      BY <1>4, <1>5, <3>1, <3>2 DEF ExpiredWasCancelled
  <2> QED
    BY <2>1 DEF ExpiredWasCancelled
<1> QED
  BY <1>1, <1>9, <1>10, <1>11

(* An order that a visit places belongs to a batch that is pending.        *)
LEMMA PlaceKeepsExpiry ==
    ASSUME TypeOK, HandlesPending, ExpiryInv, NEW s \in Symbol, Visit(s),
           NEW avail, NEW o \in OrdId, Place(s, avail, o)
    PROVE  ExpiryInv'
<1>1. /\ pc = "reconcile" /\ UNCHANGED <<pc, at, lines>> /\ at[cur] = "pending"
      /\ book'[o].owner = cur
      /\ \A p \in OrdId \ {o} : book'[p] = book[p]
  BY DEF Visit, HandlesPending, Place, PlaceOrder, TypeOK, BrokerTypeOK
<1>2. \A p \in OwnLive' : p = o \/ (p \in OrdId \ {o} /\ p \in OwnLive)
  BY <1>1 DEF OwnLive, Live
<1>3. ~Scanning' /\ ~Expiring'
  BY <1>1 DEF Scanning, Expiring
<1>4. \A b \in Batch : Submitted(b)' = Submitted(b)
  BY <1>1 DEF Submitted
<1>5. ExpiredWasCancelled'
  <2>1. ASSUME NEW p \in OwnLive', at'[book'[p].owner] = "expired",
               p \in Submitted(book[p].owner)'
        PROVE  book'[p].asked
    <3>1. p \in OrdId \ {o} /\ p \in OwnLive /\ book[p].owner \in Batch
      BY <1>1, <1>2, <2>1 DEF OwnLive
    <3> QED
      BY <1>1, <1>4, <2>1, <3>1 DEF ExpiryInv, ExpiredWasCancelled
  <2> QED
    BY <2>1 DEF ExpiredWasCancelled
<1> QED
  BY <1>3, <1>5 DEF ExpiryInv

LEMMA WorkerKeepsExpiry ==
    ASSUME Obeyed, TypeOK, GuardsWork, HandlesPending, RecordInv, ExpiryInv, Worker
    PROVE  ExpiryInv'
<1>0. UNCHANGED lines => \A b \in Batch : Submitted(b)' = Submitted(b)
  BY DEF Submitted
<1>1. CASE ReconcileOrder
  <2>1. PICK s \in Symbol :
          /\ Visit(s)
          /\ \/ UNCHANGED book
             \/ \E avail \in 0..vol[s] : \E o \in OrdId : Place(s, avail, o)
    BY <1>1 DEF ReconcileOrder, LeaveOrder, CapToNothing, SubmitOrder,
       SubmitUnanswered, AppendRaises, CapRaises, SubmitLineRaises
  <2>2. CASE UNCHANGED book
    BY <1>0, <2>1, <2>2, BookUnchangedAsked, StaysAskedKeeps DEF Visit, Scanning, Expiring
  <2> QED
    BY <2>1, <2>2, PlaceKeepsExpiry
<1>2. CASE ReadUnfinished
  <2>1. UNCHANGED <<book, at, lines>> /\ unf' = Live /\ pc' = "pass_one"
    BY <1>2 DEF ReadUnfinished, GuardsWork, brokerVars, logVars
  <2>2. OwnLive' = OwnLive /\ OwnLive \subseteq unf' /\ ~Expiring'
    BY <2>1 DEF OwnLive, Live, Expiring
  <2>3. ExpiredWasCancelled'
    BY <1>0, <2>1, <2>2 DEF ExpiryInv, ExpiredWasCancelled, OwnLive
  <2> QED
    BY <2>2, <2>3 DEF ExpiryInv
<1>3. ASSUME NEW b \in Batch, PassOneExpired(b)
      PROVE  ExpiryInv'
  BY <1>3, ExpireKeeps
<1>4. ASSUME NEW b \in Batch, PassOneInvalid(b)
      PROVE  ExpiryInv'
  <2>1. /\ UNCHANGED <<book, lines, pc, unf>> /\ pc = "pass_one"
        /\ UNCHANGED at \/ at' = [at EXCEPT ![b] = "failed"]
    BY <1>4 DEF PassOneInvalid, MoveDoc, brokerVars
  <2>2. \A c \in Batch : at'[c] = "expired" => at[c] = "expired"
    BY <2>1 DEF TypeOK, LogTypeOK
  <2> QED
    BY <1>0, <2>1, <2>2, BookUnchangedAsked, StaysAskedKeeps DEF Scanning, Expiring
<1>5. CASE LogCancels
  <2>1. /\ UNCHANGED <<book, at, unf, cur, dst>> /\ pc = "cancel_log"
        /\ pc' = "move_doc" /\ dst = "expired" /\ cur \in Batch
        /\ lines' = [lines EXCEPT ![cur] = lines[cur] \cup ({"cancel"} \X Ours(cur))]
    BY <1>5 DEF LogCancels, brokerVars, localVars, HandlesPending, TypeOK, CycleTypeOK,
       Handling
  <2>2. \A b \in Batch : Submitted(b)' = Submitted(b)
    BY <2>1 DEF Submitted, TypeOK, LogTypeOK
  <2> QED
    BY <2>1, <2>2, BookUnchangedAsked, StaysAskedKeeps DEF Scanning, Expiring
<1>6. CASE MoveDocument
  <2>1. /\ UNCHANGED <<book, lines, unf, cur, dst>> /\ pc = "move_doc"
        /\ pc' = "move_record" /\ at' = [at EXCEPT ![cur] = dst]
    BY <1>6 DEF MoveDocument, MoveDoc, brokerVars, localVars
  <2>2. \A c \in Batch : at'[c] = at[c] \/ (c = cur /\ at'[c] = dst)
    BY <2>1 DEF TypeOK, LogTypeOK
  <2>3. /\ Scanning' = Scanning /\ Expiring' = Expiring /\ OwnLive' = OwnLive
        /\ \A c \in Batch : Submitted(c)' = Submitted(c)
    BY <1>0, <2>1 DEF Scanning, Expiring, OwnLive, Live
  <2>4. ExpiredWasCancelled'
    <3>1. ASSUME NEW o \in OwnLive, at'[book[o].owner] = "expired",
                 o \in Submitted(book[o].owner)
          PROVE  book[o].asked
      <4>1. book[o].owner \in Batch
        BY <3>1 DEF OwnLive
      <4>2. CASE at[book[o].owner] = "expired"
        BY <3>1, <4>2 DEF ExpiryInv, ExpiredWasCancelled
      <4>3. CASE book[o].owner = cur /\ Expiring
        BY <3>1, <4>3 DEF ExpiryInv
      <4> QED
        BY <2>1, <2>2, <3>1, <4>1, <4>2, <4>3 DEF Expiring
    <3>2. \A o \in OwnLive : book[o].owner \in Batch
      BY DEF OwnLive
    <3> QED
      BY <2>1, <2>3, <3>1, <3>2 DEF ExpiredWasCancelled
  <2>5. Expiring => cur \in Batch
    BY DEF Expiring, TypeOK, CycleTypeOK, Handling
  <2> QED
    BY <2>1, <2>3, <2>4, <2>5 DEF ExpiryInv
<1>7. CASE MoveRecord
  <2>1. UNCHANGED <<book, at, lines>> /\ pc = "move_record"
    BY <1>7 DEF MoveRecord, brokerVars
  <2>2. /\ Scanning' => Scanning /\ UNCHANGED unf
        /\ ~Expiring'
    BY <1>7 DEF MoveRecord, EndCycle, Scanning, Expiring
  <2> QED
    BY <1>0, <2>1, <2>2, BookUnchangedAsked, StaysAskedKeeps
<1>8. CASE PassGuards \/ ReadPositions \/ QueryRaises \/ StopAfterPassOne
           \/ NotMatched \/ DiskRaises
  <2>1. UNCHANGED <<book, at, lines>> /\ pc' \in LockFree \cup {"unfinished"}
    BY <1>8 DEF PassGuards, ReadPositions, QueryRaises, StopAfterPassOne,
       NotMatched, DiskRaises, EndCycle, LockFree, brokerVars, logVars
  <2> QED
    BY <1>0, <2>1, BookUnchangedAsked, StaysAskedKeeps DEF Scanning, Expiring, LockFree
<1>9. CASE FinishBatch \/ \E b \in Batch : PassOneKeep(b) \/ StartReconcile(b)
  <2>1. /\ UNCHANGED <<book, at, lines, unf>> /\ ~Expiring'
        /\ Scanning' => Scanning
    BY <1>9 DEF FinishBatch, PassOneKeep, StartReconcile,
       brokerVars, logVars, localVars, Scanning, Expiring
  <2> QED
    BY <1>0, <2>1, BookUnchangedAsked, StaysAskedKeeps
<1>10. CASE SpillBuffer \/ CloseSession
  <2>1. /\ UNCHANGED <<book, at, unf>> /\ ~Expiring' /\ ~Scanning'
        /\ at[cur] = "pending" /\ cur \in Batch
        /\ lines' = [lines EXCEPT ![cur] = lines[cur] \cup buf]
    BY <1>10 DEF SpillBuffer, Spill, CloseSession, Close, brokerVars, localVars,
       HandlesPending, Scanning, Expiring, TypeOK, CycleTypeOK, Handling
  <2>2. \A b \in Batch \ {cur} : Submitted(b)' = Submitted(b)
    BY <2>1 DEF Submitted, TypeOK, LogTypeOK
  <2>3. \A b \in Batch : at'[b] = "expired" =>
          at[b] = "expired" /\ Submitted(b)' = Submitted(b)
    BY <2>1, <2>2
  <2> QED
    BY <2>1, <2>3, BookUnchangedAsked, StaysAskedKeeps
<1> QED
  BY <1>1, <1>2, <1>3, <1>4, <1>5, <1>6, <1>7, <1>8, <1>9, <1>10 DEF Worker, PassOne

LEMMA NextKeepsExpiry ==
    ASSUME Obeyed, TypeOK, GuardsWork, HandlesPending, RecordInv, ExpiryInv, [Next]_vars
    PROVE  ExpiryInv'
<1>0. UNCHANGED lines => \A b \in Batch : Submitted(b)' = Submitted(b)
  BY DEF Submitted
<1>1. CASE ChannelStep \/ Tick \/ UNCHANGED vars
  <2>1. UNCHANGED <<book, at, lines, pc, dst, cur, unf>>
    BY <1>1 DEF ChannelStep, Tick, vars, brokerVars, logVars, cycleVars, localVars
  <2>2. Expiring => cur \in Batch
    BY DEF Expiring, TypeOK, CycleTypeOK, Handling
  <2> QED
    BY <1>0, <2>1, <2>2, BookUnchangedAsked, StaysAskedKeeps DEF Scanning, Expiring
<1>2. CASE BrokerStep
  <2>1. UNCHANGED <<at, lines, pc, dst, cur, unf>>
    BY <1>2 DEF BrokerStep, logVars, cycleVars
  <2>2. Expiring => cur \in Batch
    BY DEF Expiring, TypeOK, CycleTypeOK, Handling
  <2> QED
    BY <1>0, <1>2, <2>1, <2>2, BrokerAsked, StaysAskedKeeps DEF Scanning, Expiring
<1>3. CASE Mirror
  <2>1. /\ UNCHANGED <<book, lines>> /\ UNCHANGED pc /\ pc \in {"idle", "guarded"}
        /\ \E b \in Batch : at' = [at EXCEPT ![b] = "pending"]
    BY <1>3 DEF Mirror, MirrorFile, MoveDoc, brokerVars, cycleVars
  <2>2. \A c \in Batch : at'[c] = "expired" => at[c] = "expired"
    BY <2>1 DEF TypeOK, LogTypeOK
  <2> QED
    BY <1>0, <2>1, <2>2, BookUnchangedAsked, StaysAskedKeeps DEF Scanning, Expiring
<1>4. CASE Crash \/ Restart
  <2>1. UNCHANGED <<book, at, lines>> /\ pc' \in LockFree
    BY <1>4 DEF Crash, Restart, brokerVars, LockFree
  <2> QED
    BY <1>0, <2>1, BookUnchangedAsked, StaysAskedKeeps DEF Scanning, Expiring, LockFree
<1> QED
  BY <1>1, <1>2, <1>3, <1>4, WorkerKeepsExpiry DEF Next

(* If the link behaves and order_cancel is carried out, a recorded order   *)
(* that outlives its expired batch has been asked to be cancelled: also    *)
(* when orders go unanswered and the process dies and restarts, unless a   *)
(* record that could not be read met a restart.                            *)
THEOREM ExpiredIsCancelled ==
    ASSUME Obeyed
    PROVE  Spec => []ExpiredWasCancelled
<1> DEFINE Inv == TypeOK /\ GuardsWork /\ HandlesPending /\ RecordInv /\ ExpiryInv
<1>1. Init => Inv
  <2> SUFFICES ASSUME Init PROVE Inv
    OBVIOUS
  <2>1. OwnLive = {} /\ pc = "idle" /\ seen = {}
    BY DEF Init, BrokerInit, Unused, OwnLive, Live
  <2>2. HandlesPending /\ ExpiryInv
    BY <2>1 DEF HandlesPending, Scanning, LockFree, ExpiryInv, Expiring,
       ExpiredWasCancelled
  <2> QED
    BY <2>2, InitTypeOK, InitGuardsWork, InitRecordInv
<1>2. Inv /\ [Next]_vars => Inv'
  <2>1. LinkBehaves
    BY DEF Obeyed, LinkBehaves
  <2> QED
    BY <2>1, NextTypeOK, GuardsWorkStep, NextHandlesPending, NextKeepsRecord, NextKeepsExpiry
<1>3. Inv => ExpiredWasCancelled
  BY DEF ExpiryInv
<1> QED
  BY <1>1, <1>2, <1>3, PTL DEF Spec

-----------------------------------------------------------------------------
(* The windows in which orders are placed.                                 *)

(* Until the scan is over, every pending batch is still to come or has     *)
(* been kept; while _reconcile runs, all of them have been kept, none      *)
(* overlaps another, and the clock is in the window of the one in hand.    *)
WindowInv ==
    /\ Scanning /\ pc \in {"pass_one", "move_record"} => Pending \subseteq scan \cup seen
    /\ Scanning => Pending \subseteq scan \cup seen \cup {cur}
    /\ \A b \in seen : doc[b].ok /\ now <= doc[b].expires
    /\ pc = "reconcile" => /\ Pending \subseteq seen /\ cur \in seen
                          /\ now >= doc[cur].valid /\ ~Overlap

LEMMA WorkerKeepsWindow ==
    ASSUME "disk" \notin Faults, TypeOK, HandlesPending, WindowInv, Worker
    PROVE  WindowInv'
<1> USE DEF WindowInv, Scanning, Pending
<1>0. /\ at \in [Batch -> LiveDir \cup {"absent", "failed"}] /\ scan \subseteq Batch
      /\ now \in Int /\ \A b \in Batch : doc[b].expires \in Int
  BY DEF TypeOK, LogTypeOK, CycleTypeOK, Doc, Time
<1>1. CASE \/ PassGuards \/ ReadPositions \/ QueryRaises \/ StopAfterPassOne \/ NotMatched
           \/ EndCycle
  <2>1. /\ pc' \in {"guarded", "unfinished", "idle"} /\ seen' = {}
    BY <1>1 DEF PassGuards, ReadPositions, QueryRaises, StopAfterPassOne, NotMatched,
       EndCycle, ForgetSnapshot, HandlesPending, LockFree, localVars
  <2> QED
    BY <2>1
<1>2. CASE ReadUnfinished
  BY <1>2 DEF ReadUnfinished, logVars, HandlesPending, LockFree
<1>3. ASSUME NEW b \in Batch, PassOneInvalid(b)
      PROVE  WindowInv'
  <2>1. /\ pc = "pass_one" /\ UNCHANGED <<pc, seen, doc, now>> /\ scan' = scan \ {b}
        /\ at' = [at EXCEPT ![b] = "failed"]
    BY <1>3 DEF PassOneInvalid, MoveDoc
  <2> QED
    BY <1>0, <2>1
<1>4. ASSUME NEW b \in Batch, PassOneExpired(b)
      PROVE  WindowInv'
  BY <1>4 DEF PassOneExpired, logVars
<1>5. ASSUME NEW b \in Batch, PassOneKeep(b)
      PROVE  WindowInv'
  BY <1>0, <1>5 DEF PassOneKeep, Expired, logVars
<1>6. CASE LogCancels
  BY <1>6 DEF LogCancels, localVars
<1>7. ASSUME NEW b \in Batch, StartReconcile(b)
      PROVE  WindowInv'
  <2>1. /\ pc = "pass_one" /\ scan = {} /\ ~Overlap /\ b \in seen /\ now >= doc[b].valid
        /\ UNCHANGED <<at, doc, now, seen>> /\ pc' = "reconcile" /\ cur' = b
    BY <1>7 DEF StartReconcile, Active, logVars
  <2>2. ~Overlap'
    BY <2>1 DEF Overlap, SomeOverlap
  <2> QED
    BY <2>1, <2>2
<1>8. CASE ReconcileOrder \/ SpillBuffer
  <2>1. /\ pc = "reconcile" /\ UNCHANGED <<pc, at, doc, now, cur, seen>>
    BY <1>8 DEF ReconcileOrder, LeaveOrder, CapToNothing, SubmitOrder,
        SubmitUnanswered, AppendRaises, CapRaises, SubmitLineRaises, Visit, SpillBuffer, localVars
  <2>2. Overlap' = Overlap
    BY <2>1 DEF Overlap, SomeOverlap
  <2> QED
    BY <2>1, <2>2
<1>9. CASE CloseSession \/ FinishBatch
  <2>1. /\ pc' # "reconcile" /\ ~Scanning' /\ UNCHANGED <<doc, now, seen>>
    BY <1>9 DEF CloseSession, FinishBatch, logVars, localVars
  <2> QED
    BY <2>1
<1>10. CASE MoveDocument
  <2>1. /\ pc = "move_doc" /\ pc' = "move_record" /\ UNCHANGED <<doc, now, seen, scan, cur, dst>>
        /\ at' = [at EXCEPT ![cur] = dst] /\ cur \in Batch /\ dst # "pending"
    BY <1>10 DEF MoveDocument, MoveDoc, localVars, TypeOK, CycleTypeOK, Handling
  <2>2. at'[cur] # "pending" /\ \A b \in Batch \ {cur} : at'[b] = at[b]
    BY <1>0, <2>1
  <2> QED
    BY <2>1, <2>2
<1>11. CASE MoveRecord
  <2>1. CASE pc' = "pass_one" /\ dst = "expired" /\ UNCHANGED <<now, scan, seen>>
    BY <1>11, <2>1 DEF MoveRecord
  <2> QED
    BY <1>1, <1>11, <2>1 DEF MoveRecord
<1> QED
  BY <1>1, <1>2, <1>3, <1>4, <1>5, <1>6, <1>7, <1>8, <1>9, <1>10, <1>11
     DEF Worker, PassOne, DiskRaises

LEMMA NextKeepsWindow ==
    ASSUME "disk" \notin Faults, TypeOK, HandlesPending, WindowInv, [Next]_vars
    PROVE  WindowInv'
<1> USE DEF WindowInv, Scanning, Pending
<1>1. CASE Mirror
  <2>1. pc \in {"idle", "guarded"} /\ UNCHANGED <<pc, seen>> /\ seen = {}
    BY <1>1 DEF Mirror, MirrorFile, HandlesPending, LockFree, cycleVars
  <2> QED
    BY <2>1
<1>2. CASE BrokerStep \/ ChannelStep \/ Tick \/ Restart \/ UNCHANGED vars
  <2>1. UNCHANGED <<at, doc, now, scan, seen, cur, dst>> /\ (UNCHANGED pc \/ pc' = "idle")
    BY <1>2 DEF BrokerStep, ChannelStep, Tick, Restart, vars, logVars, cycleVars, localVars
  <2>2. Overlap' = Overlap
    BY <2>1 DEF Overlap, SomeOverlap
  <2> QED
    BY <2>1, <2>2
<1>3. CASE Crash
  BY <1>3 DEF Crash, ForgetSnapshot
<1> QED
  BY <1>1, <1>2, <1>3, WorkerKeepsWindow DEF Next

(* An order id that was not handed out is nobody's, and only a visit of    *)
(* _reconcile makes it a batch's.                                          *)
Blank == \A o \in OrdId : book[o].st = "unused" => book[o].owner = NoBatch

LEMMA NextSubmits ==
    ASSUME TypeOK, Blank, [Next]_vars
    PROVE  /\ Blank'
           /\ \A o \in OrdId : book[o].st = "unused" /\ book'[o].owner \in Batch =>
                 \E s \in Symbol : /\ Visit(s)
                                  /\ book'[o].owner = cur /\ book'[o].sym = s
<1> USE DEF Blank
<1>1. \A o \in OrdId : book[o] \in Order
  BY DEF TypeOK, BrokerTypeOK
<1>2. ASSUME \A o \in OrdId : /\ book'[o].st = "unused" <=> book[o].st = "unused"
                              /\ book'[o].owner = book[o].owner
      PROVE  /\ Blank'
             /\ \A o \in OrdId : ~(book[o].st = "unused" /\ book'[o].owner \in Batch)
  BY <1>2
<1>3. CASE BrokerStep
  <2>1. ASSUME NEW o \in OrdId, EndOrder(o)
        PROVE  \A p \in OrdId : /\ book'[p].st = "unused" <=> book[p].st = "unused"
                                /\ book'[p].owner = book[p].owner
    BY <1>1, <2>1 DEF EndOrder, Ended, Order, TypeOK, BrokerTypeOK
  <2>2. ASSUME NEW o \in OrdId, NEW q \in 1..book[o].left, Fill(o, q)
        PROVE  \A p \in OrdId : /\ book'[p].st = "unused" <=> book[p].st = "unused"
                                /\ book'[p].owner = book[p].owner
    BY <1>1, <2>2 DEF Fill, Ended, Order, TypeOK, BrokerTypeOK
  <2>3. ASSUME NEW o \in OrdId, NEW s \in Symbol, NEW isBuy \in BOOLEAN,
               ManualOrder(o, s, isBuy)
        PROVE  /\ Blank'
               /\ \A p \in OrdId : ~(book[p].st = "unused" /\ book'[p].owner \in Batch)
    <3>1. /\ book'[o].st = "live" /\ book'[o].owner = NoBatch
          /\ \A p \in OrdId \ {o} : book'[p] = book[p]
      BY <2>3 DEF ManualOrder, PlaceOrder, TypeOK, BrokerTypeOK
    <3> QED
      BY <3>1
  <2> QED
    BY <1>2, <1>3, <2>1, <2>2, <2>3 DEF BrokerStep
<1>4. CASE \E b \in Batch : PassOneExpired(b)
  <2>1. PICK b \in Batch : PassOneExpired(b)
    BY <1>4
  <2>2. \A ord \in Order : LET new == [ord EXCEPT !.asked = TRUE] IN
          new.st = ord.st /\ new.owner = ord.owner
    BY DEF Order
  <2>3. UNCHANGED book \/ RequestCancel(Ours(b))
    BY <2>1 DEF PassOneExpired
  <2>4. CASE RequestCancel(Ours(b))
    BY <1>1, <1>2, <2>2, <2>4 DEF RequestCancel
  <2> QED
    BY <1>2, <2>3, <2>4
<1>5. CASE ReconcileOrder
  <2>1. PICK s \in Symbol :
          /\ Visit(s)
          /\ \/ UNCHANGED book
             \/ \E avail \in 0..vol[s] : \E o \in OrdId : Place(s, avail, o)
    BY <1>5 DEF ReconcileOrder, LeaveOrder, CapToNothing, SubmitOrder,
       SubmitUnanswered, AppendRaises, CapRaises, SubmitLineRaises
  <2>2. ASSUME NEW avail \in 0..vol[s], NEW o \in OrdId, Place(s, avail, o)
        PROVE  /\ book'[o].owner = cur /\ book'[o].sym = s /\ book'[o].st = "live"
               /\ \A p \in OrdId \ {o} : book'[p] = book[p]
    BY <2>2 DEF Place, PlaceOrder, TypeOK, BrokerTypeOK
  <2> QED
    BY <1>2, <2>1, <2>2
<1>6. CASE ~BrokerStep /\ ~ReconcileOrder /\ ~\E b \in Batch : PassOneExpired(b)
  <2>1. UNCHANGED book
    BY <1>6 DEF Next, Worker, PassGuards, ReadPositions, ReadUnfinished,
       QueryRaises, PassOne, PassOneInvalid, PassOneKeep, LogCancels,
       StopAfterPassOne, StartReconcile, SpillBuffer, CloseSession, NotMatched,
       FinishBatch, MoveDocument, MoveRecord, DiskRaises, Mirror, MirrorFile,
       ChannelStep, Tick, Crash, Restart, vars, brokerVars
  <2> QED
    BY <1>2, <2>1
<1> QED
  BY <1>3, <1>4, <1>5, <1>6

(* Where files can be read and moved, an order is placed only for a        *)
(* readable pending batch whose window holds the cycle's clock, on a       *)
(* symbol it names, and while no other pending batch overlaps it: also     *)
(* when the link misbehaves, answers are lost or the process dies.         *)
THEOREM SubmitsInWindow ==
    ASSUME "disk" \notin Faults
    PROVE  Spec => SubmitOnlyInWindow
<1> DEFINE Inv == TypeOK /\ HandlesPending /\ WindowInv /\ Blank
<1>1. Init => Inv
  <2> SUFFICES ASSUME Init PROVE HandlesPending /\ WindowInv /\ Blank
    BY InitTypeOK
  <2>1. pc = "idle" /\ seen = {}
    BY DEF Init
  <2> QED
    BY <2>1 DEF HandlesPending, WindowInv, Scanning, LockFree, Blank, Init,
       BrokerInit, Unused
<1>2. Inv /\ [Next]_vars => Inv'
  BY NextTypeOK, NextHandlesPending, NextKeepsWindow, NextSubmits
<1>3. ASSUME Inv, [Next]_vars, NEW o \in OrdId, NEW b \in Batch,
             book[o].st = "unused", book'[o].owner = b
      PROVE  /\ at[b] = "pending" /\ doc[b].ok
             /\ doc[b].valid <= now /\ now <= doc[b].expires
             /\ book'[o].sym \in doc[b].syms
             /\ \A c \in Pending \ {b} : doc[c].expires < doc[b].valid
                                         \/ doc[b].expires < doc[c].valid
  <2>1. /\ pc = "reconcile" /\ b = cur /\ book'[o].sym \in todo
    BY <1>3, NextSubmits DEF Visit
  <2>2. /\ at[b] = "pending" /\ todo \subseteq doc[b].syms
        /\ Pending \subseteq seen /\ b \in seen /\ now >= doc[b].valid /\ ~Overlap
        /\ doc[b].ok /\ now <= doc[b].expires
    BY <1>3, <2>1 DEF HandlesPending, WindowInv
  <2>3. \A c \in Batch : /\ doc[c].valid \in Int /\ doc[c].expires \in Int
                        /\ now \in Int
    BY <1>3 DEF TypeOK, LogTypeOK, CycleTypeOK, Doc, Time
  <2>4. ASSUME NEW c \in Pending \ {b}
        PROVE  doc[c].expires < doc[b].valid \/ doc[b].expires < doc[c].valid
    <3>1. /\ ~(doc[b].valid <= doc[c].valid /\ doc[b].expires >= doc[c].valid)
          /\ ~(doc[c].valid <= doc[b].valid /\ doc[c].expires >= doc[b].valid)
      BY <2>2, <2>4 DEF Overlap, SomeOverlap
    <3>2. c \in Batch
      BY <2>4 DEF Pending
    <3>3. /\ doc[b].valid \in Int /\ doc[b].expires \in Int
          /\ doc[c].valid \in Int /\ doc[c].expires \in Int
      BY <2>3, <3>2
    <3>4. \A v, e, w, f \in Int :
            ~(v <= w /\ e >= w) /\ ~(w <= v /\ f >= v) => f < v \/ e < w
      OBVIOUS
    <3> QED
      BY <3>1, <3>3, <3>4
  <2> QED
    BY <2>1, <2>2, <2>3, <2>4
<1>4. Inv /\ [Next]_vars =>
        [\A o \in OrdId :
            book[o].st = "unused" /\ book'[o].owner \in Batch =>
                LET b == book'[o].owner IN
                /\ at[b] = "pending" /\ doc[b].ok
                /\ doc[b].valid <= now /\ now <= doc[b].expires
                /\ book'[o].sym \in doc[b].syms
                /\ \A c \in Pending \ {b} : doc[c].expires < doc[b].valid
                                            \/ doc[b].expires < doc[c].valid]_vars
  BY <1>3
<1> QED
  BY <1>1, <1>2, <1>4, PTL DEF Spec, SubmitOnlyInWindow
=============================================================================
