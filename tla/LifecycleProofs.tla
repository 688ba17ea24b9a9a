--------------------------- MODULE LifecycleProofs ---------------------------
(***************************************************************************)
(* Theorems about what a batch goes through: nothing of a finished batch   *)
(* is left on the book, a batch finishes on the positions really held, and *)
(* the cycle implements BatchLifecycle. All of them allow lost answers,    *)
(* failed cancels and queries, file errors and crashes; they assume what   *)
(* TargetNotDelta assumes, and that no edit of a pending batch changes     *)
(* what it trades.                                                         *)
(***************************************************************************)
EXTENDS CycleProofs

USE BatchAssumption, SymbolAssumption, ClockAssumption, GraceAssumption,
    OpeningAssumption, DocsAssumption

SteadyDocs == \A b \in Batch : \A d, e \in Docs[b] :
    d.syms = e.syms /\ d.target = e.target

(* A batch is being moved to finished/.                                    *)
Closing == pc \in {"move_doc", "move_record"} /\ dst = "finished"

Scanning == \/ pc \in {"pass_one", "cancel_log"}
            \/ pc \in {"move_doc", "move_record"} /\ dst = "expired"

(* What the worker holds in its hands is pending, until it is moved, and   *)
(* no batch is handled twice in a cycle.                                   *)
HandlesPending ==
    /\ pc \in LockFree \cup {"unfinished"} => seen = {}
    /\ Scanning => /\ scan \cup seen \subseteq Pending /\ scan \cap seen = {}
                   /\ pc # "pass_one" => cur \notin scan \cup seen
    /\ pc \in {"cancel_log", "move_doc", "reconcile", "matched"} => at[cur] = "pending"
    /\ pc = "cancel_log" => dst = "expired"
    /\ pc = "reconcile" => todo \subseteq doc[cur].syms

(* A live order has something left, and asks for what its batch does.      *)
OrdersAsAsked == \A o \in OwnLive :
    LET b == book[o].owner IN
    /\ book[o].left > 0
    /\ at[b] # "absent"
    /\ book[o].sym \in doc[b].syms
    /\ book[o].tgt = doc[b].target[book[o].sym]

(* The snapshot is on the near side of the target of every live order: a   *)
(* position that equals the target shows that no order is left.            *)
SnapshotBound == pc \notin LockFree => \A o \in OwnLive :
    IF book[o].buy THEN vol[book[o].sym] + book[o].left <= book[o].tgt
                   ELSE vol[book[o].sym] - book[o].left >= book[o].tgt

NoneLeft ==
    /\ FinishedIsSettled
    /\ Closing => \A o \in OwnLive : book[o].owner # cur

(* Where the snapshot shows the target and no order, the target is held    *)
(* and no order can take it away.                                          *)
MatchIsCurrent ==
    /\ pc \in {"reconcile", "matched"} \/ Closing =>
          \A s \in doc[cur].syms : UnfinishedOn(s) = {} /\ vol[s] = Goal(s) =>
              held[s] = Goal(s) /\ \A o \in OwnLive : book[o].sym # s
    /\ Closing => \A s \in doc[cur].syms : vol[s] = Goal(s)

SettledInv ==
    TargetInv /\ HandlesPending /\ OrdersAsAsked /\ SnapshotBound /\ NoneLeft
              /\ MatchIsCurrent

-----------------------------------------------------------------------------
(* Steps that only take orders away.                                       *)

Shrinks == \A o \in OwnLive' :
    /\ o \in OwnLive
    /\ book'[o].owner = book[o].owner /\ book'[o].sym = book[o].sym
    /\ book'[o].buy = book[o].buy /\ book'[o].tgt = book[o].tgt
    /\ book'[o].left > 0 /\ book'[o].left <= book[o].left

LEMMA LeftIsNat ==
    ASSUME TypeOK
    PROVE  \A o \in OrdId : /\ book[o] \in Order /\ book[o].left \in Nat
                            /\ book[o].tgt \in Nat /\ book[o].sym \in Symbol
                            /\ book[o].buy \in BOOLEAN
BY DEF TypeOK, BrokerTypeOK, Order

LEMMA MovesNothingShrinks ==
    ASSUME TypeOK, OrdersAsAsked, MovesNothing
    PROVE  Shrinks
<1> SUFFICES ASSUME NEW o \in OwnLive'
             PROVE  /\ o \in OwnLive
                    /\ book'[o].owner = book[o].owner /\ book'[o].sym = book[o].sym
                    /\ book'[o].buy = book[o].buy /\ book'[o].tgt = book[o].tgt
                    /\ book'[o].left > 0 /\ book'[o].left <= book[o].left
  BY DEF Shrinks
<1>1. /\ o \in OwnLive /\ book'[o].left = book[o].left
      /\ book'[o].owner = book[o].owner /\ book'[o].sym = book[o].sym
      /\ book'[o].buy = book[o].buy /\ book'[o].tgt = book[o].tgt
  BY DEF MovesNothing, OwnLive, Live
<1>2. book[o].left \in Nat /\ book[o].left > 0
  BY <1>1, LeftIsNat DEF OrdersAsAsked, OwnLive, Live
<1> QED
  BY <1>1, <1>2

LEMMA FillShrinks ==
    ASSUME TypeOK, OrdersAsAsked,
           NEW o \in OrdId, NEW q \in 1..book[o].left, Fill(o, q)
    PROVE  Shrinks
<1>1. /\ book[o] \in Order /\ book[o].left \in Nat
      /\ book \in [OrdId -> Order]
  BY DEF TypeOK, BrokerTypeOK, Order
<1>2. \A p \in OrdId \ {o} : book'[p] = book[p]
  BY <1>1 DEF Fill
<1>3. \/ book'[o].st = "done"
      \/ q # book[o].left /\ book'[o] = [book[o] EXCEPT !.left = book[o].left - q]
  BY <1>1 DEF Fill, Ended, Order
<1> SUFFICES ASSUME NEW p \in OwnLive'
             PROVE  /\ p \in OwnLive
                    /\ book'[p].owner = book[p].owner /\ book'[p].sym = book[p].sym
                    /\ book'[p].buy = book[p].buy /\ book'[p].tgt = book[p].tgt
                    /\ book'[p].left > 0 /\ book'[p].left <= book[p].left
  BY DEF Shrinks
<1>4. CASE p # o
  <2>1. p \in OrdId /\ book'[p] = book[p] /\ p \in OwnLive
    BY <1>2, <1>4 DEF OwnLive, Live
  <2> QED
    BY <2>1, LeftIsNat DEF OrdersAsAsked
<1>5. CASE p = o
  <2>1. book'[o] = [book[o] EXCEPT !.left = book[o].left - q] /\ q # book[o].left
    BY <1>3, <1>5 DEF OwnLive, Live
  <2>2. /\ book'[o].owner = book[o].owner /\ book'[o].sym = book[o].sym
        /\ book'[o].buy = book[o].buy /\ book'[o].tgt = book[o].tgt
        /\ book'[o].left = book[o].left - q
    BY <1>1, <2>1 DEF Order
  <2>3. o \in OwnLive
    BY <1>5, <2>2 DEF Fill, OwnLive, Live
  <2>4. book[o].left - q > 0 /\ book[o].left - q <= book[o].left
    BY <1>1, <2>1
  <2> QED
    BY <1>5, <2>2, <2>3, <2>4
<1> QED
  BY <1>4, <1>5

(* What such steps keep, given what they do to the documents, the worker   *)
(* and the snapshot.                                                       *)
LEMMA AsAskedKept ==
    ASSUME OrdersAsAsked, Shrinks,
           \A b \in Batch : at[b] # "absent" =>
               /\ at'[b] # "absent"
               /\ doc'[b].syms = doc[b].syms /\ doc'[b].target = doc[b].target
    PROVE  OrdersAsAsked'
<1> SUFFICES ASSUME NEW o \in OwnLive'
             PROVE  /\ book'[o].left > 0 /\ at'[book'[o].owner] # "absent"
                    /\ book'[o].sym \in doc'[book'[o].owner].syms
                    /\ book'[o].tgt = doc'[book'[o].owner].target[book'[o].sym]
  BY DEF OrdersAsAsked
<1>1. /\ o \in OwnLive /\ book[o].owner \in Batch /\ book'[o].owner = book[o].owner
      /\ book'[o].sym = book[o].sym /\ book'[o].tgt = book[o].tgt
      /\ book'[o].left > 0
  BY DEF Shrinks, OwnLive
<1> DEFINE b == book[o].owner
<1>2. /\ at[b] # "absent" /\ book[o].sym \in doc[b].syms
      /\ book[o].tgt = doc[b].target[book[o].sym]
  BY <1>1 DEF OrdersAsAsked
<1>3. /\ at'[b] # "absent"
      /\ doc'[b].syms = doc[b].syms /\ doc'[b].target = doc[b].target
  BY <1>1, <1>2
<1> QED
  BY <1>1, <1>2, <1>3

LEMMA BoundKept ==
    ASSUME TypeOK, TypeOK', SnapshotBound, Shrinks,
           pc' \notin LockFree => pc \notin LockFree /\ UNCHANGED vol
    PROVE  SnapshotBound'
<1> SUFFICES ASSUME pc' \notin LockFree, NEW o \in OwnLive'
             PROVE  IF book'[o].buy THEN vol'[book'[o].sym] + book'[o].left <= book'[o].tgt
                    ELSE vol'[book'[o].sym] - book'[o].left >= book'[o].tgt
  BY DEF SnapshotBound, LockFree
<1>1. /\ pc \notin LockFree /\ vol' = vol /\ o \in OwnLive /\ o \in OrdId
      /\ book'[o].sym = book[o].sym /\ book'[o].buy = book[o].buy
      /\ book'[o].tgt = book[o].tgt /\ book'[o].left <= book[o].left
  BY DEF Shrinks, OwnLive, Live
<1>2. /\ vol[book[o].sym] \in Nat /\ book[o].left \in Nat /\ book[o].tgt \in Nat
      /\ book[o].buy \in BOOLEAN
  BY <1>1, LeftIsNat DEF TypeOK, CycleTypeOK
<1>3. book'[o].left \in Nat
  BY <1>1 DEF TypeOK, BrokerTypeOK, Order
<1>4. IF book[o].buy THEN vol[book[o].sym] + book[o].left <= book[o].tgt
                     ELSE vol[book[o].sym] - book[o].left >= book[o].tgt
  BY <1>1 DEF SnapshotBound
<1>5. \A v, l, m, g \in Nat : /\ m <= l /\ v + l <= g => v + m <= g
                             /\ m <= l /\ v - l >= g => v - m >= g
  OBVIOUS
<1> QED
  BY <1>1, <1>2, <1>3, <1>4, <1>5

LEMMA NoneLeftKept ==
    ASSUME NoneLeft, Shrinks,
           \A b \in Batch : at'[b] = "finished" => at[b] = "finished",
           Closing' => Closing /\ UNCHANGED cur
    PROVE  NoneLeft'
<1>1. FinishedIsSettled'
  BY DEF NoneLeft, FinishedIsSettled, Shrinks, OwnLive
<1>2. ASSUME Closing', NEW o \in OwnLive'
      PROVE  book'[o].owner # cur'
  BY <1>2 DEF NoneLeft, Shrinks
<1> QED
  BY <1>1, <1>2 DEF NoneLeft

LEMMA MatchKept ==
    ASSUME MatchIsCurrent, Shrinks,
           pc' \in {"reconcile", "matched"} \/ Closing' =>
               /\ pc \in {"reconcile", "matched"} \/ Closing
               /\ UNCHANGED <<cur, doc, vol, unf, held>>
               /\ \A o \in unf : book'[o].sym = book[o].sym,
           Closing' => Closing
    PROVE  MatchIsCurrent'
<1>1. ASSUME pc' \in {"reconcile", "matched"} \/ Closing', NEW s \in doc[cur].syms,
             UnfinishedOn(s)' = {}, vol'[s] = Goal(s)'
      PROVE  held'[s] = Goal(s)' /\ \A o \in OwnLive' : book'[o].sym # s
  <2>1. UnfinishedOn(s) = {} /\ vol[s] = Goal(s) /\ Goal(s)' = Goal(s)
    BY <1>1 DEF UnfinishedOn, Goal
  <2>2. held[s] = Goal(s) /\ \A o \in OwnLive : book[o].sym # s
    BY <1>1, <2>1 DEF MatchIsCurrent
  <2> QED
    BY <1>1, <2>1, <2>2 DEF Shrinks
<1>2. ASSUME Closing', NEW s \in doc[cur].syms
      PROVE  vol'[s] = Goal(s)'
  BY <1>2 DEF MatchIsCurrent, Goal
<1>3. pc' \in {"reconcile", "matched"} \/ Closing' => doc'[cur'].syms = doc[cur].syms
  OBVIOUS
<1> QED
  BY <1>1, <1>2, <1>3 DEF MatchIsCurrent

(* Most steps do no more than these lemmas allow.                          *)
Ordinary ==
    /\ Shrinks
    /\ \A b \in Batch : at[b] # "absent" =>
          /\ at'[b] # "absent"
          /\ doc'[b].syms = doc[b].syms /\ doc'[b].target = doc[b].target
    /\ \A b \in Batch : at'[b] = "finished" => at[b] = "finished"
    /\ pc' \notin LockFree => pc \notin LockFree /\ UNCHANGED vol
    /\ Closing' => Closing /\ UNCHANGED cur
    /\ pc' \in {"reconcile", "matched"} \/ Closing' =>
          /\ pc \in {"reconcile", "matched"} \/ Closing
          /\ UNCHANGED <<cur, doc, vol, unf, held>>
          /\ \A o \in unf : book'[o].sym = book[o].sym

Settled == OrdersAsAsked /\ SnapshotBound /\ NoneLeft /\ MatchIsCurrent

LEMMA OrdinaryKeeps ==
    ASSUME TypeOK, TypeOK', Settled, Ordinary
    PROVE  Settled'
<1> USE DEF Settled, Ordinary
<1>1. OrdersAsAsked'
  BY AsAskedKept
<1>2. SnapshotBound'
  BY BoundKept
<1>3. NoneLeft'
  BY NoneLeftKept
<1>4. MatchIsCurrent'
  BY MatchKept
<1> QED
  BY <1>1, <1>2, <1>3, <1>4

-----------------------------------------------------------------------------
(* The worker handles pending batches only, each of them once.             *)

LEMMA WorkerHandlesPending ==
    ASSUME TypeOK, HandlesPending, Worker
    PROVE  HandlesPending'
<1> USE DEF HandlesPending, Scanning, LockFree, Pending
<1>0. at \in [Batch -> LiveDir \cup {"absent", "failed"}] /\ scan \subseteq Batch
  BY DEF TypeOK, LogTypeOK, CycleTypeOK
<1>1. CASE PassGuards \/ ReadPositions
  BY <1>1 DEF PassGuards, ReadPositions, logVars, localVars
<1>2. CASE ReadUnfinished
  BY <1>2 DEF ReadUnfinished, logVars
<1>3. CASE QueryRaises \/ StopAfterPassOne \/ NotMatched \/ DiskRaises
  BY <1>3 DEF QueryRaises, StopAfterPassOne, NotMatched, DiskRaises, EndCycle,
      ForgetSnapshot
<1>4. ASSUME NEW b \in Batch, PassOneInvalid(b)
      PROVE  HandlesPending'
  BY <1>0, <1>4 DEF PassOneInvalid, MoveDoc, Next1
<1>5. ASSUME NEW b \in Batch, PassOneExpired(b)
      PROVE  HandlesPending'
  BY <1>0, <1>5 DEF PassOneExpired, Next1, logVars
<1>6. ASSUME NEW b \in Batch, PassOneKeep(b)
      PROVE  HandlesPending'
  BY <1>0, <1>6 DEF PassOneKeep, Next1, logVars
<1>7. CASE LogCancels
  BY <1>7 DEF LogCancels, localVars
<1>8. ASSUME NEW b \in Batch, StartReconcile(b)
      PROVE  HandlesPending'
  BY <1>8 DEF StartReconcile, Active, logVars
<1>9. CASE ReconcileOrder \/ SpillBuffer \/ CloseSession
  <2>1. /\ pc = "reconcile" /\ pc' \in {"reconcile", "matched"}
        /\ UNCHANGED <<at, doc, cur, scan, seen, dst>> /\ todo' \subseteq todo
    BY <1>9 DEF ReconcileOrder, LeaveOrder, CapToNothing, SubmitOrder,
        SubmitUnanswered, AppendRaises, CapRaises, SubmitLineRaises, Visit, SpillBuffer, CloseSession, localVars
  <2> QED
    BY <2>1
<1>10. CASE FinishBatch
  BY <1>10 DEF FinishBatch, logVars
<1>11. CASE MoveDocument
  <2>1. /\ pc = "move_doc" /\ pc' = "move_record" /\ UNCHANGED localVars
        /\ \A b \in Batch : b # cur => at'[b] = at[b]
    BY <1>0, <1>11 DEF MoveDocument, MoveDoc
  <2> QED
    BY <2>1 DEF localVars
<1>12. CASE MoveRecord
  <2>1. CASE dst = "expired" /\ pc' = "pass_one" /\ UNCHANGED <<scan, seen, dst>>
    BY <1>12, <2>1 DEF MoveRecord
  <2>2. CASE EndCycle
    BY <2>2 DEF EndCycle, ForgetSnapshot
  <2> QED
    BY <1>12, <2>1, <2>2 DEF MoveRecord
<1> QED
  BY <1>1, <1>2, <1>3, <1>4, <1>5, <1>6, <1>7, <1>8, <1>9, <1>10, <1>11, <1>12
     DEF Worker, PassOne

LEMMA NextHandlesPending ==
    ASSUME TypeOK, HandlesPending, [Next]_vars
    PROVE  HandlesPending'
<1> USE DEF HandlesPending, Scanning, LockFree, Pending
<1>1. CASE Mirror
  <2>1. pc \in {"idle", "guarded"} /\ UNCHANGED cycleVars
    BY <1>1 DEF Mirror, MirrorFile
  <2> QED
    BY <2>1 DEF cycleVars
<1>2. CASE BrokerStep \/ ChannelStep \/ UNCHANGED vars
  BY <1>2 DEF BrokerStep, ChannelStep, vars, logVars, cycleVars
<1>3. CASE Tick
  BY <1>3 DEF Tick, logVars, localVars
<1>4. CASE Crash \/ Restart
  BY <1>4 DEF Crash, Restart, ForgetSnapshot, localVars
<1> QED
  BY <1>1, <1>2, <1>3, <1>4, WorkerHandlesPending DEF Next

-----------------------------------------------------------------------------
(* Each step keeps what is settled.                                        *)

LEMMA UnchangedShrinks ==
    ASSUME TypeOK, OrdersAsAsked, UNCHANGED <<held, book>>
    PROVE  Shrinks
BY NothingMoved, MovesNothingShrinks

LEMMA SnapshotKeepsSettled ==
    ASSUME TypeOK, TypeOK', TargetInv, Settled,
           PassGuards \/ ReadPositions \/ ReadUnfinished
    PROVE  Settled'
<1> USE DEF Settled
<1>1. UNCHANGED <<held, book, at, doc>> /\ ~Closing'
      /\ pc' \notin {"reconcile", "matched"}
  BY DEF PassGuards, ReadPositions, ReadUnfinished, brokerVars, logVars, Closing
<1>2. Shrinks
  BY <1>1, UnchangedShrinks
<1>3. CASE PassGuards \/ ReadUnfinished
  <2>1. pc' \notin LockFree => pc \notin LockFree /\ UNCHANGED vol
    BY <1>3 DEF PassGuards, ReadUnfinished, LockFree
  <2> QED
    BY <1>1, <1>2, <2>1, OrdinaryKeeps DEF Ordinary
<1>4. CASE ReadPositions
  <2>1. vol' = held
    BY <1>4 DEF ReadPositions, TargetInv, OneOrderInv, GuardsWork
  <2>2. NeverPastTarget
    BY DEF TargetInv
  <2>3. SnapshotBound'
    BY <1>1, <2>1, <2>2 DEF SnapshotBound, NeverPastTarget, OwnLive, Live
  <2>4. OrdersAsAsked' /\ NoneLeft' /\ MatchIsCurrent'
    BY <1>1, <1>2, AsAskedKept, NoneLeftKept, MatchKept
  <2> QED
    BY <2>3, <2>4
<1> QED
  BY <1>3, <1>4

LEMMA EndKeepsSettled ==
    ASSUME TypeOK, TypeOK', Settled, UNCHANGED <<held, book, doc>>,
           UNCHANGED at, EndCycle \/ pc' \in LockFree
    PROVE  Settled'
<1>1. pc' \in LockFree
  BY DEF EndCycle, LockFree
<1>2. Shrinks
  BY UnchangedShrinks DEF Settled
<1> QED
  BY <1>1, <1>2, OrdinaryKeeps DEF Ordinary, Closing, LockFree

LEMMA PassOneKeepsSettled ==
    ASSUME TypeOK, TypeOK', HandlesPending, Settled, PassOne \/ LogCancels
    PROVE  Settled'
<1>1. ASSUME NEW b \in Batch, PassOneInvalid(b) \/ PassOneKeep(b)
      PROVE  Settled'
  <2>1. /\ UNCHANGED <<held, book, doc, vol, pc>> /\ pc = "pass_one"
        /\ UNCHANGED at \/ at' = [at EXCEPT ![b] = "failed"]
    BY <1>1 DEF PassOneInvalid, PassOneKeep, MoveDoc, brokerVars, logVars
  <2>2. \A c \in Batch : at'[c] = at[c] \/ at'[c] = "failed"
    BY <2>1 DEF TypeOK, LogTypeOK
  <2>3. Shrinks
    BY <2>1, UnchangedShrinks DEF Settled
  <2> QED
    BY <2>1, <2>2, <2>3, OrdinaryKeeps DEF Ordinary, Closing, LockFree
<1>2. ASSUME NEW b \in Batch, PassOneExpired(b)
      PROVE  Settled'
  <2>1. /\ UNCHANGED <<held, at, doc, vol>> /\ pc = "pass_one" /\ pc' = "cancel_log"
        /\ UNCHANGED book \/ RequestCancel(Ours(b))
    BY <1>2 DEF PassOneExpired, logVars
  <2>2. Shrinks
    BY <2>1, UnchangedShrinks, CancelMovesNothing, MovesNothingShrinks DEF Settled
  <2> QED
    BY <2>1, <2>2, OrdinaryKeeps DEF Ordinary, Closing, LockFree
<1>3. CASE LogCancels
  <2>1. /\ UNCHANGED <<held, book, at, doc, vol, dst>> /\ pc = "cancel_log"
        /\ pc' = "move_doc" /\ dst = "expired"
    BY <1>3 DEF LogCancels, brokerVars, localVars, HandlesPending
  <2>2. Shrinks
    BY <2>1, UnchangedShrinks DEF Settled
  <2> QED
    BY <2>1, <2>2, OrdinaryKeeps DEF Ordinary, Closing, LockFree
<1> QED
  BY <1>1, <1>2, <1>3 DEF PassOne

(* When _reconcile starts, the snapshot is current for every symbol.       *)
LEMMA StartKeepsSettled ==
    ASSUME TypeOK, TypeOK', TargetInv, Settled, NEW b \in Batch, StartReconcile(b)
    PROVE  Settled'
<1> USE DEF Settled
<1>1. /\ UNCHANGED <<held, book, at, doc, vol, unf>> /\ ~Closing'
      /\ pc = "pass_one" /\ pc' = "reconcile" /\ cur' = b
  BY DEF StartReconcile, brokerVars, logVars, Closing
<1>2. Shrinks
  BY <1>1, UnchangedShrinks
<1>3. OrdersAsAsked' /\ SnapshotBound' /\ NoneLeft'
  BY <1>1, <1>2, AsAskedKept, BoundKept, NoneLeftKept DEF LockFree
<1>4. MatchIsCurrent'
  <2> SUFFICES ASSUME NEW s \in doc[b].syms, UnfinishedOn(s)' = {}, vol[s] = Goal(s)'
               PROVE  held[s] = Goal(s)' /\ \A o \in OwnLive' : book'[o].sym # s
    BY <1>1 DEF MatchIsCurrent
  <2>1. s \in Symbol /\ Undecided(s) /\ UnfinishedOn(s) = {}
    BY <1>1 DEF TypeOK, LogTypeOK, Doc, Undecided, UnfinishedOn
  <2>2. vol[s] = held[s] /\ \A o \in OwnLive : book[o].sym # s
    BY <2>1 DEF TargetInv, OneOrderInv, PositionIsCurrent, BookIsCurrent
  <2> QED
    BY <1>1, <2>2 DEF OwnLive, Live
<1> QED
  BY <1>3, <1>4

(* An order is placed for a pending batch, on the near side of its target, *)
(* and on a symbol whose position the snapshot shows to differ from it.    *)
LEMMA PlaceKeepsSettled ==
    ASSUME TypeOK, TypeOK', TargetInv, HandlesPending, Settled,
           NEW s \in Symbol, Visit(s), NEW avail \in 0..vol[s], NEW o \in OrdId,
           Place(s, avail, o)
    PROVE  Settled'
<1> USE DEF Settled
<1>1. /\ pc = "reconcile" /\ s \in doc[cur].syms /\ cur \in Batch
      /\ UNCHANGED <<held, at, doc, vol, unf, pc, cur>> /\ at[cur] = "pending"
  BY DEF Visit, TypeOK, CycleTypeOK, Handling, HandlesPending
<1>2. /\ book[o].st = "unused" /\ Diff(s) # 0 /\ Quantity(s, avail) > 0
      /\ book'[o] = [st |-> "live", sym |-> s, buy |-> Diff(s) > 0,
                     left |-> Quantity(s, avail), tgt |-> Goal(s),
                     owner |-> cur, asked |-> FALSE]
      /\ \A p \in OrdId \ {o} : book'[p] = book[p]
  BY DEF Place, Differs, PlaceOrder, TypeOK, BrokerTypeOK
<1>3. /\ Goal(s) \in Nat /\ vol[s] \in Nat /\ avail \in Nat
      /\ Diff(s) \in Int /\ Quantity(s, avail) \in Nat
  BY <1>1, QuantityType
<1>4. \A p \in OwnLive' : p = o \/ (p \in OwnLive /\ book'[p] = book[p])
  BY <1>2 DEF OwnLive, Live
<1>5. OrdersAsAsked'
  <2> SUFFICES ASSUME NEW p \in OwnLive'
               PROVE  /\ book'[p].left > 0 /\ at[book'[p].owner] # "absent"
                      /\ book'[p].sym \in doc[book'[p].owner].syms
                      /\ book'[p].tgt = doc[book'[p].owner].target[book'[p].sym]
    BY <1>1 DEF OrdersAsAsked
  <2>1. CASE p = o
    BY <1>1, <1>2, <2>1 DEF Goal
  <2>2. CASE p # o
    BY <1>4, <2>2 DEF OrdersAsAsked
  <2> QED
    BY <2>1, <2>2
<1>6. SnapshotBound'
  <2> SUFFICES ASSUME NEW p \in OwnLive'
               PROVE  IF book'[p].buy THEN vol[book'[p].sym] + book'[p].left <= book'[p].tgt
                      ELSE vol[book'[p].sym] - book'[p].left >= book'[p].tgt
    BY <1>1 DEF SnapshotBound
  <2>1. CASE p = o
    <3>1. /\ book'[p].sym = s /\ book'[p].left = Quantity(s, avail)
          /\ book'[p].tgt = Goal(s) /\ book'[p].buy = (Diff(s) > 0)
      BY <1>2, <2>1
    <3>2. Diff(s) = Goal(s) - vol[s]
      BY DEF Diff
    <3>3. CASE Diff(s) > 0
      <4>1. vol[s] + Quantity(s, avail) <= Goal(s)
        BY <1>3, <3>2, <3>3 DEF Quantity
      <4> QED
        BY <3>1, <3>3, <4>1
    <3>4. CASE ~(Diff(s) > 0)
      <4>1. vol[s] - Quantity(s, avail) >= Goal(s)
        BY <1>2, <1>3, <3>2, <3>4 DEF Quantity, Capped
      <4> QED
        BY <3>1, <3>4, <4>1
    <3> QED
      BY <3>3, <3>4
  <2>2. CASE p # o
    BY <1>1, <1>4, <2>2 DEF SnapshotBound, LockFree
  <2> QED
    BY <2>1, <2>2
<1>7. NoneLeft'
  <2>1. \A p \in OwnLive' : at[book'[p].owner] # "finished"
    BY <1>1, <1>2, <1>4 DEF NoneLeft, FinishedIsSettled
  <2> QED
    BY <1>1, <2>1 DEF NoneLeft, FinishedIsSettled, Closing
<1>8. MatchIsCurrent'
  <2> SUFFICES ASSUME NEW x \in doc[cur].syms, UnfinishedOn(x)' = {}, vol[x] = Goal(x)
               PROVE  held[x] = Goal(x) /\ \A p \in OwnLive' : book'[p].sym # x
    BY <1>1 DEF MatchIsCurrent, Closing, Goal
  <2>1. \A p \in unf : p # o
    BY <1>2 DEF TargetInv, OneOrderInv, SnapshotExists
  <2>2. UnfinishedOn(x) = {}
    BY <1>1, <1>2, <2>1 DEF UnfinishedOn, TypeOK, CycleTypeOK
  <2>3. held[x] = Goal(x) /\ \A p \in OwnLive : book[p].sym # x
    BY <1>1, <2>2 DEF MatchIsCurrent
  <2>4. x # s
    BY <1>2, <1>3 DEF Diff
  <2> QED
    BY <1>2, <1>4, <2>3, <2>4
<1> QED
  BY <1>5, <1>6, <1>7, <1>8

LEMMA ReconcileKeepsSettled ==
    ASSUME TypeOK, TypeOK', TargetInv, HandlesPending, Settled, ReconcileOrder
    PROVE  Settled'
<1>1. PICK s \in Symbol :
        \/ LeaveOrder(s)
        \/ CapToNothing(s)
        \/ \E avail \in 0..vol[s] :
            \/ \E o \in OrdId : SubmitOrder(s, avail, o)
            \/ SubmitUnanswered(s, avail)
            \/ AppendRaises(s, avail)
  BY DEF ReconcileOrder
<1>2. Visit(s)
  BY <1>1 DEF LeaveOrder, CapToNothing, SubmitOrder, SubmitUnanswered, AppendRaises, CapRaises, SubmitLineRaises
<1>3. \/ UNCHANGED book
      \/ \E avail \in 0..vol[s] : \E o \in OrdId : Place(s, avail, o)
  BY <1>1 DEF LeaveOrder, CapToNothing, SubmitOrder, SubmitUnanswered, AppendRaises, CapRaises, SubmitLineRaises
<1>4. CASE UNCHANGED book
  <2>1. /\ UNCHANGED <<held, book, at, doc, vol, unf, pc, cur, dst>> /\ pc = "reconcile"
    BY <1>2, <1>4 DEF Visit
  <2>2. Shrinks
    BY <2>1, UnchangedShrinks DEF Settled
  <2> QED
    BY <2>1, <2>2, OrdinaryKeeps DEF Ordinary, Closing, LockFree
<1> QED
  BY <1>2, <1>3, <1>4, PlaceKeepsSettled

(* A match shows that nothing of the batch is left: the snapshot could not *)
(* equal the target of a live order.                                       *)
LEMMA FinishKeepsSettled ==
    ASSUME TypeOK, TypeOK', Settled, FinishBatch
    PROVE  Settled'
<1> USE DEF Settled
<1>1. /\ UNCHANGED <<held, book, at, doc, vol, unf, cur>> /\ Closing' /\ cur \in Batch
      /\ pc = "matched" /\ pc' = "move_doc"
  BY DEF FinishBatch, brokerVars, logVars, Closing, TypeOK, CycleTypeOK, Handling
<1>2. \A s \in doc[cur].syms : vol[s] = Goal(s)
  BY DEF FinishBatch, Matched
<1>3. Shrinks
  BY <1>1, UnchangedShrinks
<1>4. OrdersAsAsked' /\ SnapshotBound'
  BY <1>1, <1>3, AsAskedKept, BoundKept DEF LockFree
<1>5. ASSUME NEW o \in OwnLive, book[o].owner = cur
      PROVE  FALSE
  <2>1. /\ book[o].left > 0 /\ book[o].tgt = vol[book[o].sym]
        /\ book[o].left \in Nat /\ book[o].tgt \in Nat /\ book[o].sym \in Symbol
    BY <1>2, <1>5, LeftIsNat DEF OrdersAsAsked, Goal, OwnLive, Live
  <2>2. IF book[o].buy THEN vol[book[o].sym] + book[o].left <= book[o].tgt
                       ELSE vol[book[o].sym] - book[o].left >= book[o].tgt
    BY <1>1, <1>5 DEF SnapshotBound, LockFree
  <2> QED
    BY <2>1, <2>2
<1>6. NoneLeft'
  <2>1. FinishedIsSettled' /\ \A o \in OwnLive' : book'[o].owner # cur'
    BY <1>1, <1>5 DEF NoneLeft, FinishedIsSettled, OwnLive, Live
  <2> QED
    BY <2>1 DEF NoneLeft
<1>7. MatchIsCurrent'
  <2>1. \A s \in doc[cur].syms : UnfinishedOn(s)' = UnfinishedOn(s) /\ Goal(s)' = Goal(s)
    BY <1>1 DEF UnfinishedOn, Goal
  <2>2. \A s \in doc[cur].syms : UnfinishedOn(s) = {} /\ vol[s] = Goal(s) =>
           held[s] = Goal(s) /\ \A o \in OwnLive : book[o].sym # s
    BY <1>1 DEF MatchIsCurrent
  <2>3. OwnLive' = OwnLive
    BY <1>1 DEF OwnLive, Live
  <2> QED
    BY <1>1, <1>2, <2>1, <2>2, <2>3 DEF MatchIsCurrent
<1> QED
  BY <1>4, <1>6, <1>7

LEMMA MoveKeepsSettled ==
    ASSUME TypeOK, TypeOK', Settled, MoveDocument
    PROVE  Settled'
<1> USE DEF Settled
<1>1. /\ UNCHANGED <<held, book, doc, vol, unf, cur, dst>> /\ pc = "move_doc"
      /\ pc' = "move_record" /\ at' = [at EXCEPT ![cur] = dst]
  BY DEF MoveDocument, MoveDoc, brokerVars, localVars
<1>2. \A b \in Batch : at'[b] = at[b] \/ (b = cur /\ at'[b] = dst)
  BY <1>1 DEF TypeOK, LogTypeOK
<1>3. Shrinks
  BY <1>1, UnchangedShrinks
<1>4. dst \in {"finished", "expired"}
  BY DEF TypeOK, CycleTypeOK
<1>5. OrdersAsAsked' /\ SnapshotBound'
  BY <1>1, <1>2, <1>3, <1>4, AsAskedKept, BoundKept DEF LockFree
<1>6. MatchIsCurrent'
  BY <1>1, <1>3, MatchKept DEF Closing
<1>7. NoneLeft'
  <2>1. ASSUME NEW o \in OwnLive', at'[book'[o].owner] = "finished"
        PROVE  FALSE
    <3>1. o \in OwnLive /\ book[o].owner = book'[o].owner /\ book[o].owner \in Batch
      BY <1>3 DEF Shrinks, OwnLive
    <3>2. CASE at[book[o].owner] = "finished"
      BY <3>1, <3>2 DEF NoneLeft, FinishedIsSettled
    <3>3. CASE book[o].owner = cur /\ dst = "finished"
      BY <1>1, <3>1, <3>3 DEF NoneLeft, Closing
    <3> QED
      BY <1>2, <2>1, <3>1, <3>2, <3>3
  <2>2. Closing' => \A o \in OwnLive' : book'[o].owner # cur'
    BY <1>1, <1>3 DEF NoneLeft, Closing, Shrinks
  <2> QED
    BY <2>1, <2>2 DEF NoneLeft, FinishedIsSettled
<1> QED
  BY <1>5, <1>6, <1>7

LEMMA WorkerKeepsSettled ==
    ASSUME TypeOK, TypeOK', TargetInv, HandlesPending, Settled, Worker
    PROVE  Settled'
<1>1. CASE QueryRaises \/ StopAfterPassOne \/ NotMatched \/ DiskRaises
  <2>1. UNCHANGED <<held, book, doc, at>> /\ EndCycle
    BY <1>1 DEF QueryRaises, StopAfterPassOne, NotMatched, DiskRaises, brokerVars, logVars
  <2> QED
    BY <2>1, EndKeepsSettled
<1>2. CASE SpillBuffer \/ CloseSession
  <2>1. /\ UNCHANGED <<held, book, at, doc, vol, unf, cur, dst>> /\ pc = "reconcile"
        /\ pc' \in {"reconcile", "matched"}
    BY <1>2 DEF SpillBuffer, CloseSession, brokerVars, localVars
  <2>2. Shrinks
    BY <2>1, UnchangedShrinks DEF Settled
  <2> QED
    BY <2>1, <2>2, OrdinaryKeeps DEF Ordinary, Closing, LockFree
<1>3. CASE MoveRecord
  <2>1. UNCHANGED <<held, book, at, doc>>
    BY <1>3 DEF MoveRecord, brokerVars
  <2>2. CASE EndCycle
    BY <2>1, <2>2, EndKeepsSettled
  <2>3. CASE pc' = "pass_one" /\ UNCHANGED vol
    <3>1. Shrinks /\ pc = "move_record"
      BY <1>3, <2>1, UnchangedShrinks DEF Settled, MoveRecord
    <3> QED
      BY <2>1, <2>3, <3>1, OrdinaryKeeps DEF Ordinary, Closing, LockFree
  <2> QED
    BY <1>3, <2>2, <2>3 DEF MoveRecord
<1> QED
  BY <1>1, <1>2, <1>3, SnapshotKeepsSettled, PassOneKeepsSettled, StartKeepsSettled,
     ReconcileKeepsSettled, FinishKeepsSettled, MoveKeepsSettled DEF Worker

LEMMA MirrorKeepsSettled ==
    ASSUME SteadyDocs, TypeOK, TypeOK', Settled, Mirror
    PROVE  Settled'
<1>0. PICK b \in Batch : \E d \in Docs[b] : \E passNow \in 1..t : MirrorFile(b, d, passNow)
  BY DEF Mirror
<1>1. PICK d \in Docs[b] : \E passNow \in 1..t : MirrorFile(b, d, passNow)
  BY <1>0
<1>2. /\ UNCHANGED <<held, book, pc, vol>> /\ pc \in {"idle", "guarded"}
      /\ at' = [at EXCEPT ![b] = "pending"] /\ doc' = [doc EXCEPT ![b] = d]
  BY <1>1 DEF MirrorFile, MoveDoc, brokerVars, cycleVars
<1>3. d.syms = doc[b].syms /\ d.target = doc[b].target
  BY DEF SteadyDocs, TypeOK, LogTypeOK
<1>4. \A c \in Batch : /\ at'[c] = at[c] \/ at'[c] = "pending"
                      /\ doc'[c].syms = doc[c].syms /\ doc'[c].target = doc[c].target
  BY <1>2, <1>3 DEF TypeOK, LogTypeOK
<1>5. Shrinks
  BY <1>2, UnchangedShrinks DEF Settled
<1> QED
  BY <1>2, <1>4, <1>5, OrdinaryKeeps DEF Ordinary, Closing, LockFree

LEMMA BrokerKeepsSettled ==
    ASSUME Undisturbed, TypeOK, TypeOK', TargetInv, Settled, BrokerStep
    PROVE  Settled'
<1> USE DEF Settled
<1>1. /\ UNCHANGED <<at, doc, pc, dst, cur, vol, unf>>
      /\ \E o \in OrdId : EndOrder(o) \/ \E q \in 1..book[o].left : Fill(o, q)
  BY DEF BrokerStep, ManualOrder, Undisturbed, logVars, cycleVars
<1>2. \A o \in unf : book'[o].sym = book[o].sym
  BY BrokerOpensNothing DEF OpensNothing, TargetInv, OneOrderInv, SnapshotExists,
     TypeOK, CycleTypeOK
<1>3. ASSUME NEW o \in OrdId, EndOrder(o)
      PROVE  Settled'
  <2>1. Shrinks /\ UNCHANGED held
    BY <1>3, EndMovesNothing, MovesNothingShrinks DEF EndOrder
  <2> QED
    BY <1>1, <1>2, <2>1, OrdinaryKeeps DEF Ordinary, Closing, LockFree
<1>4. ASSUME NEW o \in OrdId, NEW q \in 1..book[o].left, Fill(o, q)
      PROVE  Settled'
  <2>1. Shrinks
    BY <1>4, FillShrinks
  <2>2. OrdersAsAsked' /\ SnapshotBound' /\ NoneLeft'
    BY <1>1, <2>1, AsAskedKept, BoundKept, NoneLeftKept DEF Closing, LockFree
  <2>3. MatchIsCurrent'
    <3>1. o \in OwnLive
      BY <1>4 DEF Fill, TargetInv, OnlyOwn, OwnLive, Live
    <3>2. \A s \in Symbol : book[o].sym # s => held'[s] = held[s]
      BY <1>4 DEF Fill, TypeOK, BrokerTypeOK
    <3>3. \A s \in Symbol : UnfinishedOn(s)' = UnfinishedOn(s)
      BY <1>1, <1>2 DEF UnfinishedOn
    <3>4. ASSUME pc \in {"reconcile", "matched"} \/ Closing
          PROVE  cur \in Batch /\ doc[cur].syms \subseteq Symbol
      BY <3>4 DEF Closing, Handling, TypeOK, LogTypeOK, CycleTypeOK, Doc
    <3>5. ASSUME pc \in {"reconcile", "matched"} \/ Closing, NEW s \in doc[cur].syms,
                 UnfinishedOn(s)' = {}, vol[s] = Goal(s)
          PROVE  held'[s] = Goal(s) /\ \A p \in OwnLive' : book'[p].sym # s
      <4>1. s \in Symbol /\ UnfinishedOn(s) = {}
        BY <3>3, <3>4, <3>5
      <4>2. held[s] = Goal(s) /\ \A p \in OwnLive : book[p].sym # s
        BY <3>5, <4>1 DEF MatchIsCurrent
      <4> QED
        BY <2>1, <3>1, <3>2, <4>1, <4>2 DEF Shrinks
    <3> QED
      BY <1>1, <3>5 DEF MatchIsCurrent, Closing, Goal
  <2> QED
    BY <2>2, <2>3
<1> QED
  BY <1>1, <1>3, <1>4

LEMMA NextKeepsSettled ==
    ASSUME Undisturbed, SteadyDocs, TypeOK, TypeOK', TargetInv, HandlesPending,
           Settled, [Next]_vars
    PROVE  Settled'
<1>1. CASE ChannelStep \/ Tick \/ UNCHANGED vars
  <2>1. UNCHANGED <<held, book, at, doc, pc, dst, cur, vol, unf>>
    BY <1>1 DEF ChannelStep, Tick, vars, brokerVars, logVars, cycleVars, localVars
  <2>2. Shrinks
    BY <2>1, UnchangedShrinks DEF Settled
  <2> QED
    BY <2>1, <2>2, OrdinaryKeeps DEF Ordinary, Closing, LockFree
<1>2. CASE Crash \/ Restart
  <2>1. UNCHANGED <<held, book, at, doc>> /\ pc' \in LockFree
    BY <1>2 DEF Crash, Restart, brokerVars, LockFree
  <2> QED
    BY <2>1, EndKeepsSettled
<1> QED
  BY <1>1, <1>2, WorkerKeepsSettled, MirrorKeepsSettled, BrokerKeepsSettled DEF Next

LEMMA SettledInvHolds ==
    ASSUME Undisturbed, SteadyDocs
    PROVE  Spec => []SettledInv
<1>1. Init => HandlesPending /\ Settled
  <2> SUFFICES ASSUME Init PROVE HandlesPending /\ Settled
    OBVIOUS
  <2>1. OwnLive = {} /\ pc = "idle" /\ seen = {}
    BY DEF Init, BrokerInit, Unused, OwnLive, Live
  <2> QED
    BY <2>1 DEF HandlesPending, Scanning, LockFree, Settled, OrdersAsAsked,
       SnapshotBound, NoneLeft, FinishedIsSettled, MatchIsCurrent, Closing
<1>2. TypeOK /\ TypeOK' /\ TargetInv /\ HandlesPending /\ Settled /\ [Next]_vars
        => HandlesPending' /\ Settled'
  BY NextHandlesPending, NextKeepsSettled
<1>3. TargetInv => TypeOK
  BY DEF TargetInv, OneOrderInv
<1>4. TargetInv /\ HandlesPending /\ Settled => SettledInv
  BY DEF SettledInv, Settled
<1> QED
  BY TargetInvHolds, <1>1, <1>2, <1>3, <1>4, PTL DEF Spec

(* Nothing of a finished batch can still trade: if broker and account are  *)
(* undisturbed and edits do not change what a batch asks for, no order of  *)
(* a batch in finished/ is live, whatever else fails or crashes.           *)
THEOREM FinishedStaysSettled ==
    ASSUME Undisturbed, SteadyDocs
    PROVE  Spec => []FinishedIsSettled
<1>1. SettledInv => FinishedIsSettled
  BY DEF SettledInv, NoneLeft
<1> QED
  BY SettledInvHolds, <1>1, PTL

(* A batch finishes on positions that are still held at that moment, a     *)
(* whole cycle after the snapshot _matched judged by.                      *)
THEOREM FinishesOnHeldPositions ==
    ASSUME Undisturbed, SteadyDocs
    PROVE  Spec => FinishMeansHeld
<1>1. ASSUME SettledInv, [Next]_vars, NEW b \in Batch,
             at[b] # "finished", at'[b] = "finished"
      PROVE  \A s \in doc[b].syms : UnfinishedOn(s) = {} => held[s] = doc[b].target[s]
  <2>0. TypeOK
    BY <1>1 DEF SettledInv, TargetInv, OneOrderInv
  <2>1. MoveDocument
    <3>1. CASE Worker
      <4>1. CASE PassOneInvalid(b) \/ \E c \in Batch \ {b} : PassOneInvalid(c)
        BY <1>1, <2>0, <4>1 DEF PassOneInvalid, MoveDoc, TypeOK, LogTypeOK
      <4>2. CASE ~MoveDocument /\ \A c \in Batch : ~PassOneInvalid(c)
        <5>1. UNCHANGED at
          BY <3>1, <4>2 DEF Worker, PassGuards, ReadPositions, ReadUnfinished,
             QueryRaises, PassOne, PassOneExpired, PassOneKeep, LogCancels,
             StopAfterPassOne, StartReconcile, ReconcileOrder, LeaveOrder,
             CapToNothing, SubmitOrder, SubmitUnanswered, AppendRaises, CapRaises, SubmitLineRaises, Visit,
             SpillBuffer, CloseSession, NotMatched, FinishBatch, MoveRecord,
             DiskRaises, logVars
        <5> QED
          BY <1>1, <5>1
      <4> QED
        BY <4>1, <4>2
    <3>2. CASE Mirror
      BY <1>1, <2>0, <3>2 DEF Mirror, MirrorFile, MoveDoc, TypeOK, LogTypeOK
    <3>3. CASE ~Worker /\ ~Mirror
      BY <1>1, <3>3 DEF Next, BrokerStep, ChannelStep, Tick, Crash, Restart, vars, logVars
    <3> QED
      BY <3>1, <3>2, <3>3
  <2>2. b = cur /\ Closing
    BY <1>1, <2>0, <2>1 DEF MoveDocument, MoveDoc, Closing, TypeOK, LogTypeOK
  <2> QED
    BY <1>1, <2>2 DEF SettledInv, MatchIsCurrent, Goal
<1>2. SettledInv /\ [Next]_vars =>
        [\A b \in Batch : at[b] # "finished" /\ at'[b] = "finished" =>
            \A s \in doc[b].syms :
                UnfinishedOn(s) = {} => held[s] = doc[b].target[s]]_vars
  BY <1>1
<1> QED
  BY SettledInvHolds, <1>2, PTL DEF Spec, FinishMeansHeld

-----------------------------------------------------------------------------
(* The cycle implements BatchLifecycle.                                    *)

OpenOn(b) == {book[o].sym : o \in {p \in Live : book[p].owner = b}}
Open == [b \in Batch |-> OpenOn(b)]

LEMMA OpenKept ==
    ASSUME \A o \in OrdId : /\ book'[o].st = book[o].st
                            /\ book'[o].owner = book[o].owner
                            /\ book'[o].sym = book[o].sym
    PROVE  Open' = Open
<1>1. Live' = Live
  BY DEF Live
<1>2. \A b \in Batch : OpenOn(b)' = OpenOn(b)
  BY <1>1 DEF OpenOn, Live
<1> QED
  BY <1>2 DEF Open

(* An order that is done leaves its symbol free: no other own order is on  *)
(* it.                                                                     *)
LEMMA OrderEndsStep ==
    ASSUME TypeOK, OneOrderPerSymbol, UNCHANGED at,
           NEW o \in OrdId, book[o].st = "live", book' = [book EXCEPT ![o] = Ended(book[o])]
    PROVE  [Lifecycle!Next]_<<at, Open>>
<1>1. /\ book'[o].st = "done"
      /\ \A p \in OrdId \ {o} : book'[p] = book[p]
  BY DEF TypeOK, BrokerTypeOK, Ended, Order
<1>2. Live' = Live \ {o} /\ o \in Live
  BY <1>1 DEF Live
<1>3. ASSUME NEW b \in Batch, NEW s \in Symbol, b = book[o].owner, s = book[o].sym
      PROVE  [Lifecycle!Next]_<<at, Open>>
  <2>1. s \in OpenOn(b)
    BY <1>2, <1>3 DEF OpenOn
  <2>2. \A p \in Live \ {o} : book[p].owner = b => book[p].sym # s
    BY <1>2, <1>3 DEF OneOrderPerSymbol, OwnLive
  <2>3. OpenOn(b)' = OpenOn(b) \ {s}
    <3>1. Live' \subseteq OrdId /\ \A p \in Live' : book'[p] = book[p]
      BY <1>1, <1>2 DEF Live
    <3>2. ASSUME NEW x PROVE x \in OpenOn(b)' <=> x \in OpenOn(b) /\ x # s
      BY <1>2, <1>3, <2>2, <3>1 DEF OpenOn
    <3> QED
      BY <3>2
  <2>4. ASSUME NEW c \in Batch, c # b PROVE OpenOn(c)' = OpenOn(c)
    <3>1. {p \in Live' : book'[p].owner = c} = {p \in Live : book[p].owner = c}
      BY <1>1, <1>2, <1>3, <2>4 DEF Live
    <3>2. \A p \in {p \in Live : book[p].owner = c} : book'[p] = book[p]
      BY <1>1, <1>3, <2>4 DEF Live
    <3> QED
      BY <3>1, <3>2 DEF OpenOn
  <2>5. Open' = [Open EXCEPT ![b] = @ \ {s}]
    BY <2>3, <2>4 DEF Open
  <2>6. s \in Open[b]
    BY <2>1 DEF Open
  <2>7. Lifecycle!OrderEnds(b, s)
    BY <2>5, <2>6 DEF Lifecycle!OrderEnds, Open, OpenOn
  <2> QED
    BY <2>7 DEF Lifecycle!Next
<1>4. CASE book[o].owner \notin Batch
  <2>1. \A c \in Batch : OpenOn(c)' = OpenOn(c)
    BY <1>1, <1>2, <1>4 DEF OpenOn, Live
  <2> QED
    BY <2>1 DEF Open
<1> QED
  BY <1>3, <1>4, LeftIsNat

LEMMA PlaceStep ==
    ASSUME TypeOK, BookIsCurrent, HandlesPending,
           NEW s \in Symbol, Visit(s), NEW avail, NEW o \in OrdId, Place(s, avail, o)
    PROVE  [Lifecycle!Next]_<<at, Open>>
<1> PICK b \in Batch : b = cur
  BY DEF Visit, TypeOK, CycleTypeOK, Handling
<1>1. /\ UNCHANGED at /\ at[b] = "pending" /\ UnfinishedOn(s) = {} /\ Undecided(s)
      /\ book[o].st = "unused" /\ book'[o].st = "live"
      /\ book'[o].sym = s /\ book'[o].owner = b
      /\ \A p \in OrdId \ {o} : book'[p] = book[p]
  BY DEF Visit, HandlesPending, Undecided, Place, Differs, PlaceOrder, TypeOK, BrokerTypeOK
<1>2. \A p \in OwnLive : book[p].sym # s
  BY <1>1 DEF BookIsCurrent
<1>3. Live' = Live \cup {o} /\ o \notin Live
  BY <1>1 DEF Live
<1>4. \A c \in Batch : s \notin Open[c]
  BY <1>2 DEF Open, OpenOn, OwnLive
<1>5. OpenOn(b)' = OpenOn(b) \cup {s}
  <2>1. {p \in Live' : book'[p].owner = b} = {p \in Live : book[p].owner = b} \cup {o}
    BY <1>1, <1>3 DEF Live
  <2>2. \A p \in {q \in Live : book[q].owner = b} : book'[p] = book[p]
    BY <1>1, <1>3 DEF Live
  <2> QED
    BY <1>1, <2>1, <2>2 DEF OpenOn
<1>6. ASSUME NEW c \in Batch, c # b PROVE OpenOn(c)' = OpenOn(c)
  <2>1. {p \in Live' : book'[p].owner = c} = {p \in Live : book[p].owner = c}
    BY <1>1, <1>3, <1>6 DEF Live
  <2>2. \A p \in {q \in Live : book[q].owner = c} : book'[p] = book[p]
    BY <1>1, <1>3 DEF Live
  <2> QED
    BY <2>1, <2>2 DEF OpenOn
<1>7. Open' = [Open EXCEPT ![b] = @ \cup {s}]
  BY <1>5, <1>6 DEF Open
<1>8. Lifecycle!OpenOrder(b, s)
  BY <1>1, <1>4, <1>7 DEF Lifecycle!OpenOrder, Open, OpenOn
<1> QED
  BY <1>8 DEF Lifecycle!Next

LEMMA MirrorStep ==
    ASSUME TypeOK, Mirror
    PROVE  [Lifecycle!Next]_<<at, Open>>
<1>1. PICK b \in Batch : \E d \in Docs[b] : \E passNow \in 1..t : MirrorFile(b, d, passNow)
  BY DEF Mirror
<1>2. /\ UNCHANGED book /\ at[b] \in {"absent", "pending"}
      /\ at' = [at EXCEPT ![b] = "pending"]
  BY <1>1 DEF MirrorFile, MoveDoc, brokerVars, TypeOK, LogTypeOK, Terminal, LiveDir
<1>3. Open' = Open
  BY <1>2, OpenKept
<1>4. CASE at[b] = "absent"
  <2>1. Lifecycle!Import(b)
    BY <1>2, <1>3, <1>4 DEF Lifecycle!Import, Open, OpenOn
  <2> QED
    BY <2>1 DEF Lifecycle!Next
<1>5. CASE at[b] = "pending"
  BY <1>2, <1>3, <1>5 DEF TypeOK, LogTypeOK
<1> QED
  BY <1>2, <1>4, <1>5

(* Closing a batch, for any reason.                                        *)
LEMMA ConcludeStep ==
    ASSUME UNCHANGED book, NEW b \in Batch, NEW stage \in Lifecycle!Closed,
           at[b] = "pending", at' = [at EXCEPT ![b] = stage],
           stage = "finished" => \A o \in OwnLive : book[o].owner # b
    PROVE  [Lifecycle!Next]_<<at, Open>>
<1>1. Open' = Open
  BY OpenKept
<1>2. stage = "finished" => Open[b] = {}
  BY DEF Open, OpenOn, OwnLive
<1>3. Lifecycle!Conclude(b, stage)
  BY <1>1, <1>2 DEF Lifecycle!Conclude, Open, OpenOn
<1> QED
  BY <1>3 DEF Lifecycle!Next

LEMMA WorkerStep ==
    ASSUME SettledInv, Worker
    PROVE  [Lifecycle!Next]_<<at, Open>>
<1> USE DEF SettledInv, TargetInv, OneOrderInv
<1>1. ASSUME NEW b \in Batch, PassOneInvalid(b)
      PROVE  [Lifecycle!Next]_<<at, Open>>
  <2>1. UNCHANGED book /\ at[b] = "pending"
    BY <1>1 DEF PassOneInvalid, Next1, HandlesPending, Scanning, Pending, brokerVars
  <2>2. CASE UNCHANGED at
    BY <2>1, <2>2, OpenKept
  <2>3. CASE at' = [at EXCEPT ![b] = "failed"]
    BY <2>1, <2>3, ConcludeStep DEF Lifecycle!Closed
  <2> QED
    BY <1>1, <2>2, <2>3 DEF PassOneInvalid, MoveDoc
<1>2. ASSUME NEW b \in Batch, PassOneExpired(b)
      PROVE  [Lifecycle!Next]_<<at, Open>>
  <2>1. \A ord \in Order : LET new == [ord EXCEPT !.asked = TRUE] IN
           new.st = ord.st /\ new.owner = ord.owner /\ new.sym = ord.sym
    BY DEF Order
  <2>2. \A o \in OrdId : /\ book'[o].st = book[o].st
                         /\ book'[o].owner = book[o].owner
                         /\ book'[o].sym = book[o].sym
    <3>1. \A o \in OrdId : book[o] \in Order
      BY DEF TypeOK, BrokerTypeOK
    <3>2. UNCHANGED book \/ RequestCancel(Ours(b))
      BY <1>2 DEF PassOneExpired
    <3>3. CASE RequestCancel(Ours(b))
      BY <2>1, <3>1, <3>3 DEF RequestCancel
    <3> QED
      BY <3>2, <3>3
  <2> QED
    BY <1>2, <2>2, OpenKept DEF PassOneExpired, logVars
<1>3. CASE MoveDocument
  <2>1. /\ UNCHANGED book /\ pc = "move_doc" /\ cur \in Batch /\ at[cur] = "pending"
        /\ dst \in {"finished", "expired"} /\ at' = [at EXCEPT ![cur] = dst]
    BY <1>3 DEF MoveDocument, MoveDoc, brokerVars, HandlesPending, TypeOK, CycleTypeOK,
       Handling
  <2>2. dst = "finished" => \A o \in OwnLive : book[o].owner # cur
    BY <2>1 DEF NoneLeft, Closing
  <2> QED
    BY <2>1, <2>2, ConcludeStep DEF Lifecycle!Closed
<1>4. ASSUME NEW s \in Symbol, Visit(s),
             UNCHANGED book \/ \E avail \in 0..vol[s] : \E o \in OrdId : Place(s, avail, o)
      PROVE  [Lifecycle!Next]_<<at, Open>>
  BY <1>4, PlaceStep, OpenKept DEF Visit
<1>5. CASE ReconcileOrder
  BY <1>4, <1>5 DEF ReconcileOrder, LeaveOrder, CapToNothing, SubmitOrder,
     SubmitUnanswered, AppendRaises, CapRaises, SubmitLineRaises
<1>6. CASE \/ PassGuards \/ ReadPositions \/ ReadUnfinished \/ QueryRaises
           \/ LogCancels \/ StopAfterPassOne \/ SpillBuffer \/ CloseSession
           \/ NotMatched \/ FinishBatch \/ MoveRecord \/ DiskRaises
           \/ \E b \in Batch : PassOneKeep(b) \/ StartReconcile(b)
  <2>1. UNCHANGED <<book, at>>
    BY <1>6 DEF PassGuards, ReadPositions, ReadUnfinished, QueryRaises, LogCancels,
       StopAfterPassOne, SpillBuffer, CloseSession, NotMatched, FinishBatch,
       MoveRecord, DiskRaises, PassOneKeep, StartReconcile, brokerVars, logVars
  <2> QED
    BY <2>1, OpenKept
<1> QED
  BY <1>1, <1>2, <1>3, <1>5, <1>6 DEF Worker, PassOne

LEMMA NextImplements ==
    ASSUME SettledInv, [Next]_vars
    PROVE  [Lifecycle!Next]_<<at, Open>>
<1> USE DEF SettledInv, TargetInv, OneOrderInv
<1>1. CASE BrokerStep
  <2>1. UNCHANGED at
    BY <1>1 DEF BrokerStep, logVars
  <2>2. ASSUME NEW o \in OrdId, EndOrder(o)
        PROVE  [Lifecycle!Next]_<<at, Open>>
    BY <2>1, <2>2, OrderEndsStep DEF EndOrder
  <2>3. ASSUME NEW o \in OrdId, NEW q \in 1..book[o].left, Fill(o, q)
        PROVE  [Lifecycle!Next]_<<at, Open>>
    <3>1. CASE q = book[o].left
      BY <2>1, <2>3, <3>1, OrderEndsStep DEF Fill
    <3>2. CASE q # book[o].left
      <4>1. book' = [book EXCEPT ![o] = [book[o] EXCEPT !.left = @ - q]]
        BY <2>3, <3>2 DEF Fill
      <4>2. \A ord \in Order : LET new == [ord EXCEPT !.left = @ - q] IN
              new.st = ord.st /\ new.owner = ord.owner /\ new.sym = ord.sym
        BY DEF Order
      <4>3. \A p \in OrdId : /\ book'[p].st = book[p].st
                             /\ book'[p].owner = book[p].owner
                             /\ book'[p].sym = book[p].sym
        BY <4>1, <4>2 DEF TypeOK, BrokerTypeOK
      <4> QED
        BY <2>1, <4>3, OpenKept
    <3> QED
      BY <3>1, <3>2
  <2>4. ASSUME NEW o \in OrdId, NEW s \in Symbol, NEW isBuy \in BOOLEAN,
               ManualOrder(o, s, isBuy)
        PROVE  [Lifecycle!Next]_<<at, Open>>
    <3>1. /\ book[o].st = "unused" /\ book'[o].st = "live" /\ book'[o].owner = NoBatch
          /\ \A p \in OrdId \ {o} : book'[p] = book[p]
      BY <2>4 DEF ManualOrder, PlaceOrder, TypeOK, BrokerTypeOK
    <3>2. ASSUME NEW b \in Batch PROVE OpenOn(b)' = OpenOn(b)
      <4>1. {p \in Live' : book'[p].owner = b} = {p \in Live : book[p].owner = b}
        BY <3>1 DEF Live
      <4>2. \A p \in {q \in Live : book[q].owner = b} : book'[p] = book[p]
        BY <3>1 DEF Live
      <4> QED
        BY <4>1, <4>2 DEF OpenOn
    <3> QED
      BY <2>1, <3>2 DEF Open
  <2> QED
    BY <1>1, <2>2, <2>3, <2>4 DEF BrokerStep
<1>2. CASE ChannelStep \/ Tick \/ Crash \/ Restart \/ UNCHANGED vars
  <2>1. UNCHANGED <<book, at>>
    BY <1>2 DEF ChannelStep, Tick, Crash, Restart, vars, brokerVars, logVars
  <2> QED
    BY <2>1, OpenKept
<1> QED
  BY <1>1, <1>2, WorkerStep, MirrorStep DEF Next

(* The cycle, with its broker, its files and its channel, does to a batch  *)
(* nothing but what BatchLifecycle promises: one import, trading while it  *)
(* is pending, at most one order open per symbol, one conclusion, and none *)
(* of its orders open when it finishes.                                    *)
THEOREM CycleImplementsLifecycle ==
    ASSUME Undisturbed, SteadyDocs
    PROVE  Spec => ImplementsLifecycle
<1>1. Init => Lifecycle!Init
  <2> SUFFICES ASSUME Init PROVE Lifecycle!Init
    OBVIOUS
  <2>1. Live = {} /\ at = [b \in Batch |-> "absent"]
    BY DEF Init, BrokerInit, LogInit, Unused, Live
  <2> QED
    BY <2>1 DEF Lifecycle!Init
<1>2. SettledInv /\ [Next]_vars =>
        [Lifecycle!Next]_<<at, [b \in Batch |->
                                  {book[o].sym : o \in {p \in Live : book[p].owner = b}}]>>
  BY NextImplements DEF Open, OpenOn
<1> QED
  BY SettledInvHolds, <1>1, <1>2, PTL DEF Spec, ImplementsLifecycle, Lifecycle!Spec
=============================================================================
