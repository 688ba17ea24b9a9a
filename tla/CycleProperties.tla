-------------------------- MODULE CycleProperties ---------------------------
(***************************************************************************)
(* What run_cycle has to achieve, and under which faults. A property that  *)
(* does not survive a fault is checked without it, and the run that shows  *)
(* it broken names the fault.                                              *)
(***************************************************************************)
EXTENDS Report

(* No own order can take a holding past the target its batch asked for: a  *)
(* live buy may fill completely and still not exceed it, a live sell may   *)
(* not go below it. This is "a target, not a delta" of SCHEMA.md: a cycle  *)
(* recomputes the difference and never submits it twice.                   *)
NeverPastTarget == \A o \in OwnLive :
    LET ord == book[o] IN
    IF ord.buy THEN held[ord.sym] + ord.left <= ord.tgt
               ELSE held[ord.sym] - ord.left >= ord.tgt

(* Across all batches at most one own order is live per symbol, orders     *)
(* that order_volume placed without answering included.                    *)
OneOrderPerSymbol == \A o, p \in OwnLive :
    book[o].sym = book[p].sym => o = p

(* The worker has still to decide what to do about s in this cycle.        *)
Undecided(s) ==
    \/ pc \in {"pass_one", "cancel_log"}
    \/ pc \in {"move_doc", "move_record"} /\ dst = "expired"
    \/ pc = "reconcile" /\ s \in todo

(* Until the worker has decided about s, the snapshot has not gone stale   *)
(* where it matters: if it shows no unfinished order on s, then no own     *)
(* order on s is live now,                                                 *)
BookIsCurrent == \A s \in Symbol :
    Undecided(s) /\ UnfinishedOn(s) = {} =>
        \A o \in OwnLive : book[o].sym # s

(* and the position it shows for s is the one held now. get_position ran   *)
(* before get_unfinished_orders, and neither is read again in the cycle.   *)
PositionIsCurrent ==
    /\ pc = "unfinished" => vol = held
    /\ \A s \in Symbol :
          Undecided(s) /\ UnfinishedOn(s) = {} => vol[s] = held[s]

(* A finished batch has no order left on the book: ORDER_RECORD.md says of *)
(* a matched batch "they all filled".                                      *)
FinishedIsSettled == \A o \in OwnLive : at[book[o].owner] # "finished"

(* At the moment a batch is moved to finished/ the account still holds     *)
(* every target, though _matched judged by a snapshot that is a whole      *)
(* cycle old. Only a symbol on which the snapshot showed someone else's    *)
(* order may have moved: FLOW.md lets such an order not block the match.   *)
FinishMeansHeld == [][\A b \in Batch :
    at[b] # "finished" /\ at'[b] = "finished" =>
        \A s \in doc[b].syms :
            UnfinishedOn(s) = {} => held[s] = doc[b].target[s]]_vars

(* A recorded order that outlives its expired batch has been asked to be   *)
(* cancelled (FLOW.md: live orders are cancelled first, then the batch is  *)
(* moved), also if the process has died since it was placed: the restart   *)
(* has found it in the record.                                             *)
ExpiredWasCancelled == \A o \in OwnLive : LET b == book[o].owner IN
    at[b] = "expired" /\ o \in Submitted(b) => book[o].asked

(* Nothing is cancelled but the orders of a batch that has expired: the    *)
(* index never takes a manual order, or another batch's, for an expired    *)
(* batch's own.                                                            *)
CancelsOnlyExpired == [][\A o \in OrdId :
    ~book[o].asked /\ book'[o].asked =>
        /\ book[o].owner \in Batch
        /\ now > doc[book[o].owner].expires]_vars

(* An order is placed only for the one pending batch whose window holds    *)
(* the cycle's clock, on a symbol it names, and while no other readable    *)
(* pending batch claims an overlapping window.                             *)
SubmitOnlyInWindow == [][\A o \in OrdId :
    book[o].st = "unused" /\ book'[o].owner \in Batch =>
        LET b == book'[o].owner IN
        /\ at[b] = "pending" /\ doc[b].ok
        /\ doc[b].valid <= now /\ now <= doc[b].expires
        /\ book'[o].sym \in doc[b].syms
        /\ \A c \in Pending \ {b} : doc[c].expires < doc[b].valid
                                    \/ doc[b].expires < doc[c].valid]_vars

(* While the program runs, every submit line on disk is in clord_index     *)
(* under its batch, after a restart too: otherwise the order would be left *)
(* alive at expiry and its events dropped as foreign. A restart leaves out *)
(* a record that it cannot read, so this is not true with both "disk" and  *)
(* "crash".                                                                *)
RecordedIsIndexed ==
    pc # "down" => \A b \in Batch : \A o \in Submitted(b) : index[o] = b

(* Between cycles a record lies beside its batch, and every live own order *)
(* has its submit line there.                                              *)
RecordBesideBatch == pc \in LockFree =>
    /\ \A b \in Batch : at[b] # "failed" => recAt[b] \in {"none", at[b]}
    /\ \A o \in OwnLive : o \in Submitted(book[o].owner)

(* What the close report calls a foreign order, one that "is not ours and *)
(* needs a human", is never an order of the batch that it reports.         *)
ForeignIsForeign == Reporting =>
    \A s \in doc[cur].syms : \A o \in ForeignOn(s) : book[o].owner # cur

(* A row that blames neither the broker's stock nor an order tells the     *)
(* truth when it is sent: no order of the program, this batch's or another *)
(* one's, is live on its symbol.                                           *)
ResidualIsTerminal == Reporting =>
    \A s \in doc[cur].syms : \A avail \in 0..vol[s] :
        Reason(s, avail) = "residual-mismatch" =>
            \A o \in OwnLive : book[o].sym # s

(* A batch whose close raises no warning leaves the operator nothing to    *)
(* look after: none of its orders is live.                                 *)
SilentIsSettled == Reporting /\ ~Warns =>
    \A o \in OwnLive : book[o].owner # cur

(* Once the link and the process stay up, a pending batch does not stay    *)
(* pending: it is finished, or failed, or at the latest expired, whatever  *)
(* the broker does with its orders, however windows overlap and wherever   *)
(* the process died before.                                                *)
PendingEventuallyCloses ==
    <>[](link /\ pc # "down") =>
        \A b \in Batch : at[b] = "pending" ~> at[b] # "pending"

(* The worker thread is scheduled, the clock runs, the SDK delivers its    *)
(* callbacks.                                                              *)
FairSpec == Spec /\ WF_vars(Worker) /\ WF_vars(Tick) /\ WF_vars(Restart)
                 /\ WF_vars(ChannelStep /\ told' # told)

(* The cycle implements the promise of BatchLifecycle.                     *)
Lifecycle == INSTANCE BatchLifecycle WITH
    phase <- at,
    open <- [b \in Batch |-> {book[o].sym : o \in {p \in Live : book[p].owner = b}}]

ImplementsLifecycle == Lifecycle!Spec
=============================================================================
