---------------------------- MODULE ReportProofs -----------------------------
(***************************************************************************)
(* Theorems about what is left behind and told when a batch closes: where  *)
(* its record lies, and what the close report says of its orders.          *)
(***************************************************************************)
EXTENDS RecordProofs

USE BatchAssumption, SymbolAssumption, ClockAssumption, GraceAssumption,
    OpeningAssumption, DocsAssumption

(* Every order is answered, its line is written and its process lives.     *)
NothingLost == Faults \cap {"ack", "disk", "crash"} = {}

(* An order that was placed for a batch has its submit line, on disk or in *)
(* the open session.                                                       *)
Logged == \A o \in OrdId : book[o].owner \in Batch =>
    o \in Submitted(book[o].owner) \/ <<"submit", o>> \in buf

(* A record lies beside its batch but between the two moves of move_pair.  *)
Beside ==
    /\ \A b \in Batch : at[b] # "failed" =>
          recAt[b] \in {"none", at[b]} \/ (pc = "move_record" /\ b = cur)
    /\ pc = "move_record" => at[cur] = dst

-----------------------------------------------------------------------------
(* Orders and their lines.                                                 *)

(* A step that gives no order to a batch.                                  *)
GivesNone == \A o \in OrdId :
    book'[o].owner \in Batch => book'[o].owner = book[o].owner

LEMMA BrokerGivesNone ==
    ASSUME TypeOK, BrokerStep
    PROVE  GivesNone
<1>1. \A o \in OrdId : book[o] \in Order
  BY DEF TypeOK, BrokerTypeOK
<1>2. \A ord \in Order : Ended(ord).owner = ord.owner
  BY DEF Order, Ended
<1>3. ASSUME NEW o \in OrdId, EndOrder(o)
      PROVE  GivesNone
  BY <1>1, <1>2, <1>3 DEF EndOrder, TypeOK, BrokerTypeOK, GivesNone
<1>4. ASSUME NEW o \in OrdId, NEW q \in 1..book[o].left, Fill(o, q)
      PROVE  GivesNone
  <2>1. [book[o] EXCEPT !.left = @ - q].owner = book[o].owner
    BY <1>1 DEF Order
  <2> QED
    BY <1>1, <1>2, <1>4, <2>1 DEF Fill, TypeOK, BrokerTypeOK, GivesNone
<1>5. ASSUME NEW o \in OrdId, NEW s \in Symbol, NEW isBuy \in BOOLEAN,
             ManualOrder(o, s, isBuy)
      PROVE  GivesNone
  BY <1>5 DEF ManualOrder, PlaceOrder, TypeOK, BrokerTypeOK, GivesNone, BatchAssumption
<1> QED
  BY <1>3, <1>4, <1>5 DEF BrokerStep

LEMMA CancelGivesNone ==
    ASSUME TypeOK, NEW ords, RequestCancel(ords)
    PROVE  GivesNone
<1>1. \A o \in OrdId : book[o] \in Order
  BY DEF TypeOK, BrokerTypeOK
<1>2. \A ord \in Order : [ord EXCEPT !.asked = TRUE].owner = ord.owner
  BY DEF Order
<1> QED
  BY <1>1, <1>2 DEF RequestCancel, GivesNone

LEMMA LoggedKept ==
    ASSUME Logged, GivesNone, UNCHANGED <<lines, buf>>
    PROVE  Logged'
BY DEF Logged, GivesNone, Submitted

LEMMA CloseKeepsLogged ==
    ASSUME TypeOK, RecordInv, Logged, cur \in Batch, Close(cur), UNCHANGED book
    PROVE  Logged'
<1>1. \A b \in Batch : lines[b] \subseteq lines'[b]
  BY DEF Close, TypeOK, LogTypeOK
<1>2. buf \subseteq lines'[cur]
  BY DEF Close, TypeOK, LogTypeOK
<1>3. ASSUME NEW o \in OrdId, book[o].owner \in Batch
      PROVE  o \in Submitted(book[o].owner)'
  <2>1. CASE o \in Submitted(book[o].owner)
    BY <1>1, <1>3, <2>1 DEF Submitted
  <2>2. CASE <<"submit", o>> \in buf
    <3>1. book[o].owner = cur
      BY <2>2 DEF RecordInv
    <3> QED
      BY <1>2, <2>2, <3>1 DEF Submitted
  <2> QED
    BY <1>3, <2>1, <2>2 DEF Logged
<1> QED
  BY <1>3 DEF Logged

LEMMA ReconcileKeepsLogged ==
    ASSUME NothingLost, TypeOK, Logged, ReconcileOrder
    PROVE  Logged'
<1>1. PICK s \in Symbol :
        \/ LeaveOrder(s)
        \/ CapToNothing(s)
        \/ \E avail \in 0..vol[s] : \E o \in OrdId : SubmitOrder(s, avail, o)
  BY DEF ReconcileOrder, SubmitUnanswered, AppendRaises, CapRaises, SubmitLineRaises, NothingLost
<1>2. UNCHANGED lines
  BY <1>1 DEF LeaveOrder, CapToNothing, SubmitOrder, Visit
<1>3. CASE LeaveOrder(s) \/ CapToNothing(s)
  <2>1. UNCHANGED book /\ buf \subseteq buf'
    BY <1>3 DEF LeaveOrder, CapToNothing, Write, AppendLine
  <2> QED
    BY <1>2, <2>1 DEF Logged, Submitted
<1>4. ASSUME NEW avail \in 0..vol[s], NEW o \in OrdId, SubmitOrder(s, avail, o)
      PROVE  Logged'
  <2>1. buf' = buf \cup (CapLine(s, avail) \cup {<<"submit", o>>})
    BY <1>4 DEF SubmitOrder, Write, AppendLine
  <2>2. \A p \in OrdId \ {o} : book'[p] = book[p]
    BY <1>4 DEF SubmitOrder, Place, PlaceOrder, TypeOK, BrokerTypeOK
  <2> QED
    BY <1>2, <2>1, <2>2 DEF Logged, Submitted
<1> QED
  BY <1>1, <1>3, <1>4

LEMMA NextKeepsLogged ==
    ASSUME NothingLost, TypeOK, RecordInv, Logged, [Next]_vars
    PROVE  Logged'
<1>1. CASE SpillBuffer \/ CloseSession
  <2>1. cur \in Batch /\ Close(cur) /\ UNCHANGED book
    BY <1>1 DEF SpillBuffer, Spill, CloseSession, brokerVars, TypeOK, CycleTypeOK, Handling
  <2> QED
    BY <2>1, CloseKeepsLogged
<1>2. CASE LogCancels
  <2>1. UNCHANGED <<book, buf>> /\ \A b \in Batch : lines[b] \subseteq lines'[b]
    BY <1>2 DEF LogCancels, brokerVars, TypeOK, LogTypeOK, CycleTypeOK
  <2> QED
    BY <2>1 DEF Logged, Submitted
<1>3. CASE BrokerStep
  <2>1. UNCHANGED <<lines, buf>>
    BY <1>3 DEF BrokerStep, logVars
  <2> QED
    BY <1>3, <2>1, BrokerGivesNone, LoggedKept
<1>4. ASSUME NEW b \in Batch, PassOneExpired(b)
      PROVE  Logged'
  <2>1. UNCHANGED <<lines, buf>> /\ (RequestCancel(Ours(b)) \/ UNCHANGED book)
    BY <1>4 DEF PassOneExpired, logVars
  <2>2. GivesNone
    BY <2>1, CancelGivesNone DEF GivesNone
  <2> QED
    BY <2>1, <2>2, LoggedKept
<1>5. CASE \/ PassGuards \/ ReadPositions \/ ReadUnfinished \/ QueryRaises
           \/ StopAfterPassOne \/ NotMatched \/ FinishBatch \/ MoveDocument
           \/ MoveRecord \/ Mirror \/ ChannelStep \/ Tick \/ Restart
           \/ UNCHANGED vars
           \/ \E b \in Batch : PassOneInvalid(b) \/ PassOneKeep(b) \/ StartReconcile(b)
  <2>1. UNCHANGED <<book, lines, buf>>
    BY <1>5 DEF PassGuards, ReadPositions, ReadUnfinished, QueryRaises,
       StopAfterPassOne, NotMatched, FinishBatch, MoveDocument, MoveRecord,
       Mirror, MirrorFile, ChannelStep, Tick, Restart,
       PassOneInvalid, PassOneKeep, StartReconcile, vars, brokerVars, logVars
  <2> QED
    BY <2>1, LoggedKept DEF GivesNone
<1>6. ~DiskRaises /\ ~Crash
  BY DEF NothingLost, DiskRaises, Crash
<1> QED
  BY <1>1, <1>2, <1>3, <1>4, <1>5, <1>6, ReconcileKeepsLogged DEF Next, Worker, PassOne

-----------------------------------------------------------------------------
(* Records and their batches.                                              *)

(* A step that opens a record at most of the pending batch in hand.        *)
LEMMA OpenKeepsBeside ==
    ASSUME TypeOK, Beside, cur \in Batch, at[cur] = "pending", UNCHANGED at,
           OpenRecord(cur) \/ UNCHANGED recAt,
           pc # "move_record", pc' # "move_record"
    PROVE  Beside'
<1>1. \A b \in Batch : recAt'[b] = recAt[b] \/ (b = cur /\ recAt'[b] = "pending")
  BY DEF OpenRecord, TypeOK, LogTypeOK
<1> QED
  BY <1>1 DEF Beside

LEMMA NextKeepsBeside ==
    ASSUME NothingLost, TypeOK, HandlesPending, Beside, [Next]_vars
    PROVE  Beside'
<1>0. /\ at \in [Batch -> LiveDir \cup {"absent", "failed"}]
      /\ recAt \in [Batch -> LiveDir \cup {"none"}]
      /\ pc \in Handling => cur \in Batch
  BY DEF TypeOK, LogTypeOK, CycleTypeOK
<1>1. CASE LogCancels
  <2>1. /\ cur \in Batch /\ at[cur] = "pending" /\ UNCHANGED at
        /\ OpenRecord(cur) \/ UNCHANGED recAt
        /\ pc = "cancel_log" /\ pc' = "move_doc"
    BY <1>0, <1>1 DEF LogCancels, HandlesPending, Handling
  <2> QED
    BY <2>1, OpenKeepsBeside
<1>2. CASE ReconcileOrder
  <2>1. PICK s \in Symbol :
          \/ LeaveOrder(s)
          \/ CapToNothing(s)
          \/ \E avail \in 0..vol[s] : \E o \in OrdId : SubmitOrder(s, avail, o)
    BY <1>2 DEF ReconcileOrder, SubmitUnanswered, AppendRaises, CapRaises, SubmitLineRaises, NothingLost
  <2>2. /\ pc = "reconcile" /\ pc' = "reconcile" /\ UNCHANGED at
        /\ OpenRecord(cur) \/ UNCHANGED recAt
    BY <2>1 DEF LeaveOrder, CapToNothing, SubmitOrder, Visit, Write, AppendLine
  <2>3. cur \in Batch /\ at[cur] = "pending"
    BY <1>0, <2>2 DEF HandlesPending, Handling
  <2> QED
    BY <2>2, <2>3, OpenKeepsBeside
<1>3. CASE MoveDocument
  <2>1. /\ cur \in Batch /\ at' = [at EXCEPT ![cur] = dst] /\ UNCHANGED <<recAt, cur, dst>>
        /\ pc = "move_doc" /\ pc' = "move_record"
    BY <1>0, <1>3 DEF MoveDocument, MoveDoc, localVars, Handling
  <2>2. \A b \in Batch \ {cur} : at'[b] = at[b]
    BY <1>0, <2>1
  <2> QED
    BY <1>0, <2>1, <2>2 DEF Beside
<1>4. CASE MoveRecord
  <2>1. /\ cur \in Batch /\ UNCHANGED at /\ pc = "move_record" /\ pc' # "move_record"
        /\ recAt' = [recAt EXCEPT ![cur] = IF @ = "none" THEN @ ELSE dst]
    BY <1>0, <1>4 DEF MoveRecord, MoveRecordTo, EndCycle, Handling
  <2>2. recAt'[cur] \in {"none", dst} /\ \A b \in Batch \ {cur} : recAt'[b] = recAt[b]
    BY <1>0, <2>1
  <2> QED
    BY <2>1, <2>2 DEF Beside
<1>5. ASSUME NEW b \in Batch, PassOneInvalid(b)
      PROVE  Beside'
  <2>1. /\ at' = [at EXCEPT ![b] = "failed"] \/ UNCHANGED at
        /\ UNCHANGED <<recAt, pc>> /\ pc = "pass_one"
    BY <1>5 DEF PassOneInvalid, MoveDoc
  <2>2. \A c \in Batch : at'[c] = at[c] \/ at'[c] = "failed"
    BY <1>0, <2>1
  <2> QED
    BY <2>1, <2>2 DEF Beside
<1>6. CASE Mirror
  <2>1. PICK b \in Batch : \E d \in Docs[b] : \E passNow \in 1..t : MirrorFile(b, d, passNow)
    BY <1>6 DEF Mirror
  <2>2. /\ at[b] \notin Terminal /\ at' = [at EXCEPT ![b] = "pending"]
        /\ UNCHANGED <<recAt, pc, cur>> /\ pc \in {"idle", "guarded"}
    BY <2>1 DEF MirrorFile, MoveDoc, cycleVars
  <2>3. at[b] \in {"absent", "pending"} /\ \A c \in Batch \ {b} : at'[c] = at[c]
    BY <1>0, <2>2 DEF LiveDir, Terminal
  <2>4. recAt[b] \in {"none", "pending"}
    BY <1>0, <2>2, <2>3 DEF Beside, LiveDir
  <2>5. at'[b] = "pending"
    BY <1>0, <2>2
  <2> QED
    BY <2>2, <2>3, <2>4, <2>5 DEF Beside
<1>7. CASE SpillBuffer \/ CloseSession
  <2>1. UNCHANGED <<at, recAt>> /\ pc = "reconcile" /\ pc' # "move_record"
    BY <1>7 DEF SpillBuffer, CloseSession
  <2> QED
    BY <2>1 DEF Beside
<1>8. CASE BrokerStep \/ ChannelStep \/ Tick \/ UNCHANGED vars
  <2>1. UNCHANGED <<at, recAt, pc, cur, dst>>
    BY <1>8 DEF BrokerStep, ChannelStep, Tick, vars, logVars, cycleVars, localVars
  <2> QED
    BY <2>1 DEF Beside
<1>9. CASE \/ PassGuards \/ ReadPositions \/ ReadUnfinished \/ QueryRaises
           \/ StopAfterPassOne \/ NotMatched \/ FinishBatch \/ Restart
           \/ \E b \in Batch : PassOneExpired(b) \/ PassOneKeep(b) \/ StartReconcile(b)
  <2>1. UNCHANGED <<at, recAt>> /\ pc # "move_record" /\ pc' # "move_record"
    BY <1>9 DEF PassGuards, ReadPositions, ReadUnfinished, QueryRaises,
       StopAfterPassOne, NotMatched, FinishBatch, Restart, EndCycle,
       PassOneExpired, PassOneKeep, StartReconcile, logVars
  <2> QED
    BY <2>1 DEF Beside
<1>10. ~DiskRaises /\ ~Crash
  BY DEF NothingLost, DiskRaises, Crash
<1> QED
  BY <1>1, <1>2, <1>3, <1>4, <1>5, <1>6, <1>7, <1>8, <1>9, <1>10 DEF Next, Worker, PassOne

-----------------------------------------------------------------------------

LEMMA CloseInvHolds ==
    ASSUME NothingLost
    PROVE  Spec => [](TypeOK /\ RecordInv /\ Logged /\ Beside)
<1>1. Init => HandlesPending /\ Logged /\ Beside
  <2> SUFFICES ASSUME Init PROVE HandlesPending /\ Logged /\ Beside
    OBVIOUS
  <2>1. pc = "idle" /\ seen = {}
    BY DEF Init
  <2>2. HandlesPending
    BY <2>1 DEF HandlesPending, Scanning, LockFree
  <2>3. \A o \in OrdId : book[o].owner \notin Batch
    BY DEF Init, BrokerInit, Unused
  <2> QED
    BY <2>1, <2>2, <2>3 DEF Logged, Beside, Init, LogInit
<1>2. HandlesPending /\ Logged /\ Beside /\ TypeOK /\ RecordInv /\ [Next]_vars
        => HandlesPending' /\ Logged' /\ Beside'
  BY NextHandlesPending, NextKeepsLogged, NextKeepsBeside
<1> QED
  BY RecordInvHolds, <1>1, <1>2, PTL DEF Spec

(* If orders are answered, files behave and the process lives, then        *)
(* between cycles a record lies beside its batch, and every live order of  *)
(* the program has its submit line in the record of its batch: also where  *)
(* the link misbehaves, people trade and cancels fail.                     *)
THEOREM RecordStaysBeside ==
    ASSUME NothingLost
    PROVE  Spec => []RecordBesideBatch
<1>1. RecordInv /\ Logged /\ Beside => RecordBesideBatch
  <2> SUFFICES ASSUME RecordInv, Logged, Beside, pc \in LockFree
      PROVE  /\ \A b \in Batch : at[b] # "failed" => recAt[b] \in {"none", at[b]}
             /\ \A o \in OwnLive : o \in Submitted(book[o].owner)
    BY DEF RecordBesideBatch
  <2>1. buf = {} /\ pc # "move_record"
    BY DEF RecordInv, LockFree
  <2> QED
    BY <2>1 DEF Beside, Logged, OwnLive, Live
<1> QED
  BY CloseInvHolds, <1>1, PTL

(* Under the same conditions the close report never calls an order of its  *)
(* own batch foreign.                                                      *)
THEOREM ForeignIsNotOwn ==
    ASSUME NothingLost
    PROVE  Spec => []ForeignIsForeign
<1>1. TypeOK /\ RecordInv /\ Logged => ForeignIsForeign
  <2> SUFFICES ASSUME TypeOK, RecordInv, Logged, Reporting,
                      NEW s \in doc[cur].syms, NEW o \in ForeignOn(s)
               PROVE  book[o].owner # cur
    BY DEF ForeignIsForeign
  <2>1. buf = {} /\ cur \in Batch /\ o \in OrdId /\ o \notin Submitted(cur)
    BY DEF RecordInv, Reporting, ForeignOn, LiveOwn, UnfinishedOn, TypeOK,
       CycleTypeOK, Handling
  <2> QED
    BY <2>1 DEF Logged
<1> QED
  BY CloseInvHolds, <1>1, PTL

-----------------------------------------------------------------------------
(* The reasons.                                                            *)

(* A batch is reported as matched only where the snapshot has its targets. *)
MatchSeen == pc = "move_doc" /\ dst = "finished" =>
    \A s \in doc[cur].syms : vol[s] = Goal(s)

LEMMA NextKeepsMatchSeen ==
    ASSUME TypeOK, HandlesPending, MatchSeen, [Next]_vars
    PROVE  MatchSeen'
<1>1. CASE FinishBatch
  <2>1. UNCHANGED <<vol, doc, cur>>
    BY <1>1 DEF FinishBatch, logVars
  <2>2. \A s \in doc[cur].syms : vol[s] = Goal(s)
    BY <1>1 DEF FinishBatch, Matched
  <2> QED
    BY <2>1, <2>2 DEF MatchSeen, Goal
<1>2. CASE LogCancels
  <2>1. dst' = "expired"
    BY <1>2 DEF LogCancels, localVars, HandlesPending
  <2> QED
    BY <2>1 DEF MatchSeen
<1>3. CASE BrokerStep \/ ChannelStep \/ Tick \/ UNCHANGED vars
  <2>1. UNCHANGED <<doc, pc, cur, dst, vol>>
    BY <1>3 DEF BrokerStep, ChannelStep, Tick, vars, logVars, cycleVars, localVars
  <2> QED
    BY <2>1 DEF MatchSeen, Goal
<1>4. CASE ReconcileOrder
  <2>1. pc' = "reconcile"
    BY <1>4 DEF ReconcileOrder, LeaveOrder, CapToNothing, SubmitOrder,
       SubmitUnanswered, AppendRaises, CapRaises, SubmitLineRaises, Visit
  <2> QED
    BY <2>1 DEF MatchSeen
<1>5. CASE \/ PassGuards \/ ReadPositions \/ ReadUnfinished \/ QueryRaises
           \/ PassOne \/ StopAfterPassOne \/ SpillBuffer \/ CloseSession
           \/ NotMatched \/ MoveDocument \/ MoveRecord \/ DiskRaises
           \/ Mirror \/ Crash \/ Restart \/ \E b \in Batch : StartReconcile(b)
  <2>1. pc' # "move_doc"
    BY <1>5 DEF PassGuards, ReadPositions, ReadUnfinished, QueryRaises, PassOne,
       PassOneInvalid, PassOneExpired, PassOneKeep, StopAfterPassOne, SpillBuffer,
       CloseSession, NotMatched, MoveDocument, MoveRecord, DiskRaises, Mirror,
       MirrorFile, Crash, Restart, StartReconcile, EndCycle, cycleVars
  <2> QED
    BY <2>1 DEF MatchSeen
<1> QED
  BY <1>1, <1>2, <1>3, <1>4, <1>5 DEF Next, Worker

(* If the trade channel behaves, then a row of the report that blames      *)
(* neither the sellable volume nor an order is the last word on its        *)
(* symbol: no order of the program is live on it when the report is sent,  *)
(* though the row is made from a snapshot that is a whole cycle old.       *)
THEOREM ResidualIsFinal ==
    ASSUME LinkBehaves
    PROVE  Spec => []ResidualIsTerminal
<1>1. Init => HandlesPending /\ MatchSeen
  <2> SUFFICES ASSUME Init PROVE HandlesPending /\ MatchSeen
    OBVIOUS
  <2>1. pc = "idle" /\ seen = {}
    BY DEF Init
  <2> QED
    BY <2>1 DEF HandlesPending, Scanning, LockFree, MatchSeen
<1>2. OneOrderInv /\ HandlesPending /\ MatchSeen /\ [Next]_vars
        => HandlesPending' /\ MatchSeen'
  BY NextHandlesPending, NextKeepsMatchSeen DEF OneOrderInv
<1>3. OneOrderInv /\ MatchSeen => ResidualIsTerminal
  <2> SUFFICES ASSUME OneOrderInv, MatchSeen, Reporting, NEW s \in doc[cur].syms,
                      NEW avail \in 0..vol[s], Reason(s, avail) = "residual-mismatch",
                      NEW o \in OwnLive
               PROVE  book[o].sym # s
    BY DEF ResidualIsTerminal
  <2>1. /\ cur \in Batch /\ s \in Symbol /\ dst \in {"finished", "expired"}
        /\ vol[s] \in Nat /\ pc = "move_doc"
    BY DEF OneOrderInv, TypeOK, CycleTypeOK, LogTypeOK, Doc, Handling, Reporting
  <2>2. ~Aligned(s) /\ UnfinishedOn(s) = {}
    BY DEF Reason, ForeignOn, LiveOwn
  <2>3. dst = "expired"
    BY <2>1, <2>2 DEF MatchSeen, Aligned, Diff
  <2> QED
    BY <2>1, <2>2, <2>3 DEF OneOrderInv, BookIsCurrent, Undecided
<1> QED
  BY OneOrderInvHolds, <1>1, <1>2, <1>3, PTL DEF Spec

(* Where the account is undisturbed and edits do not change what a batch   *)
(* trades, a close without a warning leaves no order of the batch live.    *)
THEOREM SilenceIsSettled ==
    ASSUME Undisturbed, SteadyDocs
    PROVE  Spec => []SilentIsSettled
<1>1. SettledInv => SilentIsSettled
  BY DEF SettledInv, NoneLeft, Closing, SilentIsSettled, Warns, Reporting
<1> QED
  BY SettledInvHolds, <1>1, PTL
=============================================================================
