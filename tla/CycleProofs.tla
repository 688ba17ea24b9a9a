---------------------------- MODULE CycleProofs -----------------------------
(***************************************************************************)
(* Theorems about the cycle, for every number of batches, symbols, orders  *)
(* and documents, every clock and grace.                                   *)
(***************************************************************************)
EXTENDS CycleProperties, TLAPS

-----------------------------------------------------------------------------
(* Every state is well typed.                                              *)

USE BatchAssumption, SymbolAssumption, ClockAssumption, GraceAssumption,
    OpeningAssumption, DocsAssumption

LEMMA UnusedType == Unused \in Order
BY DEF Unused, Order

LEMMA EndedType == \A ord \in Order : Ended(ord) \in Order
BY DEF Ended, Order

LEMMA PlaceOrderType ==
    ASSUME BrokerTypeOK,
           NEW o \in OrdId, NEW s \in Symbol, NEW isBuy \in BOOLEAN,
           NEW q \in Nat, NEW b \in Batch \cup {NoBatch}, NEW g \in Nat,
           PlaceOrder(o, s, isBuy, q, b, g)
    PROVE  book' \in [OrdId -> Order]
BY DEF BrokerTypeOK, PlaceOrder, Order

LEMMA RequestCancelType ==
    ASSUME BrokerTypeOK, NEW ords, RequestCancel(ords)
    PROVE  book' \in [OrdId -> Order]
<1>1. \A ord \in Order : [ord EXCEPT !.asked = TRUE] \in Order
  BY DEF Order
<1> QED
  BY <1>1 DEF BrokerTypeOK, RequestCancel

LEMMA FillType ==
    ASSUME BrokerTypeOK, NEW o \in OrdId, NEW q \in 1..book[o].left, Fill(o, q)
    PROVE  BrokerTypeOK'
<1>1. /\ book[o] \in Order /\ book[o].left \in Nat /\ book[o].sym \in Symbol
      /\ q \in Nat /\ q <= book[o].left
  BY DEF BrokerTypeOK, Order
<1>2. [book[o] EXCEPT !.left = book[o].left - q] \in Order
  BY <1>1 DEF Order
<1>3. book' \in [OrdId -> Order]
  BY <1>1, <1>2, EndedType DEF BrokerTypeOK, Fill
<1>4. held' \in [Symbol -> Nat]
  BY <1>1 DEF BrokerTypeOK, Fill
<1> QED
  BY <1>3, <1>4 DEF BrokerTypeOK

LEMMA EndOrderType ==
    ASSUME BrokerTypeOK, NEW o \in OrdId, EndOrder(o)
    PROVE  BrokerTypeOK'
BY EndedType DEF BrokerTypeOK, EndOrder

LEMMA OlderType ==
    ASSUME NEW cap \in Nat, NEW age \in 0..cap
    PROVE  Older(age, cap) \in 0..cap
BY DEF Older

LEMMA InitTypeOK == Init => TypeOK
<1> SUFFICES ASSUME Init PROVE TypeOK
  OBVIOUS
<1>1. BrokerTypeOK
  BY UnusedType DEF Init, BrokerInit, BrokerTypeOK
<1>2. LogTypeOK
  BY DEF Init, LogInit, LogTypeOK, LiveDir
<1>3. ChannelTypeOK
  BY DEF Init, ChannelInit, ChannelTypeOK
<1>4. CycleTypeOK
  BY DEF Init, CycleTypeOK, Time, PC, Handling
<1> QED
  BY <1>1, <1>2, <1>3, <1>4 DEF TypeOK

(* The variables that only the cycle, the log, or the channel changes.     *)
LEMMA EndCycleType ==
    ASSUME CycleTypeOK, EndCycle, UNCHANGED t
    PROVE  CycleTypeOK'
BY DEF CycleTypeOK, EndCycle, ForgetSnapshot, PC, Handling, Time

LEMMA TickType ==
    ASSUME TypeOK, Tick
    PROVE  TypeOK'
<1>1. BrokerTypeOK' /\ LogTypeOK'
  BY DEF TypeOK, Tick, BrokerTypeOK, LogTypeOK, brokerVars, logVars
<1>2. ChannelTypeOK'
  BY OlderType DEF TypeOK, Tick, ChannelTick, ChannelTypeOK
<1>3. CycleTypeOK'
  BY OlderType DEF TypeOK, Tick, CycleTypeOK, Time, localVars
<1> QED
  BY <1>1, <1>2, <1>3 DEF TypeOK

LEMMA ChannelStepType ==
    ASSUME TypeOK, ChannelStep
    PROVE  TypeOK'
<1>1. ChannelTypeOK'
  <2>1. 0 \in 0..Settle /\ 0 \in 0..Grace
    OBVIOUS
  <2>2. CASE LinkDrops
    BY <2>2 DEF TypeOK, ChannelTypeOK, LinkDrops
  <2>3. CASE LinkReturns
    BY <2>1, <2>3 DEF TypeOK, ChannelTypeOK, LinkReturns
  <2>4. CASE OnDisconnected
    BY <2>4 DEF TypeOK, ChannelTypeOK, OnDisconnected
  <2>5. CASE OnConnectedSet
    BY <2>5 DEF TypeOK, ChannelTypeOK, OnConnectedSet
  <2>6. CASE OnConnectedStamp
    BY <2>1, <2>6 DEF TypeOK, ChannelTypeOK, OnConnectedStamp
  <2>7. CASE OnLoggedIn
    BY <2>7 DEF TypeOK, ChannelTypeOK, OnLoggedIn
  <2> QED
    BY <2>2, <2>3, <2>4, <2>5, <2>6, <2>7 DEF ChannelStep
<1> QED
  BY <1>1 DEF TypeOK, ChannelStep, BrokerTypeOK, LogTypeOK, CycleTypeOK,
              brokerVars, logVars, cycleVars

LEMMA BrokerStepType ==
    ASSUME TypeOK, BrokerStep
    PROVE  TypeOK'
<1>1. BrokerTypeOK'
  <2>1. CASE \E o \in OrdId : EndOrder(o)
    BY <2>1, EndOrderType DEF TypeOK
  <2>2. CASE \E o \in OrdId : \E q \in 1..book[o].left : Fill(o, q)
    BY <2>2, FillType DEF TypeOK
  <2>3. ASSUME NEW o \in OrdId, NEW s \in Symbol, NEW isBuy \in BOOLEAN,
               ManualOrder(o, s, isBuy)
        PROVE  BrokerTypeOK'
    <3>1. PlaceOrder(o, s, isBuy, 1, NoBatch, 0) /\ UNCHANGED held
      BY <2>3 DEF ManualOrder
    <3>2. book' \in [OrdId -> Order]
      BY <3>1, PlaceOrderType DEF TypeOK
    <3> QED
      BY <3>1, <3>2 DEF TypeOK, BrokerTypeOK
  <2> QED
    BY <2>1, <2>2, <2>3 DEF BrokerStep
<1> QED
  BY <1>1 DEF TypeOK, BrokerStep, LogTypeOK, ChannelTypeOK, CycleTypeOK,
              logVars, channelVars, cycleVars, localVars

LEMMA MirrorType ==
    ASSUME TypeOK, Mirror
    PROVE  TypeOK'
<1>0. PICK b \in Batch : \E d \in Docs[b] : \E passNow \in 1..t : MirrorFile(b, d, passNow)
  BY DEF Mirror
<1>1. PICK d \in Docs[b] : \E passNow \in 1..t : MirrorFile(b, d, passNow)
  BY <1>0
<1>2. d \in Doc
  OBVIOUS
<1>3. LogTypeOK'
  BY <1>1, <1>2 DEF TypeOK, LogTypeOK, MirrorFile, MoveDoc, LiveDir
<1> QED
  BY <1>1, <1>3 DEF TypeOK, MirrorFile, BrokerTypeOK, ChannelTypeOK, CycleTypeOK,
              brokerVars, channelVars, cycleVars, localVars

(* The worker's steps: what each one assigns is of its type.               *)
LEMMA SnapshotType ==
    ASSUME TypeOK, PassGuards \/ ReadPositions \/ ReadUnfinished \/ QueryRaises
    PROVE  TypeOK'
<1>1. CASE PassGuards
  BY <1>1 DEF TypeOK, PassGuards, BrokerTypeOK, LogTypeOK, ChannelTypeOK,
              CycleTypeOK, PC, Handling, brokerVars, logVars, channelVars, localVars
<1>2. CASE ReadPositions
  <2>1. vol' \in [Symbol -> Nat]
    BY <1>2 DEF ReadPositions, TypeOK, BrokerTypeOK
  <2>2. now' \in 0..MaxTime
    BY <1>2 DEF ReadPositions, TypeOK, CycleTypeOK, Time
  <2> QED
    BY <1>2, <2>1, <2>2 DEF TypeOK, ReadPositions, BrokerTypeOK, LogTypeOK,
        ChannelTypeOK, CycleTypeOK, PC, Handling, brokerVars, logVars, channelVars
<1>3. CASE ReadUnfinished
  BY <1>3 DEF TypeOK, ReadUnfinished, BrokerTypeOK, LogTypeOK, ChannelTypeOK,
      CycleTypeOK, PC, Handling, Live, Pending, brokerVars, logVars, channelVars
<1>4. CASE QueryRaises
  BY <1>4, EndCycleType DEF TypeOK, QueryRaises, BrokerTypeOK, LogTypeOK,
      ChannelTypeOK, brokerVars, logVars, channelVars
<1> QED
  BY <1>1, <1>2, <1>3, <1>4

LEMMA PassOneType ==
    ASSUME TypeOK, PassOne \/ LogCancels
    PROVE  TypeOK'
<1>1. ASSUME NEW b \in Batch, PassOneInvalid(b)
      PROVE  TypeOK'
  BY <1>1 DEF TypeOK, PassOneInvalid, MoveDoc, BrokerTypeOK, LogTypeOK,
      ChannelTypeOK, CycleTypeOK, brokerVars, channelVars
<1>2. ASSUME NEW b \in Batch, PassOneExpired(b)
      PROVE  TypeOK'
  <2>1. book' \in [OrdId -> Order]
    BY <1>2, RequestCancelType DEF PassOneExpired, TypeOK, BrokerTypeOK
  <2> QED
    BY <1>2, <2>1 DEF TypeOK, PassOneExpired, BrokerTypeOK, LogTypeOK,
        ChannelTypeOK, CycleTypeOK, PC, Handling, logVars, channelVars
<1>3. ASSUME NEW b \in Batch, PassOneKeep(b)
      PROVE  TypeOK'
  BY <1>3 DEF TypeOK, PassOneKeep, BrokerTypeOK, LogTypeOK,
      ChannelTypeOK, CycleTypeOK, brokerVars, logVars, channelVars
<1>4. CASE LogCancels
  <2>1. {"cancel"} \X Ours(cur) \subseteq Line
    BY DEF Line, Ours, TypeOK, CycleTypeOK
  <2>2. lines' \in [Batch -> SUBSET Line]
    BY <1>4, <2>1 DEF LogCancels, TypeOK, LogTypeOK
  <2>3. recAt' \in [Batch -> LiveDir \cup {"none"}]
    BY <1>4 DEF LogCancels, OpenRecord, TypeOK, LogTypeOK, LiveDir
  <2> QED
    BY <1>4, <2>2, <2>3 DEF TypeOK, LogCancels, BrokerTypeOK, LogTypeOK,
        ChannelTypeOK, CycleTypeOK, PC, Handling, brokerVars, channelVars, localVars
<1> QED
  BY <1>1, <1>2, <1>3, <1>4 DEF PassOne

LEMMA DecideType ==
    ASSUME TypeOK, StopAfterPassOne \/ \E b \in Batch : StartReconcile(b)
    PROVE  TypeOK'
<1>1. CASE StopAfterPassOne
  BY <1>1, EndCycleType DEF TypeOK, StopAfterPassOne, BrokerTypeOK, LogTypeOK,
      ChannelTypeOK, brokerVars, logVars, channelVars
<1>2. ASSUME NEW b \in Batch, StartReconcile(b)
      PROVE  TypeOK'
  <2>1. doc[b].syms \subseteq Symbol
    BY DEF TypeOK, LogTypeOK, Doc
  <2> QED
    BY <1>2, <2>1 DEF TypeOK, StartReconcile, BrokerTypeOK, LogTypeOK,
        ChannelTypeOK, CycleTypeOK, PC, Handling, brokerVars, logVars, channelVars
<1> QED
  BY <1>1, <1>2

(* What a visit of s writes and places is well typed.                      *)
LEMMA WriteType ==
    ASSUME TypeOK, NEW new \in SUBSET Line, Write(new)
    PROVE  recAt' \in [Batch -> LiveDir \cup {"none"}] /\ buf' \subseteq Line
BY DEF TypeOK, LogTypeOK, Write, AppendLine, OpenRecord, LiveDir

LEMMA QuantityType ==
    ASSUME TypeOK, cur \in Batch, NEW s \in Symbol, NEW avail \in 0..vol[s]
    PROVE  /\ Goal(s) \in Nat /\ vol[s] \in Nat /\ avail \in Nat
           /\ Diff(s) \in Int /\ Quantity(s, avail) \in Nat
<1>1. Goal(s) \in Nat /\ vol[s] \in Nat
  BY DEF TypeOK, LogTypeOK, CycleTypeOK, Doc, Goal
<1>2. avail \in Nat
  BY <1>1
<1>3. Diff(s) \in Int
  BY <1>1 DEF Diff
<1> QED
  BY <1>1, <1>2, <1>3 DEF Quantity, Capped

LEMMA PlaceType ==
    ASSUME TypeOK, cur \in Batch, NEW s \in Symbol, NEW avail \in 0..vol[s],
           NEW o \in OrdId, Place(s, avail, o)
    PROVE  book' \in [OrdId -> Order]
<1>1. PlaceOrder(o, s, Diff(s) > 0, Quantity(s, avail), cur, Goal(s))
  BY DEF Place
<1>2. Goal(s) \in Nat /\ Quantity(s, avail) \in Nat /\ (Diff(s) > 0) \in BOOLEAN
  BY QuantityType
<1> QED
  BY <1>1, <1>2, PlaceOrderType DEF TypeOK

LEMMA VisitType ==
    ASSUME TypeOK, NEW s \in Symbol, Visit(s),
           book' \in [OrdId -> Order],
           recAt' \in [Batch -> LiveDir \cup {"none"}], buf' \subseteq Line,
           index' \in [OrdId -> Batch \cup {NoBatch}]
    PROVE  TypeOK'
BY DEF TypeOK, Visit, BrokerTypeOK, LogTypeOK, ChannelTypeOK, CycleTypeOK,
    channelVars

LEMMA ReconcileOrderType ==
    ASSUME TypeOK, ReconcileOrder
    PROVE  TypeOK'
<1>1. PICK s \in Symbol :
        \/ LeaveOrder(s)
        \/ CapToNothing(s)
        \/ \E avail \in 0..vol[s] :
            \/ \E o \in OrdId : SubmitOrder(s, avail, o)
            \/ SubmitUnanswered(s, avail)
            \/ AppendRaises(s, avail)
  BY DEF ReconcileOrder
<1>2. /\ book \in [OrdId -> Order] /\ index \in [OrdId -> Batch \cup {NoBatch}]
      /\ recAt \in [Batch -> LiveDir \cup {"none"}] /\ buf \subseteq Line
  BY DEF TypeOK, BrokerTypeOK, LogTypeOK
<1>3. \A avail : CapLine(s, avail) \in SUBSET Line
  BY DEF CapLine, Line
<1>4. CASE LeaveOrder(s)
  BY <1>2, <1>4, VisitType DEF LeaveOrder
<1>5. CASE CapToNothing(s)
  BY <1>2, <1>3, <1>5, WriteType, VisitType DEF CapToNothing
<1>6. ASSUME NEW avail \in 0..vol[s], NEW o \in OrdId, SubmitOrder(s, avail, o)
      PROVE  TypeOK'
  <2>1. cur \in Batch /\ Visit(s) /\ Place(s, avail, o)
    BY <1>6 DEF SubmitOrder, Visit, TypeOK, CycleTypeOK, Handling
  <2>2. book' \in [OrdId -> Order]
    BY <2>1, PlaceType
  <2>3. CapLine(s, avail) \cup {<<"submit", o>>} \in SUBSET Line
    BY <1>3 DEF Line
  <2>4. recAt' \in [Batch -> LiveDir \cup {"none"}] /\ buf' \subseteq Line
    BY <1>6, <2>3, WriteType DEF SubmitOrder
  <2>5. index' \in [OrdId -> Batch \cup {NoBatch}]
    BY <1>2, <1>6, <2>1 DEF SubmitOrder
  <2> QED
    BY <2>1, <2>2, <2>4, <2>5, VisitType
<1>7. ASSUME NEW avail \in 0..vol[s], SubmitUnanswered(s, avail)
      PROVE  TypeOK'
  <2>1. cur \in Batch /\ Visit(s)
    BY <1>7 DEF SubmitUnanswered, Visit, TypeOK, CycleTypeOK,
                Handling
  <2>2. book' \in [OrdId -> Order]
    BY <1>2, <1>7, <2>1, PlaceType DEF SubmitUnanswered
  <2>3. recAt' \in [Batch -> LiveDir \cup {"none"}] /\ buf' \subseteq Line
    BY <1>3, <1>7, WriteType DEF SubmitUnanswered
  <2> QED
    BY <1>2, <1>7, <2>1, <2>2, <2>3, VisitType DEF SubmitUnanswered
<1>8. ASSUME NEW avail \in 0..vol[s], AppendRaises(s, avail)
      PROVE  TypeOK'
  <2>1. cur \in Batch /\ Visit(s)
    BY <1>8 DEF AppendRaises, Visit, TypeOK, CycleTypeOK, Handling
  <2>2. CASE CapRaises(s, avail)
    BY <1>2, <2>1, <2>2, VisitType DEF CapRaises
  <2>3. CASE SubmitLineRaises(s, avail)
    <3>1. PICK o \in OrdId : Place(s, avail, o) /\ index' = [index EXCEPT ![o] = cur]
      BY <2>3 DEF SubmitLineRaises
    <3>2. book' \in [OrdId -> Order]
      BY <2>1, <3>1, PlaceType
    <3>3. index' \in [OrdId -> Batch \cup {NoBatch}]
      BY <1>2, <2>1, <3>1
    <3>4. recAt' \in [Batch -> LiveDir \cup {"none"}] /\ buf' \subseteq Line
      BY <1>3, <2>3, WriteType DEF SubmitLineRaises
    <3> QED
      BY <1>2, <2>1, <3>2, <3>3, <3>4, VisitType
  <2> QED
    BY <1>8, <2>2, <2>3 DEF AppendRaises
<1> QED
  BY <1>1, <1>4, <1>5, <1>6, <1>7, <1>8

LEMMA CloseType ==
    ASSUME TypeOK, SpillBuffer \/ CloseSession \/ NotMatched \/ FinishBatch
    PROVE  TypeOK'
<1>1. ASSUME Close(cur), cur \in Batch
      PROVE  lines' \in [Batch -> SUBSET Line] /\ buf' \subseteq Line
  BY <1>1 DEF TypeOK, LogTypeOK, Close
<1>2. CASE SpillBuffer
  <2>1. lines' \in [Batch -> SUBSET Line] /\ buf' \subseteq Line
    BY <1>1, <1>2 DEF SpillBuffer, Spill, TypeOK, CycleTypeOK, Handling
  <2> QED
    BY <1>2, <2>1 DEF TypeOK, SpillBuffer, BrokerTypeOK, LogTypeOK,
        ChannelTypeOK, CycleTypeOK, brokerVars, channelVars, localVars
<1>3. CASE CloseSession
  <2>1. lines' \in [Batch -> SUBSET Line] /\ buf' \subseteq Line
    BY <1>1, <1>3 DEF CloseSession, TypeOK, CycleTypeOK, Handling
  <2> QED
    BY <1>3, <2>1 DEF TypeOK, CloseSession, BrokerTypeOK, LogTypeOK, PC, Handling,
        ChannelTypeOK, CycleTypeOK, brokerVars, channelVars, localVars
<1>4. CASE NotMatched
  BY <1>4, EndCycleType DEF TypeOK, NotMatched, BrokerTypeOK, LogTypeOK,
      ChannelTypeOK, brokerVars, logVars, channelVars
<1>5. CASE FinishBatch
  BY <1>5 DEF TypeOK, FinishBatch, BrokerTypeOK, LogTypeOK, ChannelTypeOK,
      CycleTypeOK, PC, Handling, brokerVars, logVars, channelVars
<1> QED
  BY <1>2, <1>3, <1>4, <1>5

LEMMA MoveType ==
    ASSUME TypeOK, MoveDocument \/ MoveRecord \/ DiskRaises
    PROVE  TypeOK'
<1>1. CASE MoveDocument
  BY <1>1 DEF TypeOK, MoveDocument, MoveDoc, BrokerTypeOK, LogTypeOK, LiveDir,
      ChannelTypeOK, CycleTypeOK, PC, Handling, brokerVars, channelVars, localVars
<1>2. CASE MoveRecord
  <2>1. LogTypeOK'
    BY <1>2 DEF MoveRecord, MoveRecordTo, TypeOK, LogTypeOK, CycleTypeOK, LiveDir
  <2>2. CycleTypeOK'
    BY <1>2, EndCycleType DEF MoveRecord, TypeOK, CycleTypeOK, PC, Handling
  <2> QED
    BY <1>2, <2>1, <2>2 DEF MoveRecord, TypeOK, BrokerTypeOK, ChannelTypeOK,
        brokerVars, channelVars
<1>3. CASE DiskRaises
  <2>1. LogTypeOK' /\ CycleTypeOK'
    BY <1>3, EndCycleType DEF DiskRaises, TypeOK, LogTypeOK
  <2> QED
    BY <1>3, <2>1 DEF DiskRaises, TypeOK, BrokerTypeOK, ChannelTypeOK,
        brokerVars, channelVars
<1> QED
  BY <1>1, <1>2, <1>3

LEMMA CrashType ==
    ASSUME TypeOK, Crash \/ Restart
    PROVE  TypeOK'
<1>1. CASE Crash
  <2>1. CycleTypeOK'
    BY <1>1 DEF Crash, ForgetSnapshot, TypeOK, CycleTypeOK, PC, Handling, Time
  <2>2. LogTypeOK'
    BY <1>1 DEF Crash, TypeOK, LogTypeOK
  <2> QED
    BY <1>1, <2>1, <2>2 DEF Crash, TypeOK, BrokerTypeOK, ChannelTypeOK,
        brokerVars, channelVars
<1>2. CASE Restart
  <2>1. \A found : \A o \in OrdId : Rebuilt(found, o) \in Batch \cup {NoBatch}
    BY DEF Rebuilt
  <2>2. LogTypeOK'
    BY <1>2, <2>1 DEF Restart, RebuildIndex, TypeOK, LogTypeOK
  <2>3. ChannelTypeOK'
    BY <1>2 DEF Restart, ChannelRestart, TypeOK, ChannelTypeOK
  <2> QED
    BY <1>2, <2>2, <2>3 DEF Restart, TypeOK, BrokerTypeOK, CycleTypeOK, PC,
        Handling, brokerVars, localVars
<1> QED
  BY <1>1, <1>2

LEMMA NextTypeOK == TypeOK /\ [Next]_vars => TypeOK'
<1> SUFFICES ASSUME TypeOK, [Next]_vars PROVE TypeOK'
  OBVIOUS
<1>1. CASE Worker
  BY <1>1, SnapshotType, PassOneType, DecideType, ReconcileOrderType, CloseType,
     MoveType DEF Worker
<1>2. CASE UNCHANGED vars
  BY <1>2 DEF vars, brokerVars, logVars, channelVars, cycleVars, TypeOK,
      BrokerTypeOK, LogTypeOK, ChannelTypeOK, CycleTypeOK
<1> QED
  BY <1>1, <1>2, MirrorType, BrokerStepType, ChannelStepType, TickType, CrashType
     DEF Next

(* Whatever goes wrong around it, no step of the system leaves the types:  *)
(* in particular no holding and no remaining quantity ever goes below      *)
(* zero, and the worker has a batch in hand where it handles one.          *)
THEOREM TypeCorrect == Spec => []TypeOK
BY InitTypeOK, NextTypeOK, PTL DEF Spec

-----------------------------------------------------------------------------
(* At most one own order per symbol. The proof needs only that the link    *)
(* and its callbacks behave; people may trade, orders may fill between the *)
(* two queries, files may fail and the process may die.                    *)

LinkBehaves == Faults \cap {"gap", "late"} = {}

(* The guards of run_cycle are worth something: the flag and the grace     *)
(* together mean that queries answer in full, and go on doing so while the *)
(* snapshot is taken.                                                      *)
GuardsWork ==
    /\ link /\ told = "up" => linkAge = Settle \/ linkAge >= upAge
    /\ told = "down" => ~up
    /\ pc \in {"guarded", "unfinished"} => Answers

LEMMA InitGuardsWork == Init => GuardsWork
BY DEF Init, ChannelInit, GuardsWork

LEMMA GuardsWorkStep ==
    ASSUME LinkBehaves, TypeOK, GuardsWork, [Next]_vars
    PROVE  GuardsWork'
<1> USE DEF GuardsWork, Answers
<1>1. /\ linkAge \in Nat /\ linkAge <= Settle /\ upAge \in Nat /\ upAge <= Grace
      /\ link \in BOOLEAN /\ up \in BOOLEAN /\ told \in {"up", "set", "down"}
  BY DEF TypeOK, ChannelTypeOK
<1>2. CASE UNCHANGED channelVars /\ (pc' \in {"guarded", "unfinished"} => pc \in {"guarded", "unfinished"})
  BY <1>2 DEF channelVars
<1>3. CASE PassGuards
  <2>1. Announced /\ up /\ upAge = Grace /\ UNCHANGED channelVars
    BY <1>3 DEF PassGuards, Late, LinkBehaves
  <2>2. link /\ told = "up"
    BY <2>1 DEF Announced
  <2>3. linkAge = Settle
    BY <1>1, <2>1, <2>2
  <2> QED
    BY <2>1, <2>2, <2>3 DEF channelVars
<1>4. CASE Worker /\ ~PassGuards
  BY <1>2, <1>4 DEF Worker, PassGuards, ReadPositions, ReadUnfinished, QueryRaises,
      PassOne, PassOneInvalid, PassOneExpired, PassOneKeep, LogCancels,
      StopAfterPassOne, StartReconcile, ReconcileOrder, LeaveOrder, CapToNothing,
      SubmitOrder, SubmitUnanswered, AppendRaises, CapRaises, SubmitLineRaises, Visit, SpillBuffer,
      CloseSession, NotMatched, FinishBatch, MoveDocument, MoveRecord, DiskRaises,
      EndCycle
<1>5. CASE Mirror
  BY <1>2, <1>5 DEF Mirror, MirrorFile, cycleVars
<1>6. CASE BrokerStep
  BY <1>2, <1>6 DEF BrokerStep, cycleVars
<1>7. CASE ChannelStep
  <2>1. UNCHANGED pc
    BY <1>7 DEF ChannelStep, cycleVars
  <2>2. CASE LinkDrops /\ pc \notin {"guarded", "unfinished"}
    BY <2>1, <2>2 DEF LinkDrops
  <2>3. CASE LinkReturns
    BY <2>1, <2>3 DEF LinkReturns
  <2>4. CASE OnDisconnected
    BY <2>1, <2>4 DEF OnDisconnected
  <2>5. CASE OnConnectedSet
    BY <2>1, <2>5 DEF OnConnectedSet
  <2>6. CASE OnConnectedStamp
    BY <1>1, <2>1, <2>6 DEF OnConnectedStamp
  <2>7. CASE OnLoggedIn
    BY <2>1, <2>7 DEF OnLoggedIn, LinkBehaves
  <2> QED
    BY <1>7, <2>2, <2>3, <2>4, <2>5, <2>6, <2>7 DEF ChannelStep, LinkBehaves
<1>8. CASE Tick
  BY <1>1, <1>8 DEF Tick, ChannelTick, Older
<1>9. CASE Crash
  BY <1>2, <1>9 DEF Crash
<1>10. CASE Restart
  BY <1>10 DEF Restart, ChannelRestart, LinkBehaves
<1>11. CASE UNCHANGED vars
  BY <1>2, <1>11 DEF vars, cycleVars
<1> QED
  BY <1>3, <1>4, <1>5, <1>6, <1>7, <1>8, <1>9, <1>10, <1>11 DEF Next

(* The inductive invariant: besides what it is for, the guards, and the    *)
(* fact that the snapshot names orders that exist.                         *)
SnapshotExists == \A o \in unf : book[o].st # "unused"

OneOrderInv ==
    TypeOK /\ GuardsWork /\ SnapshotExists /\ BookIsCurrent /\ OneOrderPerSymbol

(* A step that opens no own order, and changes no existing order's symbol. *)
OpensNothing ==
    \A o \in OrdId :
        /\ o \in OwnLive' => o \in OwnLive
        /\ book[o].st # "unused" =>
              book'[o].st # "unused" /\ book'[o].sym = book[o].sym

(* A step that leaves the snapshot alone and reopens no decision.          *)
ReopensNothing == UNCHANGED unf /\ \A s \in Symbol : Undecided(s)' => Undecided(s)

(* A step after which nothing is undecided and no snapshot is kept.        *)
NothingUndecided == unf' = {} /\ \A s \in Symbol : ~Undecided(s)'

LEMMA EndCycleDecides == EndCycle \/ Crash => NothingUndecided
BY DEF EndCycle, Crash, ForgetSnapshot, NothingUndecided, Undecided

LEMMA BookUnchanged == UNCHANGED book => OpensNothing
BY DEF OpensNothing, OwnLive, Live

(* Fills, ends and cancel requests only take live orders away.             *)
LEMMA BrokerOpensNothing ==
    ASSUME TypeOK, BrokerStep
    PROVE  OpensNothing
<1>1. book \in [OrdId -> Order]
  BY DEF TypeOK, BrokerTypeOK
<1>2. ASSUME NEW o \in OrdId, EndOrder(o)
      PROVE  OpensNothing
  BY <1>1, <1>2 DEF EndOrder, Ended, Order, OpensNothing, OwnLive, Live
<1>3. ASSUME NEW o \in OrdId, NEW q \in 1..book[o].left, Fill(o, q)
      PROVE  OpensNothing
  BY <1>1, <1>3 DEF Fill, Ended, Order, OpensNothing, OwnLive, Live
<1>4. ASSUME NEW o \in OrdId, NEW s \in Symbol, NEW isBuy \in BOOLEAN,
             ManualOrder(o, s, isBuy)
      PROVE  OpensNothing
  BY <1>1, <1>4 DEF ManualOrder, PlaceOrder, Order, OpensNothing, OwnLive, Live
<1> QED
  BY <1>2, <1>3, <1>4 DEF BrokerStep

LEMMA CancelOpensNothing ==
    ASSUME TypeOK, NEW ords, RequestCancel(ords)
    PROVE  OpensNothing
<1>1. \A o \in OrdId : book[o] \in Order
  BY DEF TypeOK, BrokerTypeOK
<1>2. \A ord \in Order : LET new == [ord EXCEPT !.asked = TRUE] IN
        new.st = ord.st /\ new.owner = ord.owner /\ new.sym = ord.sym
  BY DEF Order
<1>3. \A o \in OrdId : /\ book'[o].st = book[o].st
                       /\ book'[o].owner = book[o].owner
                       /\ book'[o].sym = book[o].sym
  BY <1>1, <1>2 DEF RequestCancel
<1> QED
  BY <1>3 DEF OpensNothing, OwnLive, Live

(* Such steps keep the invariant.                                          *)
LEMMA OpensNothingKeeps ==
    ASSUME TypeOK, SnapshotExists, BookIsCurrent, OneOrderPerSymbol,
           OpensNothing, ReopensNothing \/ NothingUndecided
    PROVE  SnapshotExists' /\ BookIsCurrent' /\ OneOrderPerSymbol'
<1>1. unf \subseteq OrdId
  BY DEF TypeOK, CycleTypeOK
<1>2. OneOrderPerSymbol'
  BY DEF OneOrderPerSymbol, OpensNothing, OwnLive, Live
<1>3. CASE ReopensNothing
  <2>1. SnapshotExists'
    BY <1>1, <1>3 DEF SnapshotExists, OpensNothing, ReopensNothing
  <2>2. BookIsCurrent'
    <3> SUFFICES ASSUME NEW s \in Symbol, Undecided(s)', UnfinishedOn(s)' = {},
                        NEW o \in OwnLive', book'[o].sym = s
                 PROVE  FALSE
      BY DEF BookIsCurrent
    <3>1. Undecided(s) /\ o \in OwnLive /\ book[o].sym = s
      BY <1>3 DEF ReopensNothing, OpensNothing, OwnLive, Live
    <3>2. UnfinishedOn(s) = {}
      BY <1>1, <1>3 DEF UnfinishedOn, ReopensNothing, OpensNothing, SnapshotExists
    <3> QED
      BY <3>1, <3>2 DEF BookIsCurrent
  <2> QED
    BY <1>2, <2>1, <2>2
<1>4. CASE NothingUndecided
  BY <1>2, <1>4 DEF NothingUndecided, SnapshotExists, BookIsCurrent
<1> QED
  BY <1>3, <1>4

(* An order is opened only where the snapshot is known to be current.      *)
LEMMA PlaceKeepsBook ==
    ASSUME TypeOK, SnapshotExists, BookIsCurrent, OneOrderPerSymbol,
           NEW s \in Symbol, Visit(s), NEW avail, NEW o \in OrdId,
           Place(s, avail, o)
    PROVE  SnapshotExists' /\ BookIsCurrent' /\ OneOrderPerSymbol'
<1>1. /\ book \in [OrdId -> Order] /\ unf \subseteq OrdId
      /\ s \in todo /\ pc = "reconcile" /\ UNCHANGED <<pc, dst, unf>>
      /\ todo' = todo \ {s}
  BY DEF TypeOK, BrokerTypeOK, CycleTypeOK, Visit
<1>2. /\ book[o].st = "unused" /\ UnfinishedOn(s) = {}
      /\ book'[o].st = "live" /\ book'[o].sym = s
      /\ \A p \in OrdId \ {o} : book'[p] = book[p]
  BY <1>1 DEF Place, Differs, PlaceOrder
<1>3. \A p \in OwnLive' : p = o \/ (p \in OwnLive /\ p # o /\ book'[p] = book[p])
  BY <1>2 DEF OwnLive, Live
<1>4. \A p \in OwnLive : book[p].sym # s
  BY <1>1, <1>2 DEF BookIsCurrent, Undecided
<1>5. \A p \in unf : book'[p] = book[p] \/ p = o
  BY <1>1, <1>2
<1>6. SnapshotExists'
  BY <1>1, <1>2, <1>5 DEF SnapshotExists
<1>7. OneOrderPerSymbol'
  <2> SUFFICES ASSUME NEW p \in OwnLive', NEW r \in OwnLive',
                      book'[p].sym = book'[r].sym
               PROVE  p = r
    BY DEF OneOrderPerSymbol
  <2>1. CASE p = o \/ r = o
    BY <1>2, <1>3, <1>4, <2>1
  <2>2. CASE p # o /\ r # o
    BY <1>3, <2>2 DEF OneOrderPerSymbol
  <2> QED
    BY <2>1, <2>2
<1>8. BookIsCurrent'
  <2> SUFFICES ASSUME NEW x \in Symbol, Undecided(x)', UnfinishedOn(x)' = {},
                      NEW p \in OwnLive', book'[p].sym = x
               PROVE  FALSE
    BY DEF BookIsCurrent
  <2>1. x \in todo /\ x # s /\ Undecided(x)
    BY <1>1 DEF Undecided
  <2>2. p # o /\ p \in OwnLive /\ book[p].sym = x
    BY <1>2, <1>3, <2>1
  <2>3. UnfinishedOn(x) = {}
    BY <1>1, <1>2, <1>5 DEF UnfinishedOn, SnapshotExists
  <2> QED
    BY <2>1, <2>2, <2>3 DEF BookIsCurrent
<1> QED
  BY <1>6, <1>7, <1>8

LEMMA ReconcileKeepsBook ==
    ASSUME TypeOK, SnapshotExists, BookIsCurrent, OneOrderPerSymbol, ReconcileOrder
    PROVE  SnapshotExists' /\ BookIsCurrent' /\ OneOrderPerSymbol'
<1>1. ASSUME NEW s \in Symbol, Visit(s), UNCHANGED book
      PROVE  SnapshotExists' /\ BookIsCurrent' /\ OneOrderPerSymbol'
  <2>1. ReopensNothing
    BY <1>1 DEF Visit, ReopensNothing, Undecided
  <2> QED
    BY <1>1, <2>1, BookUnchanged, OpensNothingKeeps
<1>2. PICK s \in Symbol :
        \/ LeaveOrder(s)
        \/ CapToNothing(s)
        \/ \E avail \in 0..vol[s] :
            \/ \E o \in OrdId : SubmitOrder(s, avail, o)
            \/ SubmitUnanswered(s, avail)
            \/ AppendRaises(s, avail)
  BY DEF ReconcileOrder
<1>3. CASE LeaveOrder(s) \/ CapToNothing(s)
  BY <1>1, <1>3 DEF LeaveOrder, CapToNothing
<1>4. ASSUME NEW avail \in 0..vol[s],
             \/ \E o \in OrdId : SubmitOrder(s, avail, o)
             \/ SubmitUnanswered(s, avail)
             \/ AppendRaises(s, avail)
      PROVE  SnapshotExists' /\ BookIsCurrent' /\ OneOrderPerSymbol'
  <2>1. Visit(s)
    BY <1>4 DEF SubmitOrder, SubmitUnanswered, AppendRaises, CapRaises, SubmitLineRaises
  <2>2. UNCHANGED book \/ \E o \in OrdId : Place(s, avail, o)
    BY <1>4 DEF SubmitOrder, SubmitUnanswered, AppendRaises, CapRaises, SubmitLineRaises
  <2> QED
    BY <1>1, <2>1, <2>2, PlaceKeepsBook
<1> QED
  BY <1>2, <1>3, <1>4

LEMMA ReadUnfinishedKeepsBook ==
    ASSUME TypeOK, GuardsWork, OneOrderPerSymbol, ReadUnfinished
    PROVE  SnapshotExists' /\ BookIsCurrent' /\ OneOrderPerSymbol'
<1>1. UNCHANGED book /\ unf' = Live
  BY DEF ReadUnfinished, GuardsWork, brokerVars
<1>2. SnapshotExists'
  BY <1>1 DEF SnapshotExists, Live
<1>3. BookIsCurrent'
  BY <1>1 DEF BookIsCurrent, UnfinishedOn, OwnLive, Live
<1>4. OneOrderPerSymbol'
  BY <1>1 DEF OneOrderPerSymbol, OwnLive, Live
<1> QED
  BY <1>2, <1>3, <1>4

(* Every other step of the worker opens nothing and reopens nothing.       *)
LEMMA WorkerKeepsBook ==
    ASSUME TypeOK, GuardsWork, SnapshotExists, BookIsCurrent, OneOrderPerSymbol,
           Worker
    PROVE  SnapshotExists' /\ BookIsCurrent' /\ OneOrderPerSymbol'
<1> USE DEF ReopensNothing, Undecided, brokerVars
<1>1. CASE PassGuards
  <2>1. UNCHANGED book /\ ReopensNothing
    BY <1>1 DEF PassGuards, localVars
  <2> QED
    BY <2>1, BookUnchanged, OpensNothingKeeps
<1>2. CASE ReadPositions
  <2>1. UNCHANGED book /\ ReopensNothing
    BY <1>2 DEF ReadPositions
  <2> QED
    BY <2>1, BookUnchanged, OpensNothingKeeps
<1>3. CASE ReadUnfinished
  BY <1>3, ReadUnfinishedKeepsBook
<1>4. CASE QueryRaises \/ StopAfterPassOne \/ NotMatched \/ DiskRaises
  <2>1. UNCHANGED book /\ NothingUndecided
    BY <1>4, EndCycleDecides DEF QueryRaises, StopAfterPassOne, NotMatched, DiskRaises
  <2> QED
    BY <2>1, BookUnchanged, OpensNothingKeeps
<1>5. ASSUME NEW b \in Batch, PassOneInvalid(b) \/ PassOneKeep(b) \/ StartReconcile(b)
      PROVE  SnapshotExists' /\ BookIsCurrent' /\ OneOrderPerSymbol'
  <2>1. UNCHANGED book /\ ReopensNothing
    BY <1>5 DEF PassOneInvalid, PassOneKeep, StartReconcile
  <2> QED
    BY <2>1, BookUnchanged, OpensNothingKeeps
<1>6. ASSUME NEW b \in Batch, PassOneExpired(b)
      PROVE  SnapshotExists' /\ BookIsCurrent' /\ OneOrderPerSymbol'
  <2>1. ReopensNothing
    BY <1>6 DEF PassOneExpired
  <2>2. OpensNothing
    BY <1>6, CancelOpensNothing, BookUnchanged DEF PassOneExpired
  <2> QED
    BY <2>1, <2>2, OpensNothingKeeps
<1>7. CASE LogCancels \/ SpillBuffer \/ CloseSession \/ MoveDocument
  <2>1. UNCHANGED book /\ ReopensNothing
    BY <1>7 DEF LogCancels, SpillBuffer, CloseSession, MoveDocument, localVars
  <2> QED
    BY <2>1, BookUnchanged, OpensNothingKeeps
<1>8. CASE FinishBatch
  <2>1. UNCHANGED book /\ ReopensNothing
    BY <1>8 DEF FinishBatch
  <2> QED
    BY <2>1, BookUnchanged, OpensNothingKeeps
<1>9. CASE MoveRecord
  <2>1. UNCHANGED book /\ (ReopensNothing \/ NothingUndecided)
    BY <1>9, EndCycleDecides DEF MoveRecord
  <2> QED
    BY <2>1, BookUnchanged, OpensNothingKeeps
<1>10. CASE ReconcileOrder
  BY <1>10, ReconcileKeepsBook
<1> QED
  BY <1>1, <1>2, <1>3, <1>4, <1>5, <1>6, <1>7, <1>8, <1>9, <1>10 DEF Worker, PassOne

LEMMA NextKeepsBook ==
    ASSUME TypeOK, GuardsWork, SnapshotExists, BookIsCurrent, OneOrderPerSymbol,
           [Next]_vars
    PROVE  SnapshotExists' /\ BookIsCurrent' /\ OneOrderPerSymbol'
<1> USE DEF ReopensNothing, Undecided
<1>1. CASE Mirror \/ ChannelStep \/ Tick \/ Restart \/ UNCHANGED vars
  <2>1. UNCHANGED book /\ ReopensNothing
    BY <1>1 DEF Mirror, MirrorFile, ChannelStep, Tick, Restart, vars, brokerVars,
        cycleVars, localVars
  <2> QED
    BY <2>1, BookUnchanged, OpensNothingKeeps
<1>2. CASE BrokerStep
  <2>1. ReopensNothing
    BY <1>2 DEF BrokerStep, cycleVars
  <2> QED
    BY <1>2, <2>1, BrokerOpensNothing, OpensNothingKeeps
<1>3. CASE Crash
  BY <1>3, EndCycleDecides, BookUnchanged, OpensNothingKeeps DEF Crash, brokerVars
<1> QED
  BY <1>1, <1>2, <1>3, WorkerKeepsBook DEF Next

LEMMA InitOneOrder == Init => OneOrderInv
<1> SUFFICES ASSUME Init PROVE OneOrderInv
  OBVIOUS
<1>1. OwnLive = {} /\ unf = {}
  BY DEF Init, BrokerInit, Unused, OwnLive, Live
<1> QED
  BY <1>1, InitTypeOK, InitGuardsWork
     DEF OneOrderInv, SnapshotExists, BookIsCurrent, OneOrderPerSymbol

LEMMA OneOrderInvHolds ==
    ASSUME LinkBehaves
    PROVE  Spec => []OneOrderInv
<1>1. OneOrderInv /\ [Next]_vars => OneOrderInv'
  BY NextTypeOK, GuardsWorkStep, NextKeepsBook DEF OneOrderInv
<1> QED
  BY InitOneOrder, <1>1, PTL DEF Spec

(* If the trade channel behaves, then whatever the broker answers, files   *)
(* do and people trade, the cycle never has two own orders live on one     *)
(* symbol, orders it has lost track of included.                           *)
THEOREM OneOrderAtATime ==
    ASSUME LinkBehaves
    PROVE  Spec => []OneOrderPerSymbol
<1>1. OneOrderInv => OneOrderPerSymbol
  BY DEF OneOrderInv
<1> QED
  BY OneOrderInvHolds, <1>1, PTL

(* The snapshot of the unfinished orders, read once, stays good enough for *)
(* every decision of the cycle: where it shows no order, none of the       *)
(* program's own is live when the worker decides.                          *)
THEOREM BookStaysCurrent ==
    ASSUME LinkBehaves
    PROVE  Spec => []BookIsCurrent
<1>1. OneOrderInv => BookIsCurrent
  BY DEF OneOrderInv
<1> QED
  BY OneOrderInvHolds, <1>1, PTL

-----------------------------------------------------------------------------
(* No order past the target. Here the broker must also keep still between  *)
(* the two queries (no "torn"), and nobody else may trade on the account   *)
(* (no "manual"). Lost answers, failed cancels, file errors and crashes    *)
(* are all allowed.                                                        *)

Undisturbed == Faults \cap {"gap", "late", "torn", "manual"} = {}

OnlyOwn == \A o \in Live : book[o].owner \in Batch

TargetInv == OneOrderInv /\ OnlyOwn /\ PositionIsCurrent /\ NeverPastTarget

(* A step that moves no holding and leaves each own order it keeps as it   *)
(* was, but for the cancel request.                                        *)
MovesNothing ==
    /\ UNCHANGED held
    /\ \A o \in Live' :
          /\ o \in Live
          /\ book'[o].owner = book[o].owner /\ book'[o].sym = book[o].sym
          /\ book'[o].buy = book[o].buy /\ book'[o].left = book[o].left
          /\ book'[o].tgt = book[o].tgt

LEMMA NothingMoved == UNCHANGED <<held, book>> => MovesNothing
BY DEF MovesNothing, Live

LEMMA CancelMovesNothing ==
    ASSUME TypeOK, NEW ords, RequestCancel(ords), UNCHANGED held
    PROVE  MovesNothing
<1>1. \A o \in OrdId : book[o] \in Order
  BY DEF TypeOK, BrokerTypeOK
<1>2. \A ord \in Order : LET new == [ord EXCEPT !.asked = TRUE] IN
        /\ new.st = ord.st /\ new.owner = ord.owner /\ new.sym = ord.sym
        /\ new.buy = ord.buy /\ new.left = ord.left /\ new.tgt = ord.tgt
  BY DEF Order
<1>3. \A o \in OrdId :
        /\ book'[o].st = book[o].st /\ book'[o].owner = book[o].owner
        /\ book'[o].sym = book[o].sym /\ book'[o].buy = book[o].buy
        /\ book'[o].left = book[o].left /\ book'[o].tgt = book[o].tgt
  BY <1>1, <1>2 DEF RequestCancel
<1> QED
  BY <1>3 DEF MovesNothing, Live

LEMMA EndMovesNothing ==
    ASSUME TypeOK, NEW o \in OrdId, EndOrder(o)
    PROVE  MovesNothing
BY DEF TypeOK, BrokerTypeOK, EndOrder, Ended, Order, MovesNothing, Live

LEMMA MovesNothingKeeps ==
    ASSUME OnlyOwn, NeverPastTarget, MovesNothing
    PROVE  OnlyOwn' /\ NeverPastTarget'
<1>1. OnlyOwn'
  BY DEF OnlyOwn, MovesNothing
<1>2. NeverPastTarget'
  BY DEF NeverPastTarget, OnlyOwn, OwnLive, MovesNothing
<1> QED
  BY <1>1, <1>2

(* A fill moves the holding and what is left together; no other own order  *)
(* is on that symbol.                                                      *)
LEMMA FillKeepsTarget ==
    ASSUME TypeOK, OneOrderPerSymbol, OnlyOwn, NeverPastTarget,
           NEW o \in OrdId, NEW q \in 1..book[o].left, Fill(o, q)
    PROVE  OnlyOwn' /\ NeverPastTarget'
<1> DEFINE s == book[o].sym
<1>1. /\ book \in [OrdId -> Order] /\ held \in [Symbol -> Nat]
      /\ book[o] \in Order /\ s \in Symbol /\ o \in OwnLive
      /\ book[o].left \in Nat /\ book[o].tgt \in Nat /\ book[o].buy \in BOOLEAN
      /\ held[s] \in Nat /\ q \in Nat /\ q <= book[o].left
  BY DEF TypeOK, BrokerTypeOK, Order, Fill, OnlyOwn, OwnLive, Live
<1>2. \A p \in OrdId \ {o} : book'[p] = book[p]
  BY <1>1 DEF Fill
<1>3. /\ held'[s] = IF book[o].buy THEN held[s] + q ELSE held[s] - q
      /\ \A x \in Symbol \ {s} : held'[x] = held[x]
  BY <1>1 DEF Fill
<1>4. \/ book'[o].st = "done"
      \/ book'[o] = [book[o] EXCEPT !.left = book[o].left - q]
  BY <1>1 DEF Fill, Ended, Order
<1>5. ASSUME NEW p \in Live'
      PROVE  p \in OwnLive /\ book'[p].owner = book[p].owner
  <2>1. CASE p = o
    BY <1>1, <1>4, <1>5, <2>1 DEF Live, Order
  <2>2. CASE p # o
    BY <1>2, <1>5, <2>2 DEF Live, OwnLive, OnlyOwn
  <2> QED
    BY <2>1, <2>2
<1>6. OnlyOwn'
  BY <1>5 DEF OnlyOwn, OwnLive
<1>7. ASSUME NEW p \in OwnLive', p # o
      PROVE  book'[p] = book[p] /\ p \in OwnLive /\ book[p].sym \in Symbol \ {s}
  <2>1. p \in OwnLive /\ book'[p] = book[p]
    BY <1>2, <1>5, <1>7 DEF OwnLive, Live
  <2>2. book[p].sym \in Symbol
    BY <1>1, <2>1 DEF OwnLive, Live, Order
  <2> QED
    BY <1>1, <1>7, <2>1, <2>2 DEF OneOrderPerSymbol
<1>8. ASSUME o \in OwnLive'
      PROVE  IF book'[o].buy THEN held'[book'[o].sym] + book'[o].left <= book'[o].tgt
             ELSE held'[book'[o].sym] - book'[o].left >= book'[o].tgt
  <2>1. book'[o] = [book[o] EXCEPT !.left = book[o].left - q]
    BY <1>4, <1>8 DEF OwnLive, Live
  <2>2. /\ book'[o].sym = s /\ book'[o].buy = book[o].buy
        /\ book'[o].tgt = book[o].tgt /\ book'[o].left = book[o].left - q
    BY <1>1, <2>1 DEF Order
  <2>3. IF book[o].buy THEN held[s] + book[o].left <= book[o].tgt
        ELSE held[s] - book[o].left >= book[o].tgt
    BY <1>1 DEF NeverPastTarget
  <2>4. CASE book[o].buy
    BY <1>1, <1>3, <2>2, <2>3, <2>4
  <2>5. CASE ~book[o].buy
    BY <1>1, <1>3, <2>2, <2>3, <2>5
  <2> QED
    BY <2>4, <2>5
<1>9. NeverPastTarget'
  <2> SUFFICES ASSUME NEW p \in OwnLive'
               PROVE  IF book'[p].buy
                      THEN held'[book'[p].sym] + book'[p].left <= book'[p].tgt
                      ELSE held'[book'[p].sym] - book'[p].left >= book'[p].tgt
    BY DEF NeverPastTarget
  <2>1. CASE p = o
    BY <1>8, <2>1
  <2>2. CASE p # o
    BY <1>3, <1>7, <2>2 DEF NeverPastTarget
  <2> QED
    BY <2>1, <2>2
<1> QED
  BY <1>6, <1>9

(* What _reconcile submits is no more than what the difference allows.     *)
LEMMA QuantityFits ==
    ASSUME TypeOK, cur \in Batch, NEW s \in Symbol, NEW avail \in 0..vol[s],
           vol[s] = held[s], Diff(s) # 0
    PROVE  IF Diff(s) > 0 THEN held[s] + Quantity(s, avail) <= Goal(s)
                          ELSE held[s] - Quantity(s, avail) >= Goal(s)
<1>1. /\ Goal(s) \in Nat /\ vol[s] \in Nat /\ avail \in Nat
      /\ Diff(s) \in Int /\ Quantity(s, avail) \in Nat
  BY QuantityType
<1>2. Diff(s) = Goal(s) - held[s]
  BY DEF Diff
<1>3. CASE Diff(s) > 0
  BY <1>1, <1>2, <1>3 DEF Quantity
<1>4. CASE Diff(s) < 0
  BY <1>1, <1>2, <1>4 DEF Quantity, Capped
<1> QED
  BY <1>1, <1>3, <1>4

LEMMA PlaceMeetsTarget ==
    ASSUME TypeOK, PositionIsCurrent, OnlyOwn, NeverPastTarget,
           NEW s \in Symbol, Visit(s), NEW avail \in 0..vol[s], NEW o \in OrdId,
           Place(s, avail, o)
    PROVE  OnlyOwn' /\ NeverPastTarget'
<1>1. /\ book \in [OrdId -> Order] /\ cur \in Batch /\ UNCHANGED held
      /\ s \in todo /\ pc = "reconcile"
  BY DEF TypeOK, BrokerTypeOK, CycleTypeOK, Visit, Handling
<1>2. /\ UnfinishedOn(s) = {} /\ Diff(s) # 0
      /\ book'[o] = [st |-> "live", sym |-> s, buy |-> Diff(s) > 0,
                     left |-> Quantity(s, avail), tgt |-> Goal(s),
                     owner |-> cur, asked |-> FALSE]
      /\ \A p \in OrdId \ {o} : book'[p] = book[p]
  BY <1>1 DEF Place, Differs, PlaceOrder
<1>3. vol[s] = held[s]
  BY <1>1, <1>2 DEF PositionIsCurrent, Undecided
<1>4. IF Diff(s) > 0 THEN held[s] + Quantity(s, avail) <= Goal(s)
                     ELSE held[s] - Quantity(s, avail) >= Goal(s)
  BY <1>1, <1>2, <1>3, QuantityFits
<1>5. \A p \in Live' : p = o \/ (p \in Live /\ book'[p] = book[p])
  BY <1>2 DEF Live
<1>6. OnlyOwn'
  BY <1>1, <1>2, <1>5 DEF OnlyOwn
<1>7. NeverPastTarget'
  <2> SUFFICES ASSUME NEW p \in OwnLive'
               PROVE  IF book'[p].buy
                      THEN held[book'[p].sym] + book'[p].left <= book'[p].tgt
                      ELSE held[book'[p].sym] - book'[p].left >= book'[p].tgt
    BY <1>1 DEF NeverPastTarget
  <2>1. CASE p = o
    <3>1. /\ book'[p].sym = s /\ book'[p].left = Quantity(s, avail)
          /\ book'[p].tgt = Goal(s) /\ book'[p].buy = (Diff(s) > 0)
      BY <1>2, <2>1
    <3>2. CASE Diff(s) > 0
      BY <1>4, <3>1, <3>2
    <3>3. CASE ~(Diff(s) > 0)
      BY <1>4, <3>1, <3>3
    <3> QED
      BY <3>2, <3>3
  <2>2. CASE p # o
    BY <1>5, <2>2 DEF NeverPastTarget, OnlyOwn, OwnLive
  <2> QED
    BY <2>1, <2>2
<1> QED
  BY <1>6, <1>7

(* The position in the snapshot stays current where no decision is taken.  *)
LEMMA PositionKept ==
    ASSUME TypeOK, SnapshotExists, PositionIsCurrent,
           UNCHANGED <<held, vol, unf>>,
           pc' = "unfinished" => pc = "unfinished",
           \A s \in Symbol : Undecided(s)' => Undecided(s),
           \A o \in unf : book'[o].sym = book[o].sym
    PROVE  PositionIsCurrent'
<1>1. \A s \in Symbol : UnfinishedOn(s)' = UnfinishedOn(s)
  BY DEF UnfinishedOn
<1> QED
  BY <1>1 DEF PositionIsCurrent

(* A fill cannot touch a symbol that is still to be decided about: its     *)
(* order would be in the snapshot.                                         *)
LEMMA FillKeepsPosition ==
    ASSUME TypeOK, SnapshotExists, BookIsCurrent, PositionIsCurrent, OnlyOwn,
           pc # "unfinished", UNCHANGED <<pc, dst, todo, vol, unf>>,
           NEW o \in OrdId, NEW q \in 1..book[o].left, Fill(o, q)
    PROVE  PositionIsCurrent'
<1>1. /\ book \in [OrdId -> Order] /\ held \in [Symbol -> Nat] /\ unf \subseteq OrdId
      /\ o \in OwnLive
  BY DEF TypeOK, BrokerTypeOK, CycleTypeOK, Fill, OnlyOwn, OwnLive, Live
<1>2. \A p \in OrdId : book'[p].sym = book[p].sym
  BY <1>1 DEF Fill, Ended, Order
<1>3. \A s \in Symbol : UnfinishedOn(s)' = UnfinishedOn(s)
  BY <1>1, <1>2 DEF UnfinishedOn
<1>4. \A s \in Symbol : book[o].sym # s => held'[s] = held[s]
  BY <1>1 DEF Fill
<1>5. \A s \in Symbol : Undecided(s)' => Undecided(s)
  BY DEF Undecided
<1> QED
  BY <1>1, <1>3, <1>4, <1>5 DEF PositionIsCurrent, BookIsCurrent

LEMMA ReconcileKeepsTarget ==
    ASSUME TargetInv, ReconcileOrder
    PROVE  OnlyOwn' /\ PositionIsCurrent' /\ NeverPastTarget'
<1> USE DEF TargetInv, OneOrderInv
<1>1. PICK s \in Symbol :
        \/ LeaveOrder(s)
        \/ CapToNothing(s)
        \/ \E avail \in 0..vol[s] :
            \/ \E o \in OrdId : SubmitOrder(s, avail, o)
            \/ SubmitUnanswered(s, avail)
            \/ AppendRaises(s, avail)
  BY DEF ReconcileOrder
<1>2. Visit(s)
  BY <1>1 DEF LeaveOrder, CapToNothing, SubmitOrder, SubmitUnanswered, AppendRaises, CapRaises, SubmitLineRaises
<1>3. \/ UNCHANGED book
      \/ \E avail \in 0..vol[s] : \E o \in OrdId : Place(s, avail, o)
  BY <1>1 DEF LeaveOrder, CapToNothing, SubmitOrder, SubmitUnanswered, AppendRaises, CapRaises, SubmitLineRaises
<1>4. /\ UNCHANGED <<held, vol, unf>>
      /\ pc' = "unfinished" => pc = "unfinished"
      /\ \A x \in Symbol : Undecided(x)' => Undecided(x)
  BY <1>2 DEF Visit, Undecided
<1>5. CASE UNCHANGED book
  BY <1>4, <1>5, NothingMoved, MovesNothingKeeps, PositionKept
<1>6. ASSUME NEW avail \in 0..vol[s], NEW o \in OrdId, Place(s, avail, o)
      PROVE  OnlyOwn' /\ PositionIsCurrent' /\ NeverPastTarget'
  <2>1. OnlyOwn' /\ NeverPastTarget'
    BY <1>2, <1>6, PlaceMeetsTarget
  <2>2. \A p \in unf : book'[p].sym = book[p].sym
    BY <1>6 DEF Place, PlaceOrder, SnapshotExists, TypeOK, BrokerTypeOK, CycleTypeOK
  <2>3. PositionIsCurrent'
    BY <1>4, <2>2, PositionKept
  <2> QED
    BY <2>1, <2>3
<1> QED
  BY <1>3, <1>5, <1>6

LEMMA WorkerKeepsTarget ==
    ASSUME TargetInv, Worker
    PROVE  OnlyOwn' /\ PositionIsCurrent' /\ NeverPastTarget'
<1> USE DEF TargetInv, OneOrderInv
<1>1. CASE PassGuards
  <2>1. /\ UNCHANGED <<held, book, vol, unf>> /\ pc' # "unfinished"
        /\ \A s \in Symbol : ~Undecided(s)'
    BY <1>1 DEF PassGuards, brokerVars, localVars, Undecided
  <2> QED
    BY <2>1, NothingMoved, MovesNothingKeeps, PositionKept
<1>2. CASE ReadPositions
  <2>1. /\ UNCHANGED <<held, book>> /\ vol' = held /\ pc' = "unfinished"
    BY <1>2 DEF ReadPositions, GuardsWork, brokerVars
  <2> QED
    BY <2>1, NothingMoved, MovesNothingKeeps DEF PositionIsCurrent, Undecided
<1>3. CASE ReadUnfinished
  <2>1. /\ UNCHANGED <<held, book, vol>> /\ vol = held /\ pc' = "pass_one"
    BY <1>3 DEF ReadUnfinished, PositionIsCurrent, brokerVars
  <2> QED
    BY <2>1, NothingMoved, MovesNothingKeeps DEF PositionIsCurrent
<1>4. CASE QueryRaises \/ StopAfterPassOne \/ NotMatched \/ DiskRaises
  <2>1. UNCHANGED <<held, book>> /\ EndCycle
    BY <1>4 DEF QueryRaises, StopAfterPassOne, NotMatched, DiskRaises, brokerVars
  <2> QED
    BY <2>1, NothingMoved, MovesNothingKeeps DEF EndCycle, PositionIsCurrent, Undecided
<1>5. ASSUME NEW b \in Batch, PassOneInvalid(b) \/ PassOneKeep(b) \/ StartReconcile(b)
      PROVE  OnlyOwn' /\ PositionIsCurrent' /\ NeverPastTarget'
  <2>1. /\ UNCHANGED <<held, book, vol, unf>> /\ pc' # "unfinished"
        /\ \A s \in Symbol : Undecided(s)' => Undecided(s)
    BY <1>5 DEF PassOneInvalid, PassOneKeep, StartReconcile, brokerVars, Undecided
  <2> QED
    BY <2>1, NothingMoved, MovesNothingKeeps, PositionKept
<1>6. ASSUME NEW b \in Batch, PassOneExpired(b)
      PROVE  OnlyOwn' /\ PositionIsCurrent' /\ NeverPastTarget'
  <2>1. /\ UNCHANGED <<held, vol, unf>> /\ pc' # "unfinished"
        /\ \A s \in Symbol : Undecided(s)' => Undecided(s)
    BY <1>6 DEF PassOneExpired, Undecided
  <2>2. OpensNothing /\ MovesNothing
    BY <1>6, <2>1, CancelOpensNothing, BookUnchanged, CancelMovesNothing, NothingMoved
       DEF PassOneExpired
  <2>3. \A o \in unf : book'[o].sym = book[o].sym
    BY <2>2 DEF OpensNothing, SnapshotExists, TypeOK, CycleTypeOK
  <2> QED
    BY <2>1, <2>2, <2>3, MovesNothingKeeps, PositionKept
<1>7. CASE LogCancels \/ SpillBuffer \/ CloseSession \/ MoveDocument \/ FinishBatch
  <2>1. /\ UNCHANGED <<held, book, vol, unf>> /\ pc' # "unfinished"
        /\ \A s \in Symbol : Undecided(s)' => Undecided(s)
    BY <1>7 DEF LogCancels, SpillBuffer, CloseSession, MoveDocument, FinishBatch,
        brokerVars, localVars, Undecided
  <2> QED
    BY <2>1, NothingMoved, MovesNothingKeeps, PositionKept
<1>8. CASE MoveRecord
  <2>1. /\ UNCHANGED <<held, book>> /\ pc' # "unfinished"
        /\ EndCycle \/ (/\ UNCHANGED <<vol, unf>>
                        /\ \A s \in Symbol : Undecided(s)' => Undecided(s))
    BY <1>8 DEF MoveRecord, EndCycle, brokerVars, Undecided
  <2>2. CASE EndCycle
    BY <2>1, <2>2, NothingMoved, MovesNothingKeeps
       DEF EndCycle, PositionIsCurrent, Undecided
  <2> QED
    BY <2>1, <2>2, NothingMoved, MovesNothingKeeps, PositionKept
<1>9. CASE ReconcileOrder
  BY <1>9, ReconcileKeepsTarget
<1> QED
  BY <1>1, <1>2, <1>3, <1>4, <1>5, <1>6, <1>7, <1>8, <1>9 DEF Worker, PassOne

LEMMA BrokerKeepsTarget ==
    ASSUME Undisturbed, TargetInv, BrokerStep
    PROVE  OnlyOwn' /\ PositionIsCurrent' /\ NeverPastTarget'
<1> USE DEF TargetInv, OneOrderInv
<1>1. /\ pc # "unfinished" /\ UNCHANGED <<pc, dst, todo, vol, unf>>
      /\ \E o \in OrdId : EndOrder(o) \/ \E q \in 1..book[o].left : Fill(o, q)
  BY DEF BrokerStep, Quiet, ManualOrder, Undisturbed, cycleVars
<1>2. ASSUME NEW o \in OrdId, EndOrder(o)
      PROVE  OnlyOwn' /\ PositionIsCurrent' /\ NeverPastTarget'
  <2>1. OpensNothing
    BY BrokerOpensNothing
  <2>2. /\ \A p \in unf : book'[p].sym = book[p].sym
        /\ UNCHANGED held
        /\ \A s \in Symbol : Undecided(s)' => Undecided(s)
    BY <1>1, <1>2, <2>1 DEF OpensNothing, SnapshotExists, TypeOK, CycleTypeOK,
        EndOrder, Undecided
  <2> QED
    BY <1>1, <1>2, <2>2, EndMovesNothing, MovesNothingKeeps, PositionKept
<1>3. ASSUME NEW o \in OrdId, NEW q \in 1..book[o].left, Fill(o, q)
      PROVE  OnlyOwn' /\ PositionIsCurrent' /\ NeverPastTarget'
  BY <1>1, <1>3, FillKeepsTarget, FillKeepsPosition
<1> QED
  BY <1>1, <1>2, <1>3

LEMMA NextKeepsTarget ==
    ASSUME Undisturbed, TargetInv, [Next]_vars
    PROVE  OnlyOwn' /\ PositionIsCurrent' /\ NeverPastTarget'
<1> USE DEF TargetInv, OneOrderInv
<1>1. CASE Mirror \/ ChannelStep \/ Tick \/ Restart \/ UNCHANGED vars
  <2>1. /\ UNCHANGED <<held, book, vol, unf>>
        /\ pc' = "unfinished" => pc = "unfinished"
        /\ \A s \in Symbol : Undecided(s)' => Undecided(s)
    BY <1>1 DEF Mirror, MirrorFile, ChannelStep, Tick, Restart, vars, brokerVars,
        cycleVars, localVars, Undecided
  <2> QED
    BY <2>1, NothingMoved, MovesNothingKeeps, PositionKept
<1>2. CASE Crash
  <2>1. UNCHANGED <<held, book>> /\ pc' = "down"
    BY <1>2 DEF Crash, brokerVars
  <2> QED
    BY <2>1, NothingMoved, MovesNothingKeeps DEF PositionIsCurrent, Undecided
<1> QED
  BY <1>1, <1>2, WorkerKeepsTarget, BrokerKeepsTarget DEF Next

LEMMA InitTarget == Init => TargetInv
<1> SUFFICES ASSUME Init PROVE TargetInv
  OBVIOUS
<1>1. Live = {} /\ OwnLive = {} /\ pc = "idle"
  BY DEF Init, BrokerInit, Unused, OwnLive, Live
<1> QED
  BY <1>1, InitOneOrder
     DEF TargetInv, OnlyOwn, PositionIsCurrent, Undecided, NeverPastTarget

LEMMA TargetInvHolds ==
    ASSUME Undisturbed
    PROVE  Spec => []TargetInv
<1>1. LinkBehaves
  BY DEF Undisturbed, LinkBehaves
<1>2. TargetInv /\ [Next]_vars => TargetInv'
  BY <1>1, NextTypeOK, GuardsWorkStep, NextKeepsBook, NextKeepsTarget
     DEF TargetInv, OneOrderInv
<1> QED
  BY InitTarget, <1>2, PTL DEF Spec

(* If moreover the broker keeps still while it is queried and nobody else  *)
(* trades on the account, no own order can take a holding past its target, *)
(* whatever orders, answers, lines or processes are lost.                  *)
THEOREM TargetNotDelta ==
    ASSUME Undisturbed
    PROVE  Spec => []NeverPastTarget
<1>1. TargetInv => NeverPastTarget
  BY DEF TargetInv
<1> QED
  BY TargetInvHolds, <1>1, PTL

(* Under the same conditions the positions, read before the orders, are    *)
(* the ones held wherever the worker still has to decide.                  *)
THEOREM PositionStaysCurrent ==
    ASSUME Undisturbed
    PROVE  Spec => []PositionIsCurrent
<1>1. TargetInv => PositionIsCurrent
  BY DEF TargetInv
<1> QED
  BY TargetInvHolds, <1>1, PTL
=============================================================================
