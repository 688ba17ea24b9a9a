-------------------------- MODULE EventDrainProofs --------------------------
(***************************************************************************)
(* For any number of batches, orders and events, and under every fault of  *)
(* EventDrain: a batch never has two records, lines are in the record of   *)
(* their order's batch and stay there, and the sentinel is kept. Where no  *)
(* disk operation fails, what the drain drops is in no record, and a       *)
(* record tells each order's story without a gap and to its end.           *)
(***************************************************************************)
EXTENDS EventDrainProperties, FiniteSetTheorems, SequenceTheorems,
        WellFoundedInduction, TLAPS

(* The part of the type invariant the argument needs.                      *)
PlacesOK ==
    /\ wb \in Batch \cup {NoBatch}
    /\ wpc # "idle" => wb \in Batch
    /\ at \in [Batch -> LiveDir]
    /\ dirs \in [Batch -> SUBSET LiveDir]

(* The worker appends in pending/ without looking for the record, so it    *)
(* matters that a pending batch has no record elsewhere, and that the      *)
(* batch it works on is pending until it moves it.                         *)
RecordInv ==
    /\ PlacesOK
    /\ wpc \in {"reconcile", "placed", "decide"} => at[wb] = "pending"
    /\ wpc = "move_record" => dirs[wb] \subseteq {"pending"}
    /\ \A b \in Batch : at[b] = "pending" => dirs[b] \subseteq {"pending"}
    /\ \A b \in Batch : \E d \in LiveDir : dirs[b] \subseteq {d}

(* locate_record answers with a directory that holds the record.           *)
LEMMA LocatedHolds ==
    ASSUME NEW b \in Batch, dirs[b] \subseteq LiveDir, dirs[b] # {}
    PROVE  Located(b) \in dirs[b]
BY DEF Located, LiveDir

(* A step that leaves the places and the worker alone keeps the invariant. *)
LEMMA PlacesUntouched ==
    ASSUME RecordInv, UNCHANGED <<wpc, wb, at, dirs>>
    PROVE  RecordInv'
BY DEF RecordInv, PlacesOK

(* A cycle that ends keeps it too, wherever it ends.                       *)
LEMMA WorkerLeaves ==
    ASSUME RecordInv, wpc' = "idle", wb' = NoBatch, UNCHANGED <<at, dirs>>
    PROVE  RecordInv'
BY DEF RecordInv, PlacesOK

LEMMA RecordInit == Init => RecordInv
BY DEF Init, RecordInv, PlacesOK, LiveDir

LEMMA SDKStep == ASSUME RecordInv, SDK PROVE RecordInv'
<1>1. UNCHANGED <<wpc, wb, at, dirs>>
  BY DEF SDK, Replay, Deliver, workerVars, fileVars
<1> QED BY <1>1, PlacesUntouched

(* The drain appends only where a record is.                               *)
LEMMA DrainStep == ASSUME RecordInv, Drain PROVE RecordInv'
<1>1. CASE \E b \in Batch : WriteGroup(b)
  <2>1. PICK b \in Batch : WriteGroup(b)
    BY <1>1
  <2>2. Located(b) \in dirs[b]
    BY <2>1, LocatedHolds DEF WriteGroup, RecordInv, PlacesOK
  <2>3. dirs' = dirs
    BY <2>1, <2>2 DEF WriteGroup, AppendTo, RecordInv, PlacesOK
  <2>4. UNCHANGED <<wpc, wb, at>>
    BY <2>1 DEF WriteGroup, workerVars
  <2> QED BY <2>3, <2>4, PlacesUntouched
<1>2. CASE \/ GetEvent \/ Collect \/ TakeLock \/ ResolveEvent \/ EndPass
           \/ \E b \in Batch : NoRecord(b)
  <2>1. UNCHANGED <<wpc, wb, at, dirs>>
    BY <1>2 DEF GetEvent, Collect, TakeLock, ResolveEvent, EndPass, NoRecord,
                workerVars, fileVars
  <2> QED BY <2>1, PlacesUntouched
<1>3. CASE CloseGroup \/ GroupRaises
  <2>1. UNCHANGED <<wpc, wb, at, dirs>>
    BY <1>3 DEF CloseGroup, GroupRaises, workerVars
  <2> QED BY <2>1, PlacesUntouched
<1> QED BY <1>1, <1>2, <1>3 DEF Drain

LEMMA WorkerStep == ASSUME RecordInv, Worker PROVE RecordInv'
<1>1. CASE \E b \in Batch : StartCycle(b)
  <2>1. PICK b \in Batch : StartCycle(b)
    BY <1>1
  <2> QED BY <2>1 DEF StartCycle, fileVars, RecordInv, PlacesOK
<1>2. CASE \E o \in OrdId : PlaceOrder(o)
  BY <1>2 DEF PlaceOrder, fileVars, RecordInv, PlacesOK
<1>3. CASE RegisterOrder
  <2>1. /\ wb \in Batch /\ at[wb] = "pending" /\ wb' = wb /\ at' = at
        /\ wpc' = "reconcile"
    BY <1>3 DEF RegisterOrder, RecordInv, PlacesOK
  <2>2. dirs[wb] \subseteq {"pending"}
    BY <2>1 DEF RecordInv
  <2>3. \/ dirs' = [dirs EXCEPT ![wb] = @ \cup {"pending"}]
        \/ dirs' = dirs
    BY <1>3 DEF RegisterOrder, AppendTo
  <2>4. \A b \in Batch : dirs'[b] = dirs[b] \/ (b = wb /\ dirs'[b] = {"pending"})
    BY <2>1, <2>2, <2>3 DEF RecordInv, PlacesOK
  <2>5. PlacesOK'
    BY <2>1, <2>3 DEF RecordInv, PlacesOK, LiveDir
  <2>6. \A b \in Batch : \E d \in LiveDir : dirs'[b] \subseteq {d}
    <3>1. "pending" \in LiveDir
      BY DEF LiveDir
    <3> QED BY <2>4, <3>1 DEF RecordInv
  <2> QED BY <2>1, <2>4, <2>5, <2>6 DEF RecordInv
<1>4. CASE OrderUnanswered
  BY <1>4 DEF OrderUnanswered, fileVars, RecordInv, PlacesOK
<1>5. CASE CloseSession
  BY <1>5 DEF CloseSession, RecordInv, PlacesOK
<1>6. CASE CloseRaises
  BY <1>6, WorkerLeaves DEF CloseRaises
<1>7. CASE EndCycle
  BY <1>7, WorkerLeaves DEF EndCycle, fileVars
<1>8. CASE \E d \in {"finished", "expired"} : MoveDocument(d)
  <2>1. PICK d \in {"finished", "expired"} : MoveDocument(d)
    BY <1>8
  <2>2. wb \in Batch /\ at[wb] = "pending"
    BY <2>1 DEF MoveDocument, RecordInv, PlacesOK
  <2>3. dirs[wb] \subseteq {"pending"}
    BY <2>2 DEF RecordInv
  <2>4. at' = [at EXCEPT ![wb] = d] /\ wpc' = "move_record"
        /\ wb' = wb /\ dirs' = dirs
    BY <2>1 DEF MoveDocument
  <2>5. \A b \in Batch : at'[b] = "pending" => at[b] = "pending"
    BY <2>2, <2>4 DEF RecordInv, PlacesOK
  <2> QED BY <2>2, <2>3, <2>4, <2>5 DEF RecordInv, PlacesOK, LiveDir
<1>9. CASE MoveRecord
  <2>1. /\ wpc = "move_record" /\ wb \in Batch
        /\ wpc' = "idle" /\ wb' = NoBatch /\ at' = at
    BY <1>9 DEF MoveRecord, RecordInv, PlacesOK
  <2>2. \/ dirs' = [dirs EXCEPT ![wb] = IF @ = {} THEN {} ELSE {at[wb]}]
        \/ dirs' = dirs
    BY <1>9 DEF MoveRecord
  <2>3. \A b \in Batch : dirs'[b] = dirs[b] \/ (b = wb /\ dirs'[b] = {at[b]})
    BY <2>1, <2>2 DEF RecordInv, PlacesOK
  <2>4. PlacesOK'
    BY <2>1, <2>2 DEF RecordInv, PlacesOK
  <2>5. \A b \in Batch : at[b] \in LiveDir
    BY DEF RecordInv, PlacesOK
  <2>6. \A b \in Batch : \E d \in LiveDir : dirs'[b] \subseteq {d}
    BY <2>3, <2>5 DEF RecordInv
  <2>7. \A b \in Batch : at'[b] = "pending" => dirs'[b] \subseteq {"pending"}
    BY <2>1, <2>3 DEF RecordInv
  <2> QED BY <2>1, <2>4, <2>6, <2>7 DEF RecordInv
<1> QED BY <1>1, <1>2, <1>3, <1>4, <1>5, <1>6, <1>7, <1>8, <1>9 DEF Worker

LEMMA ProcessStep == ASSUME RecordInv, Process PROVE RecordInv'
<1>1. CASE Crash
  BY <1>1, WorkerLeaves DEF Crash
<1>2. CASE Shutdown \/ Connect \/ InitProcess
  <2>1. UNCHANGED <<wpc, wb, at, dirs>>
    BY <1>2 DEF Shutdown, Connect, InitProcess, workerVars, fileVars
  <2> QED BY <2>1, PlacesUntouched
<1> QED BY <1>1, <1>2 DEF Process

LEMMA RecordStep == RecordInv /\ [Next]_vars => RecordInv'
<1> SUFFICES ASSUME RecordInv, [Next]_vars PROVE RecordInv'
  OBVIOUS
<1>1. CASE UNCHANGED vars \/ Spill
  <2>1. UNCHANGED <<wpc, wb, at, dirs>>
    BY <1>1 DEF vars, workerVars, fileVars, Spill
  <2> QED BY <2>1, PlacesUntouched
<1> QED BY <1>1, SDKStep, DrainStep, WorkerStep, ProcessStep DEF Next

LEMMA AtMostOne ==
    ASSUME NEW S, NEW d, S \subseteq {d}
    PROVE  Cardinality(S) <= 1
<1>1. IsFiniteSet({d}) /\ Cardinality({d}) = 1
  BY FS_Singleton
<1> QED BY <1>1, FS_Subset

(* Nobody who appends to a record re-creates it in a directory it has been *)
(* moved out of: batch_state_lock keeps locate_record's answer true until  *)
(* the line is written, and the worker appends in pending/ only while the  *)
(* batch is there. Holds through crashes between the two moves of          *)
(* move_pair, failing moves and failing writes.                            *)
THEOREM OneRecord == Spec => []OneRecordPerBatch
<1>1. RecordInv => OneRecordPerBatch
  BY AtMostOne DEF RecordInv, OneRecordPerBatch
<1> QED BY RecordInit, RecordStep, <1>1, PTL DEF Spec

-----------------------------------------------------------------------------
(* Types.                                                                  *)

LEMMA EventFacts ==
    /\ Event \subseteq Line /\ Seq(Event) \subseteq Seq(Line)
    /\ Stop \notin Event /\ Stop \notin Line
    /\ \A o \in OrdId : Submit(o) \in Line /\ <<Submit(o)>> \in Seq(Line)
<1>1. Event \subseteq Line
  BY DrainAssumption DEF Event, Line
<1>2. Seq(Event) \subseteq Seq(Line)
  BY <1>1, SeqMonotonic
<1>3. Stop \notin Event /\ Stop \notin Line
  BY DrainAssumption DEF Event, Line, Stop
<1>4. \A o \in OrdId : Submit(o) \in Line
  BY DrainAssumption DEF Submit, Line
<1> QED BY <1>1, <1>2, <1>3, <1>4

LEMMA InitType == Init => DrainTypeOK
<1> SUFFICES ASSUME Init PROVE DrainTypeOK
  OBVIOUS
<1>1. 0 \in 0..Events /\ 0 \in Nat
  BY DrainAssumption
<1>2. sent \in [OrdId -> 0..Events] /\ epoch \in Nat
  BY <1>1 DEF Init
<1>3. /\ queue \in Seq(Event \cup {Stop}) /\ events \in Seq(Event)
      /\ buf \in Seq(Line)
      /\ byBatch \in [Batch -> Seq(Event)]
      /\ lines \in [Batch -> [LiveDir -> Seq(Line)]]
  BY EmptySeq DEF Init
<1> QED BY <1>2, <1>3 DEF Init, DrainTypeOK, LiveDir

(* What reaches a record are lines.                                        *)
LEMMA WriteOutType ==
    ASSUME DrainTypeOK, NEW n \in 0..Len(buf), WriteOut(n)
    PROVE  lines' \in [Batch -> [LiveDir -> Seq(Line)]]
<1>1. CASE out = <<>>
  BY <1>1 DEF WriteOut, DrainTypeOK
<1>2. CASE out # <<>>
  <2>1. out[1] \in Batch /\ out[2] \in LiveDir
    BY <1>2 DEF DrainTypeOK
  <2>2. buf \in Seq(Line) /\ lines \in [Batch -> [LiveDir -> Seq(Line)]]
    BY DEF DrainTypeOK
  <2>3. SubSeq(buf, 1, n) \in Seq(Line)
    BY <2>2, SubSeqProperties
  <2>4. lines[out[1]][out[2]] \o SubSeq(buf, 1, n) \in Seq(Line)
    BY <2>1, <2>2, <2>3, ConcatProperties
  <2> QED BY <1>2, <2>1, <2>2, <2>4 DEF WriteOut
<1> QED BY <1>1, <1>2

LEMMA CloseFileType ==
    ASSUME DrainTypeOK, CloseFile
    PROVE  /\ lines' \in [Batch -> [LiveDir -> Seq(Line)]]
           /\ buf' = <<>> /\ buf' \in Seq(Line) /\ out' = <<>>
<1>1. Len(buf) \in 0..Len(buf)
  BY LenProperties DEF DrainTypeOK
<1> QED BY <1>1, WriteOutType, EmptySeq DEF CloseFile

LEMMA DoneType ==
    ASSUME DrainTypeOK, NEW b \in Batch, Done(b)
    PROVE  byBatch' \in [Batch -> Seq(Event)]
BY EmptySeq DEF Done, DrainTypeOK

LEMMA AppendToType ==
    ASSUME DrainTypeOK, NEW b \in Batch, NEW d \in LiveDir,
           NEW new \in Seq(Line), AppendTo(b, d, new)
    PROVE  /\ dirs' \in [Batch -> SUBSET LiveDir]
           /\ out' \in (Batch \X LiveDir) /\ out' # <<>>
           /\ buf' \in Seq(Line)
<1>1. buf \in Seq(Line) /\ dirs \in [Batch -> SUBSET LiveDir]
  BY DEF DrainTypeOK
<1>2. buf \o new \in Seq(Line)
  BY <1>1, ConcatProperties
<1> QED BY <1>1, <1>2 DEF AppendTo

LEMMA SDKType == ASSUME DrainTypeOK, SDK PROVE DrainTypeOK'
<1>1. CASE Replay
  BY <1>1, DrainAssumption DEF Replay, DrainTypeOK, drainVars, workerVars, fileVars
<1>2. CASE \E o \in OrdId : Deliver(o)
  <2>1. PICK o \in OrdId : Deliver(o)
    BY <1>2
  <2> DEFINE e == [ord |-> o, n |-> sent[o] + 1]
  <2>2. sent[o] + 1 \in 1..Events
    <3>1. sent[o] \in 0..Events /\ Events \in Nat
      BY DrainAssumption DEF DrainTypeOK
    <3> QED BY <2>1, <3>1 DEF Deliver
  <2>3. e \in Event \cup {Stop}
    BY <2>2 DEF Event
  <2>4. queue' \in Seq(Event \cup {Stop})
    <3>1. queue \in Seq(Event \cup {Stop})
      BY DEF DrainTypeOK
    <3>2. Append(queue, e) \in Seq(Event \cup {Stop})
      BY <2>3, <3>1, AppendProperties
    <3> QED BY <2>1, <3>2 DEF Deliver
  <2>5. sent' \in [OrdId -> 0..Events]
    <3>1. sent \in [OrdId -> 0..Events]
      BY DEF DrainTypeOK
    <3>2. sent[o] + 1 \in 0..Events
      BY <2>2, DrainAssumption
    <3> QED BY <2>1, <3>1, <3>2 DEF Deliver
  <2> QED BY <2>1, <2>4, <2>5 DEF Deliver, DrainTypeOK, drainVars, workerVars, fileVars
<1> QED BY <1>1, <1>2 DEF SDK

LEMMA DrainType == ASSUME DrainTypeOK, Drain PROVE DrainTypeOK'
<1> DEFINE Q == Event \cup {Stop}
<1>1. CASE GetEvent
  <2>1. Head(queue) \in Q /\ Tail(queue) \in Seq(Q)
    BY <1>1, HeadTailProperties DEF GetEvent, DrainTypeOK
  <2>2. events' \in Seq(Event) /\ queue' \in Seq(Q)
    <3>1. Head(queue) # Stop => <<Head(queue)>> \in Seq(Event)
      BY <2>1
    <3>2. events \in Seq(Event)
      BY DEF DrainTypeOK
    <3> QED BY <1>1, <2>1, <3>1, <3>2 DEF GetEvent
  <2> QED BY <1>1, <2>2 DEF GetEvent, DrainTypeOK, brokerVars, workerVars, fileVars
<1>2. CASE Collect
  <2>1. queue # <<>> => Head(queue) \in Q /\ Tail(queue) \in Seq(Q)
    BY HeadTailProperties DEF DrainTypeOK
  <2>2. events' \in Seq(Event) /\ queue' \in Seq(Q)
    <3>1. events \in Seq(Event) /\ queue \in Seq(Q)
      BY DEF DrainTypeOK
    <3>2. queue # <<>> /\ Head(queue) # Stop =>
            Append(events, Head(queue)) \in Seq(Event)
      BY <2>1, <3>1, AppendProperties
    <3> QED BY <1>2, <2>1, <3>1, <3>2 DEF Collect
  <2> QED BY <1>2, <2>2 DEF Collect, DrainTypeOK, brokerVars, workerVars, fileVars
<1>3. CASE TakeLock
  BY <1>3 DEF TakeLock, DrainTypeOK, brokerVars, workerVars, fileVars
<1>4. CASE ResolveEvent
  <2>1. Head(events) \in Event /\ events' \in Seq(Event)
    BY <1>4, HeadTailProperties DEF ResolveEvent, DrainTypeOK
  <2>2. index[Head(events).ord] \in Batch \cup {NoBatch}
    BY <2>1 DEF DrainTypeOK, Event
  <2>3. byBatch' \in [Batch -> Seq(Event)]
    <3>1. byBatch \in [Batch -> Seq(Event)]
      BY DEF DrainTypeOK
    <3>2. \A b \in Batch : Append(byBatch[b], Head(events)) \in Seq(Event)
      BY <2>1, <3>1, AppendProperties
    <3> QED BY <1>4, <2>1, <2>2, <3>1, <3>2 DEF ResolveEvent, Grouped, Foreign
  <2> QED BY <1>4, <2>1, <2>3
       DEF ResolveEvent, DrainTypeOK, brokerVars, workerVars, fileVars
<1>5. CASE \E b \in Batch : NoRecord(b)
  <2>1. PICK b \in Batch : NoRecord(b)
    BY <1>5
  <2>2. byBatch' \in [Batch -> Seq(Event)]
    BY <2>1, DoneType DEF NoRecord
  <2> QED BY <2>1, <2>2 DEF NoRecord, DrainTypeOK, brokerVars, workerVars, fileVars
<1>6. CASE \E b \in Batch : WriteGroup(b)
  <2>1. PICK b \in Batch : WriteGroup(b)
    BY <1>6
  <2>2. Located(b) \in LiveDir
    BY DEF Located, LiveDir
  <2>3. byBatch[b] \in Seq(Line)
    BY EventFacts DEF DrainTypeOK
  <2>4. /\ dirs' \in [Batch -> SUBSET LiveDir]
        /\ out' \in (Batch \X LiveDir) /\ out' # <<>>
        /\ buf' \in Seq(Line)
    BY <2>1, <2>2, <2>3, AppendToType DEF WriteGroup
  <2>5. byBatch' \in [Batch -> Seq(Event)]
    BY <2>1, DoneType DEF WriteGroup
  <2> QED BY <2>1, <2>4, <2>5 DEF WriteGroup, DrainTypeOK, brokerVars, workerVars
<1>7. CASE CloseGroup
  <2>1. CloseFile
    BY <1>7 DEF CloseGroup
  <2>2. /\ lines' \in [Batch -> [LiveDir -> Seq(Line)]]
        /\ buf' = <<>> /\ buf' \in Seq(Line) /\ out' = <<>>
    BY <2>1, CloseFileType
  <2> QED BY <1>7, <2>2 DEF CloseGroup, DrainTypeOK, brokerVars, workerVars
<1>8. CASE GroupRaises
  BY <1>8 DEF GroupRaises, DrainTypeOK, brokerVars, workerVars
<1>9. CASE EndPass
  BY <1>9 DEF EndPass, DrainTypeOK, brokerVars, workerVars, fileVars
<1> QED BY <1>1, <1>2, <1>3, <1>4, <1>5, <1>6, <1>7, <1>8, <1>9 DEF Drain

(* move_pair's second half: the record of wb follows its document, or      *)
(* stays where it is.                                                      *)
LEMMA MoveRecordEffect ==
    ASSUME DrainTypeOK, MoveRecord
    PROVE  \/ /\ dirs' = [dirs EXCEPT ![wb] = IF @ = {} THEN {} ELSE {at[wb]}]
              /\ lines' = [b \in Batch |-> [d \in LiveDir |->
                    IF b # wb THEN lines[b][d]
                    ELSE IF d = at[b] THEN lines[b]["pending"]
                    ELSE IF d = "pending" THEN <<>> ELSE lines[b][d]]]
           \/ UNCHANGED <<dirs, lines>>
<1> DEFINE gone == [lines[wb] EXCEPT !["pending"] = <<>>]
           cut == [lines EXCEPT ![wb] = gone]
           there == [cut[wb] EXCEPT ![at[wb]] = lines[wb]["pending"]]
<1>1. /\ wb \in Batch /\ at[wb] \in LiveDir /\ "pending" \in LiveDir
      /\ lines \in [Batch -> [LiveDir -> Seq(Line)]]
  BY DEF MoveRecord, DrainTypeOK, LiveDir
<1>2. /\ gone \in [LiveDir -> Seq(Line)]
      /\ \A d \in LiveDir : gone[d] = IF d = "pending" THEN <<>> ELSE lines[wb][d]
  BY <1>1, EmptySeq
<1> HIDE DEF gone
<1>3. /\ cut \in [Batch -> [LiveDir -> Seq(Line)]] /\ cut[wb] = gone
      /\ \A b \in Batch : b # wb => cut[b] = lines[b]
  BY <1>1, <1>2
<1> HIDE DEF cut
<1>4. /\ there \in [LiveDir -> Seq(Line)]
      /\ \A d \in LiveDir : there[d] = IF d = at[wb] THEN lines[wb]["pending"]
                                      ELSE gone[d]
  BY <1>1, <1>3
<1> HIDE DEF there
<1> DEFINE now == [cut EXCEPT ![wb] = there]
           told == [b \in Batch |-> [d \in LiveDir |->
                    IF b # wb THEN lines[b][d]
                    ELSE IF d = at[b] THEN lines[b]["pending"]
                    ELSE IF d = "pending" THEN <<>> ELSE lines[b][d]]]
<1>5. ASSUME NEW b \in Batch PROVE now[b] = told[b]
  <2>1. CASE b = wb
    <3>1. now[b] = there
      BY <1>3, <2>1
    <3>2. there = [d \in LiveDir |-> there[d]]
      BY <1>4
    <3>3. \A d \in LiveDir : there[d] = told[b][d]
      BY <1>1, <1>2, <1>4, <2>1
    <3> QED BY <3>1, <3>2, <3>3
  <2>2. CASE b # wb
    <3>1. now[b] = lines[b]
      BY <1>3, <2>2
    <3>2. lines[b] = [d \in LiveDir |-> lines[b][d]]
      BY <1>1
    <3> QED BY <3>1, <3>2, <2>2
  <2> QED BY <2>1, <2>2
<1>6. now = [b \in Batch |-> now[b]] /\ told = [b \in Batch |-> told[b]]
  BY <1>3
<1> HIDE DEF now, told
<1>7. now = told
  BY <1>5, <1>6
<1>8. \/ /\ dirs' = [dirs EXCEPT ![wb] = IF @ = {} THEN {} ELSE {at[wb]}]
         /\ lines' = now
      \/ UNCHANGED <<dirs, lines>>
  BY DEF MoveRecord, now, there, cut, gone
<1> QED BY <1>7, <1>8 DEF told

LEMMA WorkerType == ASSUME DrainTypeOK, Worker PROVE DrainTypeOK'
<1>1. CASE \E b \in Batch : StartCycle(b)
  BY <1>1 DEF StartCycle, DrainTypeOK, brokerVars, drainVars, fileVars
<1>2. CASE \E o \in OrdId : PlaceOrder(o)
  BY <1>2 DEF PlaceOrder, DrainTypeOK, drainVars, fileVars
<1>3. CASE RegisterOrder
  <2>1. wb \in Batch /\ wo \in OrdId /\ "pending" \in LiveDir
    BY <1>3 DEF RegisterOrder, DrainTypeOK, LiveDir
  <2>2. /\ dirs' \in [Batch -> SUBSET LiveDir]
        /\ out' \in (Batch \X LiveDir) \cup {<<>>}
        /\ buf' \in Seq(Line)
        /\ out' = <<>> => buf' = <<>>
    <3>1. CASE AppendTo(wb, "pending", <<Submit(wo)>>)
      BY <2>1, <3>1, EventFacts, AppendToType
    <3>2. CASE UNCHANGED <<dirs, out, buf>>
      BY <3>2 DEF DrainTypeOK
    <3> QED BY <1>3, <3>1, <3>2 DEF RegisterOrder
  <2>3. index' \in [OrdId -> Batch \cup {NoBatch}]
    BY <1>3, <2>1 DEF RegisterOrder, DrainTypeOK
  <2> QED BY <1>3, <2>2, <2>3 DEF RegisterOrder, DrainTypeOK, brokerVars, drainVars
<1>4. CASE OrderUnanswered
  BY <1>4 DEF OrderUnanswered, DrainTypeOK, brokerVars, drainVars, fileVars
<1>5. CASE CloseSession
  <2>1. CloseFile
    BY <1>5 DEF CloseSession
  <2>2. /\ lines' \in [Batch -> [LiveDir -> Seq(Line)]]
        /\ buf' = <<>> /\ buf' \in Seq(Line) /\ out' = <<>>
    BY <2>1, CloseFileType
  <2> QED BY <1>5, <2>2 DEF CloseSession, DrainTypeOK, brokerVars, drainVars
<1>6. CASE CloseRaises
  <2>1. buf' \in Seq(Line)
    BY <1>6, EmptySeq DEF CloseRaises
  <2> QED BY <1>6, <2>1 DEF CloseRaises, DrainTypeOK, brokerVars, drainVars
<1>7. CASE EndCycle
  BY <1>7 DEF EndCycle, DrainTypeOK, brokerVars, drainVars, fileVars
<1>8. CASE \E d \in {"finished", "expired"} : MoveDocument(d)
  <2>1. PICK d \in {"finished", "expired"} : MoveDocument(d)
    BY <1>8
  <2>2. at' \in [Batch -> LiveDir]
    BY <2>1 DEF MoveDocument, DrainTypeOK, LiveDir
  <2> QED BY <2>1, <2>2 DEF MoveDocument, DrainTypeOK, brokerVars, drainVars
<1>9. CASE MoveRecord
  <2>1. wb \in Batch /\ at[wb] \in LiveDir /\ "pending" \in LiveDir
    BY <1>9 DEF MoveRecord, DrainTypeOK, LiveDir
  <2>2. /\ dirs \in [Batch -> SUBSET LiveDir]
        /\ lines \in [Batch -> [LiveDir -> Seq(Line)]]
        /\ <<>> \in Seq(Line)
    BY EmptySeq DEF DrainTypeOK
  <2>3. /\ dirs' \in [Batch -> SUBSET LiveDir]
        /\ lines' \in [Batch -> [LiveDir -> Seq(Line)]]
    <3>1. CASE UNCHANGED <<dirs, lines>>
      BY <2>2, <3>1
    <3>2. CASE ~UNCHANGED <<dirs, lines>>
      <4>1. dirs' = [dirs EXCEPT ![wb] = IF @ = {} THEN {} ELSE {at[wb]}]
        BY <1>9, <3>2, MoveRecordEffect
      <4>2. lines' = [b \in Batch |-> [d \in LiveDir |->
                    IF b # wb THEN lines[b][d]
                    ELSE IF d = at[b] THEN lines[b]["pending"]
                    ELSE IF d = "pending" THEN <<>> ELSE lines[b][d]]]
        BY <1>9, <3>2, MoveRecordEffect
      <4>3. dirs' \in [Batch -> SUBSET LiveDir]
        BY <2>1, <2>2, <4>1
      <4>4. \A b \in Batch, d \in LiveDir :
                (IF b # wb THEN lines[b][d]
                 ELSE IF d = at[b] THEN lines[b]["pending"]
                 ELSE IF d = "pending" THEN <<>> ELSE lines[b][d]) \in Seq(Line)
        BY <2>1, <2>2
      <4> QED BY <4>2, <4>3, <4>4
    <3> QED BY <3>1, <3>2
  <2> QED BY <1>9, <2>3 DEF MoveRecord, DrainTypeOK, brokerVars, drainVars
<1> QED BY <1>1, <1>2, <1>3, <1>4, <1>5, <1>6, <1>7, <1>8, <1>9 DEF Worker

LEMMA ProcessType == ASSUME DrainTypeOK, Process PROVE DrainTypeOK'
<1>1. CASE Shutdown
  <2>1. queue' \in Seq(Event \cup {Stop})
    BY <1>1, AppendProperties DEF Shutdown, DrainTypeOK
  <2> QED BY <1>1, <2>1
       DEF Shutdown, DrainTypeOK, brokerVars, drainVars, workerVars, fileVars
<1>2. CASE Crash
  <2>1. /\ queue' \in Seq(Event \cup {Stop}) /\ events' \in Seq(Event)
        /\ byBatch' \in [Batch -> Seq(Event)]
        /\ buf' \in Seq(Line)
    BY <1>2, EmptySeq DEF Crash
  <2> QED BY <1>2, <2>1 DEF Crash, DrainTypeOK, brokerVars
<1>3. CASE Connect
  <2>1. sent' \in [OrdId -> 0..Events] /\ epoch' \in Nat
    <3>1. 0 \in 0..Events /\ epoch \in Nat
      BY DrainAssumption DEF DrainTypeOK
    <3> QED BY <1>3, <3>1 DEF Connect
  <2> QED BY <1>3, <2>1 DEF Connect, DrainTypeOK, workerVars, fileVars
<1>4. CASE InitProcess
  <2>1. \A found : \A o \in OrdId : Rebuilt(found, o) \in Batch \cup {NoBatch}
    BY DEF Rebuilt
  <2> QED BY <1>4, <2>1
       DEF InitProcess, DrainTypeOK, brokerVars, workerVars, fileVars
<1> QED BY <1>1, <1>2, <1>3, <1>4 DEF Process

LEMMA SpillType == ASSUME DrainTypeOK, Spill PROVE DrainTypeOK'
<1>1. buf \in Seq(Line) /\ buf # <<>>
  BY DEF Spill, DrainTypeOK
<1>2. 1 \in 0..Len(buf) /\ Tail(buf) \in Seq(Line)
  BY <1>1, HeadTailProperties, EmptySeq
<1>3. lines' \in [Batch -> [LiveDir -> Seq(Line)]]
  BY <1>2, WriteOutType DEF Spill
<1> QED BY <1>1, <1>2, <1>3
     DEF Spill, DrainTypeOK, brokerVars, drainVars, workerVars

LEMMA TypeStep == DrainTypeOK /\ [Next]_vars => DrainTypeOK'
<1> SUFFICES ASSUME DrainTypeOK, [Next]_vars PROVE DrainTypeOK'
  OBVIOUS
<1>1. CASE UNCHANGED vars
  BY <1>1 DEF vars, brokerVars, drainVars, workerVars, fileVars, DrainTypeOK
<1> QED BY <1>1, SDKType, DrainType, WorkerType, ProcessType, SpillType DEF Next

(* Every variable keeps to its kind of value: in particular only events,   *)
(* never the sentinel, get past the queue into a record.                   *)
THEOREM DrainTypeCorrect == Spec => []DrainTypeOK
BY InitType, TypeStep, PTL DEF Spec

-----------------------------------------------------------------------------
(* Accounts: how they begin, go on, and are put together and taken apart.  *)

(* The number o has reached after one more line.                           *)
After(e, o, k) == IF e.ord = o THEN e.n ELSE k

(* A sequence that begins with the i lines of s has the same last number.  *)
LEMMA LastOfSame ==
    ASSUME NEW s, NEW t, NEW o, NEW k0, NEW k, NEW i \in Nat,
           \A j \in 1..i : t[j] = s[j],
           LastNumber(s, o, k0, i, k)
    PROVE  LastNumber(t, o, k0, i, k)
<1>1. CASE k = k0 /\ \A j \in 1..i : s[j].ord # o
  BY <1>1 DEF LastNumber
<1>2. CASE \E j \in 1..i : /\ s[j].ord = o /\ s[j].n = k
                           /\ \A m \in j+1..i : s[m].ord # o
  <2>1. PICK j \in 1..i : /\ s[j].ord = o /\ s[j].n = k
                          /\ \A m \in j+1..i : s[m].ord # o
    BY <1>2
  <2>2. \A m \in j+1..i : m \in 1..i
    OBVIOUS
  <2> QED BY <2>1, <2>2 DEF LastNumber
<1> QED BY <1>1, <1>2 DEF LastNumber

(* t goes on after its first a lines with the lines of s.                  *)
LEMMA LastGoesOn ==
    ASSUME NEW s, NEW t, NEW o, NEW k0, NEW k1, NEW k, NEW a \in Nat, NEW i \in Nat,
           \A j \in 1..i : t[a + j] = s[j],
           LastNumber(t, o, k0, a, k1), LastNumber(s, o, k1, i, k)
    PROVE  LastNumber(t, o, k0, a + i, k)
<1>0. \A m \in 1..a+i : m \in 1..a \/ (m - a \in 1..i /\ t[m] = s[m - a])
  <2> SUFFICES ASSUME NEW m \in 1..a+i, m \notin 1..a
               PROVE  m - a \in 1..i /\ t[m] = s[m - a]
    OBVIOUS
  <2>1. m - a \in 1..i /\ a + (m - a) = m
    OBVIOUS
  <2> QED BY <2>1
<1>1. CASE \E j \in 1..i : /\ s[j].ord = o /\ s[j].n = k
                           /\ \A m \in j+1..i : s[m].ord # o
  <2>1. PICK j \in 1..i : /\ s[j].ord = o /\ s[j].n = k
                          /\ \A m \in j+1..i : s[m].ord # o
    BY <1>1
  <2>2. a + j \in 1..a+i /\ t[a + j].ord = o /\ t[a + j].n = k
    BY <2>1
  <2>3. \A m \in (a+j)+1..a+i : t[m].ord # o
    <3> SUFFICES ASSUME NEW m \in (a+j)+1..a+i PROVE t[m].ord # o
      OBVIOUS
    <3>1. m - a \in j+1..i /\ m \in 1..a+i /\ m \notin 1..a
      OBVIOUS
    <3> QED BY <3>1, <1>0, <2>1
  <2> QED BY <2>2, <2>3 DEF LastNumber
<1>2. CASE k = k1 /\ \A j \in 1..i : s[j].ord # o
  <2>1. CASE k1 = k0 /\ \A j \in 1..a : t[j].ord # o
    BY <1>0, <1>2, <2>1 DEF LastNumber
  <2>2. CASE \E j \in 1..a : /\ t[j].ord = o /\ t[j].n = k1
                             /\ \A m \in j+1..a : t[m].ord # o
    <3>1. PICK j \in 1..a : /\ t[j].ord = o /\ t[j].n = k1
                            /\ \A m \in j+1..a : t[m].ord # o
      BY <2>2
    <3>2. j \in 1..a+i
      OBVIOUS
    <3>3. \A m \in j+1..a+i : t[m].ord # o
      <4> SUFFICES ASSUME NEW m \in j+1..a+i PROVE t[m].ord # o
        OBVIOUS
      <4>1. m \in 1..a+i /\ (m \in 1..a => m \in j+1..a)
        OBVIOUS
      <4> QED BY <4>1, <1>0, <1>2, <3>1
    <3> QED BY <1>2, <3>1, <3>2, <3>3 DEF LastNumber
  <2> QED BY <2>1, <2>2 DEF LastNumber
<1> QED BY <1>1, <1>2 DEF LastNumber

(* t is s without its first line.                                          *)
LEMMA LastOfRest ==
    ASSUME NEW s, NEW t, NEW o, NEW k0, NEW k, NEW i \in Nat,
           \A j \in 1..i : t[j] = s[j + 1],
           LastNumber(s, o, k0, i + 1, k)
    PROVE  LastNumber(t, o, After(s[1], o, k0), i, k)
<1>1. CASE k = k0 /\ \A j \in 1..i+1 : s[j].ord # o
  BY <1>1 DEF LastNumber, After
<1>2. CASE \E j \in 1..i+1 : /\ s[j].ord = o /\ s[j].n = k
                             /\ \A m \in j+1..i+1 : s[m].ord # o
  <2>1. PICK j \in 1..i+1 : /\ s[j].ord = o /\ s[j].n = k
                            /\ \A m \in j+1..i+1 : s[m].ord # o
    BY <1>2
  <2>2. CASE j = 1
    <3>1. \A m \in 1..i : t[m].ord # o
      BY <2>1, <2>2
    <3> QED BY <2>1, <2>2, <3>1 DEF LastNumber, After
  <2>3. CASE j # 1
    <3>1. j - 1 \in 1..i /\ t[j - 1] = s[j]
      BY <2>3
    <3>2. \A m \in (j-1)+1..i : m \in 1..i /\ m + 1 \in j+1..i+1
      OBVIOUS
    <3>3. \A m \in (j-1)+1..i : t[m].ord # o
      BY <2>1, <3>2
    <3> QED BY <2>1, <3>1, <3>3 DEF LastNumber
  <2> QED BY <2>2, <2>3
<1> QED BY <1>1, <1>2 DEF LastNumber

(* Lines that are not about o leave its number as it is.                   *)
LEMMA AccountOfOthers ==
    ASSUME NEW S, NEW s \in Seq(S), NEW o, NEW k,
           \A i \in 1..Len(s) : s[i].ord # o
    PROVE  Account(s, o, k, k)
BY DEF Account, LastNumber

LEMMA AccountOfNone ==
    ASSUME NEW o, NEW k
    PROVE  Account(<<>>, o, k, k)
BY DEF Account, LastNumber

LEMMA AccountOfOne ==
    ASSUME NEW e, NEW o, NEW k \in Number, e.ord = o => Follows(k, e.n)
    PROVE  Account(<<e>>, o, k, After(e, o, k))
<1> DEFINE s == <<e>>
<1>1. Len(s) = 1 /\ s[1] = e
  OBVIOUS
<1> HIDE DEF s
<1>2. LastNumber(s, o, k, 0, k)
  BY DEF LastNumber
<1>3. LastNumber(s, o, k, 1, After(e, o, k))
  BY <1>1 DEF LastNumber, After
<1>4. Account(s, o, k, After(e, o, k))
  BY <1>1, <1>2, <1>3 DEF Account
<1> QED BY <1>4 DEF s

(* Two accounts, the second from where the first ends, make one.           *)
LEMMA AccountJoins ==
    ASSUME NEW S, NEW s \in Seq(S), NEW t \in Seq(S), NEW o,
           NEW k0, NEW k1 \in Number, NEW k,
           Account(s, o, k0, k1), Account(t, o, k1, k)
    PROVE  Account(s \o t, o, k0, k)
<1> DEFINE u == s \o t
<1>1. /\ Len(s) \in Nat /\ Len(t) \in Nat /\ Len(u) = Len(s) + Len(t)
      /\ \A i \in 1..Len(s) : u[i] = s[i]
      /\ \A i \in 1..Len(t) : u[Len(s) + i] = t[i]
  BY ConcatProperties, LenProperties
<1> HIDE DEF u
<1>2. ASSUME NEW i \in 0..Len(s), NEW p, LastNumber(s, o, k0, i, p)
      PROVE  LastNumber(u, o, k0, i, p)
  <2>1. i \in Nat /\ \A j \in 1..i : u[j] = s[j]
    BY <1>1
  <2> QED BY <1>2, <2>1, LastOfSame
<1>3. LastNumber(u, o, k0, Len(s), k1)
  BY <1>1, <1>2 DEF Account
<1>4. ASSUME NEW i \in 0..Len(t), NEW p, LastNumber(t, o, k1, i, p)
      PROVE  LastNumber(u, o, k0, Len(s) + i, p)
  <2>1. i \in Nat /\ \A j \in 1..i : u[Len(s) + j] = t[j]
    BY <1>1
  <2> QED BY <1>1, <1>3, <1>4, <2>1, LastGoesOn
<1>5. LastNumber(u, o, k0, Len(u), k)
  BY <1>1, <1>4 DEF Account
<1>6. ASSUME NEW i \in 1..Len(u), u[i].ord = o
      PROVE  \E p \in Number : LastNumber(u, o, k0, i - 1, p) /\ Follows(p, u[i].n)
  <2>1. CASE i <= Len(s)
    <3>1. i \in 1..Len(s) /\ i - 1 \in 0..Len(s) /\ u[i] = s[i]
      BY <1>1, <2>1
    <3>2. PICK p \in Number : LastNumber(s, o, k0, i - 1, p) /\ Follows(p, s[i].n)
      BY <1>6, <3>1 DEF Account
    <3> QED BY <1>2, <3>1, <3>2
  <2>2. CASE ~(i <= Len(s))
    <3> DEFINE j == i - Len(s)
    <3>1. j \in 1..Len(t) /\ j - 1 \in 0..Len(t) /\ Len(s) + j = i
          /\ Len(s) + (j - 1) = i - 1
      BY <1>1, <2>2
    <3>2. u[i] = t[j]
      BY <1>1, <3>1
    <3>3. PICK p \in Number : LastNumber(t, o, k1, j - 1, p) /\ Follows(p, t[j].n)
      BY <1>6, <3>1, <3>2 DEF Account
    <3> HIDE DEF j
    <3> QED BY <1>4, <3>1, <3>2, <3>3
  <2> QED BY <2>1, <2>2
<1>7. Account(u, o, k0, k)
  BY <1>5, <1>6 DEF Account
<1> QED BY <1>7 DEF u

LEMMA AccountAppends ==
    ASSUME NEW S, NEW s \in Seq(S), NEW e \in S, NEW o, NEW k0, NEW k \in Number,
           Account(s, o, k0, k), e.ord = o => Follows(k, e.n)
    PROVE  Account(Append(s, e), o, k0, After(e, o, k))
<1> DEFINE t == <<e>>
<1>1. t \in Seq(S)
  OBVIOUS
<1>2. Account(t, o, k, After(e, o, k))
  BY AccountOfOne
<1> HIDE DEF t
<1>3. Account(s \o t, o, k0, After(e, o, k))
  BY <1>1, <1>2, AccountJoins
<1> QED BY <1>3, AppendIsConcat DEF t

(* The first line follows what was before, and the rest follows it.        *)
LEMMA AccountOfTail ==
    ASSUME NEW S, NEW s \in Seq(S), s # <<>>, NEW o, NEW k0, NEW k,
           Account(s, o, k0, k)
    PROVE  /\ Head(s).ord = o => Follows(k0, Head(s).n)
           /\ Account(Tail(s), o, After(Head(s), o, k0), k)
<1> DEFINE t == Tail(s)
<1>1. /\ Len(s) \in Nat \ {0} /\ Len(t) = Len(s) - 1 /\ Head(s) = s[1]
      /\ \A i \in 1..Len(t) : t[i] = s[i + 1]
  BY HeadTailProperties, EmptySeq
<1> HIDE DEF t
<1>2. s[1].ord = o => Follows(k0, s[1].n)
  <2> SUFFICES ASSUME s[1].ord = o PROVE Follows(k0, s[1].n)
    OBVIOUS
  <2>1. PICK p \in Number : LastNumber(s, o, k0, 1 - 1, p) /\ Follows(p, s[1].n)
    BY <1>1 DEF Account
  <2>2. p = k0
    BY <2>1 DEF LastNumber
  <2> QED BY <2>1, <2>2
<1>3. ASSUME NEW i \in 0..Len(t), NEW p, LastNumber(s, o, k0, i + 1, p)
      PROVE  LastNumber(t, o, After(s[1], o, k0), i, p)
  <2>1. i \in Nat /\ \A j \in 1..i : t[j] = s[j + 1]
    BY <1>1
  <2> QED BY <1>3, <2>1, LastOfRest
<1>4. LastNumber(t, o, After(s[1], o, k0), Len(t), k)
  <2>1. Len(t) \in 0..Len(t) /\ Len(t) + 1 = Len(s)
    BY <1>1
  <2> QED BY <1>3, <2>1 DEF Account
<1>5. ASSUME NEW i \in 1..Len(t), t[i].ord = o
      PROVE  \E p \in Number : /\ LastNumber(t, o, After(s[1], o, k0), i - 1, p)
                               /\ Follows(p, t[i].n)
  <2>1. i + 1 \in 1..Len(s) /\ t[i] = s[i + 1] /\ i - 1 \in 0..Len(t)
        /\ (i + 1) - 1 = (i - 1) + 1
    BY <1>1
  <2>2. PICK p \in Number : /\ LastNumber(s, o, k0, (i + 1) - 1, p)
                            /\ Follows(p, s[i + 1].n)
    BY <1>5, <2>1 DEF Account
  <2> QED BY <1>3, <2>1, <2>2
<1>6. Account(t, o, After(s[1], o, k0), k)
  BY <1>4, <1>5 DEF Account
<1> QED BY <1>1, <1>2, <1>6 DEF t

(* What the broker sends to a new process begins at 1, so it can be read   *)
(* on from wherever the record of o is.                                    *)
LEMMA AccountResumes ==
    ASSUME NEW S, NEW s \in Seq(S), NEW o, NEW a \in 0..Events, NEW k,
           Account(s, o, 0, k)
    PROVE  Account(s, o, a, k) \/ (k = 0 /\ Account(s, o, a, a))
<1>1. CASE \A i \in 1..Len(s) : s[i].ord # o
  <2>1. k = 0
    BY <1>1 DEF Account, LastNumber
  <2> QED BY <1>1, <2>1, AccountOfOthers
<1>2. CASE \E i \in 1..Len(s) : s[i].ord = o
  <2>1. LastNumber(s, o, a, Len(s), k)
    BY <1>2 DEF Account, LastNumber
  <2>2. ASSUME NEW i \in 1..Len(s), s[i].ord = o
        PROVE  \E p \in Number : LastNumber(s, o, a, i - 1, p) /\ Follows(p, s[i].n)
    <3>1. PICK p \in Number : LastNumber(s, o, 0, i - 1, p) /\ Follows(p, s[i].n)
      BY <2>2 DEF Account
    <3>2. CASE p = 0 /\ \A j \in 1..i-1 : s[j].ord # o
      <4>1. s[i].n = 1 /\ a \in Number
        BY <3>1, <3>2, DrainAssumption DEF Follows, Number
      <4>2. LastNumber(s, o, a, i - 1, a) /\ Follows(a, s[i].n)
        BY <3>2, <4>1 DEF LastNumber, Follows
      <4> QED BY <4>1, <4>2
    <3>3. CASE ~(p = 0 /\ \A j \in 1..i-1 : s[j].ord # o)
      BY <3>1, <3>3 DEF LastNumber
    <3> QED BY <3>2, <3>3
  <2> QED BY <2>1, <2>2 DEF Account
<1> QED BY <1>1, <1>2

(* No number, no line.                                                     *)
LEMMA NoLines ==
    ASSUME NEW s \in Seq(Line), NEW o, NEW k0, Account(s, o, k0, -1)
    PROVE  \A i \in 1..Len(s) : s[i].ord # o
<1>1. \A i \in 1..Len(s) : s[i] \in Line
  BY ElementOfSeq
<1>2. \A i \in 1..Len(s) : s[i].n # -1
  BY <1>1, DrainAssumption DEF Line
<1> QED BY <1>2 DEF Account, LastNumber

(* A set of positions has a first one.                                     *)
LEMMA FirstPosition ==
    ASSUME NEW T, T \subseteq Nat, T # {}
    PROVE  \E i \in T : \A j \in T : i <= j
<1> DEFINE R == OpToRel(<, Nat)
<1>1. PICK i \in T : \A j \in T : ~ (<<j, i>> \in R)
  BY NatLessThanWellFounded, WFMin
<1>2. \A j \in T : j < i => <<j, i>> \in R
  BY DEF OpToRel
<1> HIDE DEF R
<1>3. \A j \in T : i \in Nat /\ j \in Nat /\ ~(j < i)
  BY <1>1, <1>2
<1> QED BY <1>1, <1>3

(* An account from the beginning opens with the submit line.               *)
LEMMA OpensWithSubmit ==
    ASSUME NEW s \in Seq(Line), NEW o, NEW k, Account(s, o, -1, k),
           NEW j \in 1..Len(s), s[j].ord = o
    PROVE  \E i \in 1..Len(s) : s[i] = Submit(o)
<1> DEFINE T == {i \in 1..Len(s) : s[i].ord = o}
<1>1. Len(s) \in Nat /\ \A i \in 1..Len(s) : s[i] \in Line
  BY LenProperties, ElementOfSeq
<1>2. PICK i \in T : \A m \in T : i <= m
  <2>1. T \subseteq Nat /\ T # {}
    BY <1>1
  <2> QED BY <2>1, FirstPosition
<1>3. \A m \in 1..i-1 : s[m].ord # o
  BY <1>1, <1>2
<1>4. PICK p \in Number : LastNumber(s, o, -1, i - 1, p) /\ Follows(p, s[i].n)
  BY <1>2 DEF Account
<1>5. p = -1
  BY <1>3, <1>4 DEF LastNumber
<1>6. s[i].n = 0 /\ s[i].ord = o /\ s[i] \in Line
  BY <1>1, <1>2, <1>4, <1>5 DEF Follows
<1>7. s[i] = Submit(o)
  BY <1>6 DEF Line, Submit
<1> QED BY <1>2, <1>7

-----------------------------------------------------------------------------
(* The lock, and what is empty when nobody is at work on it.               *)

LockInv ==
    /\ wpc # "idle" => dpc \notin {"down", "unstarted", "resolve", "write", "close"}
    /\ out # <<>> => \/ dpc = "close"
                     \/ wpc \in {"reconcile", "placed"} /\ out = <<wb, "pending">>
    /\ dpc \notin {"resolve", "write", "close"} =>
        byBatch = [b \in Batch |-> <<>>]
    /\ dpc \notin {"collect", "wait", "resolve"} => events = <<>>
    /\ dpc = "down" => queue = <<>>
    /\ dpc \in {"down", "unstarted"} => index = [o \in OrdId |-> NoBatch]

LEMMA InitLock == Init => LockInv
BY DEF Init, LockInv

LEMMA DrainLock == ASSUME DrainTypeOK, LockInv, Drain PROVE LockInv'
<1>1. CASE GetEvent
  BY <1>1 DEF GetEvent, LockInv, brokerVars, workerVars, fileVars
<1>2. CASE Collect
  BY <1>2 DEF Collect, LockInv, brokerVars, workerVars, fileVars
<1>3. CASE TakeLock
  BY <1>3 DEF TakeLock, LockFree, LockInv, brokerVars, workerVars, fileVars
<1>4. CASE ResolveEvent
  <2>1. events' = <<>> \/ dpc' = "resolve"
    <3>1. CASE Len(events) = 1
      <4>1. events' \in Seq(Event) /\ Len(events') = 0
        BY <1>4, <3>1, HeadTailProperties DEF ResolveEvent, DrainTypeOK
      <4> QED BY <4>1, EmptySeq
    <3>2. CASE Len(events) # 1
      BY <1>4, <3>2 DEF ResolveEvent
    <3> QED BY <3>1, <3>2
  <2> QED BY <1>4, <2>1
       DEF ResolveEvent, LockInv, brokerVars, workerVars, fileVars
<1>5. CASE \E b \in Batch : NoRecord(b)
  BY <1>5 DEF NoRecord, LockInv, brokerVars, workerVars, fileVars
<1>6. CASE \E b \in Batch : WriteGroup(b)
  BY <1>6 DEF WriteGroup, LockInv, brokerVars, workerVars
<1>7. CASE CloseGroup
  BY <1>7 DEF CloseGroup, CloseFile, LockInv, brokerVars, workerVars
<1>8. CASE GroupRaises
  BY <1>8 DEF GroupRaises, LockInv, brokerVars, workerVars
<1>9. CASE EndPass
  <2>1. byBatch = [b \in Batch |-> <<>>]
    <3>1. byBatch = [b \in Batch |-> byBatch[b]]
      BY DEF DrainTypeOK
    <3> QED BY <1>9, <3>1 DEF EndPass
  <2> QED BY <1>9, <2>1 DEF EndPass, LockInv, brokerVars, workerVars, fileVars
<1> QED BY <1>1, <1>2, <1>3, <1>4, <1>5, <1>6, <1>7, <1>8, <1>9 DEF Drain

LEMMA WorkerLock == ASSUME DrainTypeOK, LockInv, Worker PROVE LockInv'
<1>1. CASE \E b \in Batch : StartCycle(b)
  BY <1>1 DEF StartCycle, Working, LockFree, LockInv, brokerVars, drainVars, fileVars
<1>2. CASE \E o \in OrdId : PlaceOrder(o)
  BY <1>2 DEF PlaceOrder, LockInv, drainVars, fileVars
<1>3. CASE RegisterOrder
  BY <1>3 DEF RegisterOrder, AppendTo, LockInv, brokerVars, drainVars
<1>4. CASE OrderUnanswered
  BY <1>4 DEF OrderUnanswered, LockInv, brokerVars, drainVars, fileVars
<1>5. CASE CloseSession
  BY <1>5 DEF CloseSession, CloseFile, LockInv, brokerVars, drainVars
<1>6. CASE CloseRaises
  BY <1>6 DEF CloseRaises, LockInv, brokerVars, drainVars
<1>7. CASE EndCycle
  BY <1>7 DEF EndCycle, LockInv, brokerVars, drainVars, fileVars
<1>8. CASE \E d \in {"finished", "expired"} : MoveDocument(d)
  BY <1>8 DEF MoveDocument, LockInv, brokerVars, drainVars
<1>9. CASE MoveRecord
  <2>1. UNCHANGED <<queue, dpc, events, byBatch, index, out>>
    BY <1>9 DEF MoveRecord, drainVars
  <2>2. wpc = "move_record" /\ wpc' = "idle"
    BY <1>9 DEF MoveRecord
  <2> QED BY <2>1, <2>2 DEF LockInv
<1> QED BY <1>1, <1>2, <1>3, <1>4, <1>5, <1>6, <1>7, <1>8, <1>9 DEF Worker

LEMMA LockStep == DrainTypeOK /\ LockInv /\ [Next]_vars => LockInv'
<1> SUFFICES ASSUME DrainTypeOK, LockInv, [Next]_vars PROVE LockInv'
  OBVIOUS
<1>1. CASE UNCHANGED vars
  BY <1>1 DEF vars, drainVars, workerVars, fileVars, LockInv
<1>2. CASE SDK
  <2>1. UNCHANGED <<dpc, events, byBatch, index, out, wpc, wb>> /\ dpc # "down"
    BY <1>2 DEF SDK, Deliver, Replay, Alive, drainVars, workerVars, fileVars
  <2> QED BY <2>1 DEF LockInv
<1>3. CASE Spill
  BY <1>3 DEF Spill, LockInv, drainVars, workerVars
<1>4. CASE Process
  <2>1. CASE Shutdown
    BY <2>1 DEF Shutdown, Working, LockInv, drainVars, workerVars, fileVars
  <2>2. CASE Crash
    BY <2>2 DEF Crash, LockInv
  <2>3. CASE Connect
    BY <2>3 DEF Connect, LockInv, workerVars, fileVars
  <2>4. CASE InitProcess
    BY <2>4 DEF InitProcess, LockInv, brokerVars, workerVars, fileVars
  <2> QED BY <1>4, <2>1, <2>2, <2>3, <2>4 DEF Process
<1> QED BY <1>1, <1>2, <1>3, <1>4, DrainLock, WorkerLock DEF Next

-----------------------------------------------------------------------------
(* Every line is at home: what the index, the groups of a pass, the open   *)
(* session and the records say about an order agrees with the batch it was *)
(* placed for.                                                             *)

Items(s) == {s[i] : i \in 1..Len(s)}

IndexHome ==
    /\ wpc = "placed" => placed[wo] = wb /\ index[wo] = NoBatch
    /\ \A o \in OrdId : index[o] \in {NoBatch, placed[o]}

GroupsHome == \A b \in Batch : \A x \in Items(byBatch[b]) : index[x.ord] = b

LinesHome == \A b \in Batch, d \in LiveDir :
    /\ \A x \in Items(lines[b][d]) : placed[x.ord] = b
    /\ lines[b][d] # <<>> => d \in dirs[b]

BufHome == out # <<>> =>
    /\ out[2] \in dirs[out[1]]
    /\ \A x \in Items(buf) : placed[x.ord] = out[1]

(* A running process knows every order whose submit line has been written, *)
(* unless a record could not be read when it started.                      *)
SubmitsIndexed == Working /\ "disk" \notin Faults => \A o \in OrdId :
    /\ \A b \in Batch, d \in LiveDir : Submit(o) \in Items(lines[b][d]) => index[o] = b
    /\ Submit(o) \in Items(buf) => index[o] = out[1]

HomeInv == IndexHome /\ GroupsHome /\ LinesHome /\ BufHome /\ SubmitsIndexed

LEMMA ItemsOfNone == Items(<<>>) = {}
BY DEF Items

LEMMA ItemsTyped ==
    ASSUME NEW S, NEW s \in Seq(S)
    PROVE  Items(s) \subseteq S
BY ElementOfSeq DEF Items

LEMMA NoItems ==
    ASSUME NEW S, NEW s \in Seq(S), Items(s) = {}
    PROVE  s = <<>>
<1> SUFFICES ASSUME s # <<>> PROVE FALSE
  OBVIOUS
<1>1. Len(s) \in Nat \ {0}
  BY EmptySeq
<1>2. 1 \in 1..Len(s)
  BY <1>1
<1>3. s[1] \in Items(s)
  BY <1>2 DEF Items
<1> QED BY <1>3

LEMMA ItemsOfConcat ==
    ASSUME NEW S, NEW s \in Seq(S), NEW t \in Seq(S)
    PROVE  Items(s \o t) = Items(s) \cup Items(t)
<1> DEFINE u == s \o t
<1>1. /\ Len(s) \in Nat /\ Len(t) \in Nat /\ Len(u) = Len(s) + Len(t)
      /\ \A i \in 1..Len(u) : u[i] = IF i <= Len(s) THEN s[i] ELSE t[i - Len(s)]
  BY ConcatProperties, LenProperties
<1> HIDE DEF u
<1>2. ASSUME NEW i \in 1..Len(u) PROVE u[i] \in Items(s) \cup Items(t)
  <2>1. CASE i <= Len(s)
    BY <1>1, <2>1 DEF Items
  <2>2. CASE ~(i <= Len(s))
    <3>1. i - Len(s) \in 1..Len(t) /\ u[i] = t[i - Len(s)]
      BY <1>1, <2>2
    <3> QED BY <3>1 DEF Items
  <2> QED BY <2>1, <2>2
<1>3. ASSUME NEW i \in 1..Len(s) PROVE s[i] \in Items(u)
  <2>1. i \in 1..Len(u) /\ u[i] = s[i]
    BY <1>1
  <2> QED BY <2>1 DEF Items
<1>4. ASSUME NEW i \in 1..Len(t) PROVE t[i] \in Items(u)
  <2>1. Len(s) + i \in 1..Len(u) /\ u[Len(s) + i] = t[i]
    BY <1>1
  <2> QED BY <2>1 DEF Items
<1>5. Items(u) = Items(s) \cup Items(t)
  BY <1>2, <1>3, <1>4 DEF Items
<1> QED BY <1>5 DEF u

LEMMA ItemsOfOne == ASSUME NEW e PROVE Items(<<e>>) = {e}
BY DEF Items

LEMMA ItemsOfAppend ==
    ASSUME NEW S, NEW s \in Seq(S), NEW e \in S
    PROVE  Items(Append(s, e)) = Items(s) \cup {e}
<1> DEFINE t == <<e>>
<1>1. t \in Seq(S) /\ Items(t) = {e}
  BY ItemsOfOne
<1> HIDE DEF t
<1>2. Items(s \o t) = Items(s) \cup {e}
  BY <1>1, ItemsOfConcat
<1> QED BY <1>2, AppendIsConcat DEF t

LEMMA ItemsOfTail ==
    ASSUME NEW S, NEW s \in Seq(S), s # <<>>
    PROVE  Items(s) = {Head(s)} \cup Items(Tail(s))
<1> DEFINE t == Tail(s)
<1>1. /\ Len(s) \in Nat \ {0} /\ Len(t) = Len(s) - 1 /\ Head(s) = s[1]
      /\ \A i \in 1..Len(t) : t[i] = s[i + 1]
  BY HeadTailProperties, EmptySeq
<1> HIDE DEF t
<1>2. 1 \in 1..Len(s) /\ \A i \in 1..Len(t) : i + 1 \in 1..Len(s)
  BY <1>1
<1>3. \A i \in 1..Len(s) : i = 1 \/ (i - 1 \in 1..Len(t) /\ t[i - 1] = s[i])
  BY <1>1
<1>4. {Head(s)} \cup Items(t) \subseteq Items(s)
  BY <1>1, <1>2 DEF Items
<1>5. Items(s) \subseteq {Head(s)} \cup Items(t)
  BY <1>1, <1>3 DEF Items
<1> QED BY <1>4, <1>5 DEF t

LEMMA ItemsOfPrefix ==
    ASSUME NEW S, NEW s \in Seq(S), NEW n \in 0..Len(s)
    PROVE  /\ SubSeq(s, 1, n) \in Seq(S)
           /\ Items(SubSeq(s, 1, n)) \subseteq Items(s)
<1> DEFINE t == SubSeq(s, 1, n)
<1>1. Len(s) \in Nat /\ \A i \in 1..n : s[i] \in S
  BY LenProperties, ElementOfSeq
<1>2. /\ t \in Seq(S) /\ Len(t) = n
      /\ \A i \in 1..n : t[i] = s[i]
  BY <1>1, SubSeqProperties
<1> HIDE DEF t
<1>3. t \in Seq(S) /\ Items(t) \subseteq Items(s)
  BY <1>1, <1>2 DEF Items
<1> QED BY <1>3 DEF t

-----------------------------------------------------------------------------
(* What the file operations do to the records.                             *)

LEMMA WriteOutEffect ==
    ASSUME DrainTypeOK, NEW n \in 0..Len(buf), WriteOut(n),
           NEW b \in Batch, NEW d \in LiveDir
    PROVE  lines'[b][d] = IF out = <<b, d>> THEN lines[b][d] \o SubSeq(buf, 1, n)
                          ELSE lines[b][d]
<1>1. CASE out = <<>>
  BY <1>1 DEF WriteOut
<1>2. CASE out # <<>>
  <2>1. out \in Batch \X LiveDir /\ lines \in [Batch -> [LiveDir -> Seq(Line)]]
    BY <1>2 DEF DrainTypeOK
  <2>2. lines' = [lines EXCEPT ![out[1]][out[2]] = @ \o SubSeq(buf, 1, n)]
    BY <1>2 DEF WriteOut
  <2>3. out = <<b, d>> <=> out[1] = b /\ out[2] = d
    BY <2>1
  <2> QED BY <2>1, <2>2, <2>3
<1> QED BY <1>1, <1>2

LEMMA CloseFileEffect ==
    ASSUME DrainTypeOK, CloseFile, NEW b \in Batch, NEW d \in LiveDir
    PROVE  /\ lines'[b][d] = IF out = <<b, d>> THEN lines[b][d] \o buf
                             ELSE lines[b][d]
           /\ out' = <<>> /\ buf' = <<>>
<1>1. buf \in Seq(Line) /\ Len(buf) \in 0..Len(buf)
  BY LenProperties DEF DrainTypeOK
<1>2. SubSeq(buf, 1, Len(buf)) = buf
  BY <1>1, SubSeqFull
<1> QED BY <1>1, <1>2, WriteOutEffect DEF CloseFile

LEMMA SpillEffect ==
    ASSUME DrainTypeOK, Spill, NEW b \in Batch, NEW d \in LiveDir
    PROVE  /\ lines'[b][d] = IF out = <<b, d>> THEN Append(lines[b][d], Head(buf))
                             ELSE lines[b][d]
           /\ buf # <<>> /\ buf' = Tail(buf) /\ out' = out /\ out # <<>>
<1>1. buf \in Seq(Line) /\ buf # <<>> /\ lines[b][d] \in Seq(Line)
  BY DEF Spill, DrainTypeOK
<1>2. 1 \in 0..Len(buf) /\ 1 \in 1..Len(buf) /\ Head(buf) \in Line /\ Head(buf) = buf[1]
  BY <1>1, HeadTailProperties, EmptySeq
<1>3. SubSeq(buf, 1, 1) = <<Head(buf)>>
  <2>1. SubSeq(buf, 1, 1) = <<buf[1]>> \o SubSeq(buf, 2, 1)
    BY <1>1, <1>2, SubSeqRecursiveFirst
  <2>2. SubSeq(buf, 2, 1) = <<>>
    BY SubSeqEmpty
  <2>3. <<buf[1]>> \in Seq(Line)
    BY <1>2
  <2> QED BY <1>2, <2>1, <2>2, <2>3, ConcatEmptySeq
<1>4. lines[b][d] \o <<Head(buf)>> = Append(lines[b][d], Head(buf))
  BY <1>1, <1>2, AppendIsConcat
<1>5. WriteOut(1) /\ buf' = Tail(buf) /\ out' = out
  BY DEF Spill
<1>6. lines'[b][d] = IF out = <<b, d>> THEN lines[b][d] \o SubSeq(buf, 1, 1)
                     ELSE lines[b][d]
  BY <1>2, <1>5, WriteOutEffect
<1>7. out # <<>>
  BY <1>1 DEF DrainTypeOK
<1> QED BY <1>1, <1>3, <1>4, <1>5, <1>6, <1>7

LEMMA InitHome == Init => HomeInv
<1> SUFFICES ASSUME Init PROVE HomeInv
  OBVIOUS
<1>1. IndexHome /\ BufHome /\ SubmitsIndexed
  BY DEF Init, IndexHome, BufHome, SubmitsIndexed, Working
<1>2. GroupsHome /\ LinesHome
  BY ItemsOfNone DEF Init, GroupsHome, LinesHome
<1> QED BY <1>1, <1>2 DEF HomeInv

(* Most steps touch nothing of this.                                       *)
LEMMA HomeUntouched ==
    ASSUME HomeInv, UNCHANGED <<placed, index, byBatch, dirs, lines, out, buf>>,
           wpc' = "placed" => wpc = "placed" /\ UNCHANGED <<wb, wo>>,
           Working' => Working
    PROVE  HomeInv'
<1>1. IndexHome' /\ GroupsHome' /\ LinesHome' /\ BufHome'
  BY DEF HomeInv, IndexHome, GroupsHome, LinesHome, BufHome
<1>2. SubmitsIndexed'
  BY DEF HomeInv, SubmitsIndexed
<1> QED BY <1>1, <1>2 DEF HomeInv

(* A step that only writes out, or loses, what is buffered.                *)
LEMMA HomeFlushed ==
    ASSUME DrainTypeOK, HomeInv, UNCHANGED <<placed, index, byBatch, dirs>>,
           wpc' = "placed" => wpc = "placed" /\ UNCHANGED <<wb, wo>>,
           Working' = Working,
           out' = out \/ Items(buf') = {}, out' = out \/ out' = <<>>,
           Items(buf') \subseteq Items(buf),
           \A b \in Batch, d \in LiveDir :
             \/ lines'[b][d] = lines[b][d]
             \/ /\ out = <<b, d>>
                /\ Items(lines'[b][d]) \subseteq Items(lines[b][d]) \cup Items(buf)
    PROVE  HomeInv'
<1>1. IndexHome' /\ GroupsHome'
  BY DEF HomeInv, IndexHome, GroupsHome
<1>2. LinesHome'
  <2> SUFFICES ASSUME NEW b \in Batch, NEW d \in LiveDir
               PROVE  /\ \A x \in Items(lines'[b][d]) : placed[x.ord] = b
                      /\ lines'[b][d] # <<>> => d \in dirs[b]
    BY DEF LinesHome
  <2>1. CASE lines'[b][d] = lines[b][d]
    BY <2>1 DEF HomeInv, LinesHome
  <2>2. CASE lines'[b][d] # lines[b][d]
    BY <2>2 DEF HomeInv, LinesHome, BufHome
  <2> QED BY <2>1, <2>2
<1>3. BufHome'
  BY DEF HomeInv, BufHome
<1>4. SubmitsIndexed'
  <2> SUFFICES ASSUME Working, "disk" \notin Faults, NEW o \in OrdId
               PROVE  /\ \A b \in Batch, d \in LiveDir :
                           Submit(o) \in Items(lines'[b][d]) => index[o] = b
                      /\ Submit(o) \in Items(buf') => index[o] = out'[1]
    BY DEF SubmitsIndexed
  <2>1. /\ \A b \in Batch, d \in LiveDir :
             Submit(o) \in Items(lines[b][d]) => index[o] = b
        /\ Submit(o) \in Items(buf) => index[o] = out[1]
    BY DEF HomeInv, SubmitsIndexed
  <2>2. Submit(o) \in Items(buf') => index[o] = out'[1]
    <3>1. CASE out' = out
      BY <2>1, <3>1
    <3>2. CASE out' # out
      BY <3>2
    <3> QED BY <3>1, <3>2
  <2> QED BY <2>1, <2>2
<1> QED BY <1>1, <1>2, <1>3, <1>4 DEF HomeInv

LEMMA CloseFileHome ==
    ASSUME DrainTypeOK, HomeInv, CloseFile, UNCHANGED <<placed, index, byBatch, dirs>>,
           wpc' = "placed" => wpc = "placed" /\ UNCHANGED <<wb, wo>>,
           Working' = Working
    PROVE  HomeInv'
<1>1. out' = <<>> /\ buf' = <<>>
  BY DEF CloseFile
<1>2. ASSUME NEW b \in Batch, NEW d \in LiveDir, out = <<b, d>>
      PROVE  Items(lines'[b][d]) = Items(lines[b][d]) \cup Items(buf)
  <2>1. lines[b][d] \in Seq(Line) /\ buf \in Seq(Line)
    BY DEF DrainTypeOK
  <2>2. lines'[b][d] = lines[b][d] \o buf
    BY <1>2, CloseFileEffect
  <2> QED BY <2>1, <2>2, ItemsOfConcat
<1>3. \A b \in Batch, d \in LiveDir : out # <<b, d>> => lines'[b][d] = lines[b][d]
  BY CloseFileEffect
<1> QED BY <1>1, <1>2, <1>3, HomeFlushed, ItemsOfNone

(* drain_session finds the file closed, and the record where it looks.     *)
LEMMA WriteGroupEffect ==
    ASSUME DrainTypeOK, LockInv, NEW b \in Batch, WriteGroup(b)
    PROVE  /\ out = <<>> /\ buf = <<>>
           /\ Located(b) \in dirs[b] /\ Located(b) \in LiveDir
           /\ dirs' = dirs /\ out' = <<b, Located(b)>> /\ buf' = byBatch[b]
           /\ byBatch' = [byBatch EXCEPT ![b] = <<>>]
           /\ UNCHANGED <<placed, sent, events, queue, index, wpc, wb, wo, lines>>
<1>1. out = <<>> /\ buf = <<>>
  BY DEF WriteGroup, LockInv, DrainTypeOK
<1>2. Located(b) \in dirs[b] /\ Located(b) \in LiveDir
  BY LocatedHolds DEF WriteGroup, DrainTypeOK
<1>3. dirs' = dirs /\ out' = <<b, Located(b)>> /\ buf' = buf \o byBatch[b]
  BY <1>2 DEF WriteGroup, AppendTo, DrainTypeOK
<1>4. byBatch[b] \in Seq(Event)
  BY DEF DrainTypeOK
<1>5. buf' = byBatch[b]
  BY <1>1, <1>3, <1>4, ConcatEmptySeq
<1> QED BY <1>1, <1>2, <1>3, <1>5
     DEF WriteGroup, Done, brokerVars, workerVars

(* What is resolved goes to the group of the batch the index names.        *)
LEMMA ResolveEffect ==
    ASSUME DrainTypeOK, ResolveEvent
    PROVE  /\ Head(events) \in Event /\ events' = Tail(events)
           /\ byBatch' \in [Batch -> Seq(Event)]
           /\ \A b \in Batch :
                byBatch'[b] = IF b = index[Head(events).ord]
                              THEN Append(byBatch[b], Head(events)) ELSE byBatch[b]
<1>1. Head(events) \in Event
  BY HeadTailProperties DEF ResolveEvent, DrainTypeOK
<1>2. /\ index[Head(events).ord] \in Batch \cup {NoBatch} /\ NoBatch \notin Batch
      /\ byBatch \in [Batch -> Seq(Event)]
  BY <1>1, DrainAssumption DEF DrainTypeOK, Event
<1>3. \A b \in Batch : Append(byBatch[b], Head(events)) \in Seq(Event)
  BY <1>1, <1>2, AppendProperties
<1> QED BY <1>1, <1>2, <1>3 DEF ResolveEvent, Grouped, Foreign

LEMMA SDKHome == ASSUME HomeInv, SDK PROVE HomeInv'
<1>1. UNCHANGED <<placed, index, byBatch, dirs, lines, out, buf, wpc, wb, wo, dpc>>
  BY DEF SDK, Deliver, Replay, drainVars, workerVars, fileVars
<1> QED BY <1>1, HomeUntouched DEF Working

LEMMA DrainHome ==
    ASSUME DrainTypeOK, LockInv, HomeInv, Drain
    PROVE  HomeInv'
<1>1. CASE GetEvent \/ Collect \/ TakeLock \/ EndPass
  <2>1. /\ UNCHANGED <<placed, index, byBatch, dirs, lines, out, buf, wpc, wb, wo>>
        /\ Working
    BY <1>1 DEF GetEvent, Collect, TakeLock, EndPass, Working, brokerVars,
                workerVars, fileVars
  <2> QED BY <2>1, HomeUntouched
<1>2. CASE ResolveEvent
  <2> DEFINE e == Head(events)
  <2>1. UNCHANGED <<placed, index, dirs, lines, out, buf, wpc, wb, wo>> /\ Working
    BY <1>2 DEF ResolveEvent, Working, brokerVars, workerVars, fileVars
  <2>2. GroupsHome'
    <3> SUFFICES ASSUME NEW b \in Batch, NEW x \in Items(byBatch'[b])
                 PROVE  index[x.ord] = b
      BY <2>1 DEF GroupsHome
    <3>1. byBatch[b] \in Seq(Event) /\ e \in Event
      BY <1>2, ResolveEffect DEF DrainTypeOK
    <3>2. CASE b = index[e.ord]
      <4>1. byBatch'[b] = Append(byBatch[b], e)
        BY <1>2, <3>2, ResolveEffect
      <4>2. x \in Items(byBatch[b]) \/ x = e
        BY <3>1, <4>1, ItemsOfAppend
      <4> QED BY <3>2, <4>2 DEF HomeInv, GroupsHome
    <3>3. CASE b # index[e.ord]
      BY <1>2, <3>3, ResolveEffect DEF HomeInv, GroupsHome
    <3> QED BY <3>2, <3>3
  <2>3. IndexHome' /\ LinesHome' /\ BufHome' /\ SubmitsIndexed'
    BY <2>1 DEF HomeInv, IndexHome, LinesHome, BufHome, SubmitsIndexed
  <2> QED BY <2>2, <2>3 DEF HomeInv
<1>3. CASE \E b \in Batch : NoRecord(b)
  <2>1. PICK b \in Batch : NoRecord(b)
    BY <1>3
  <2>2. /\ UNCHANGED <<placed, index, dirs, lines, out, buf, wpc, wb, wo>> /\ Working
        /\ byBatch' = [byBatch EXCEPT ![b] = <<>>]
    BY <2>1 DEF NoRecord, Done, Working, brokerVars, workerVars, fileVars
  <2>3. GroupsHome'
    BY <2>2, ItemsOfNone DEF HomeInv, GroupsHome, DrainTypeOK
  <2>4. IndexHome' /\ LinesHome' /\ BufHome' /\ SubmitsIndexed'
    BY <2>2 DEF HomeInv, IndexHome, LinesHome, BufHome, SubmitsIndexed
  <2> QED BY <2>3, <2>4 DEF HomeInv
<1>4. CASE \E b \in Batch : WriteGroup(b)
  <2>1. PICK b \in Batch : WriteGroup(b)
    BY <1>4
  <2>2. /\ Located(b) \in dirs[b]
        /\ dirs' = dirs /\ out' = <<b, Located(b)>> /\ buf' = byBatch[b]
        /\ byBatch' = [byBatch EXCEPT ![b] = <<>>]
        /\ UNCHANGED <<placed, index, wpc, wb, wo, lines>>
    BY <2>1, WriteGroupEffect
  <2>3. Working
    BY <2>1 DEF WriteGroup, Working
  <2>4. GroupsHome' /\ IndexHome' /\ LinesHome'
    BY <2>2, ItemsOfNone DEF HomeInv, GroupsHome, IndexHome, LinesHome, DrainTypeOK
  <2>5. Items(byBatch[b]) \subseteq Event
    BY ItemsTyped DEF DrainTypeOK
  <2>6. BufHome'
    <3> SUFFICES ASSUME NEW x \in Items(byBatch[b]) PROVE placed[x.ord] = b
      BY <2>2 DEF BufHome
    <3>1. index[x.ord] = b /\ x.ord \in OrdId
      BY <2>5 DEF HomeInv, GroupsHome, Event
    <3>2. b # NoBatch
      BY DrainAssumption
    <3> QED BY <3>1, <3>2 DEF HomeInv, IndexHome
  <2>7. SubmitsIndexed'
    <3>1. \A o \in OrdId : Submit(o) \notin Items(byBatch[b])
      BY <2>5 DEF Submit, Event
    <3> QED BY <2>2, <2>3, <3>1 DEF HomeInv, SubmitsIndexed
  <2> QED BY <2>4, <2>6, <2>7 DEF HomeInv
<1>5. CASE CloseGroup
  <2>1. CloseFile /\ UNCHANGED <<placed, index, byBatch, dirs, wpc, wb, wo>>
        /\ Working' = Working
    BY <1>5 DEF CloseGroup, Working, brokerVars, workerVars
  <2> QED BY <2>1, CloseFileHome
<1>6. CASE GroupRaises
  <2>1. /\ UNCHANGED <<placed, index, byBatch, dirs, lines, wpc, wb, wo>>
        /\ out' = <<>> /\ buf' = <<>> /\ Working' = Working
    BY <1>6 DEF GroupRaises, Working, brokerVars, workerVars
  <2> QED BY <2>1, HomeFlushed, ItemsOfNone
<1> QED BY <1>1, <1>2, <1>3, <1>4, <1>5, <1>6 DEF Drain

(* The worker's session is that of the record in pending/.                 *)
LEMMA RegisterEffect ==
    ASSUME DrainTypeOK, LockInv, RegisterOrder
    PROVE  /\ wpc = "placed" /\ wpc' = "reconcile" /\ wb' = wb
           /\ wb \in Batch /\ wo \in OrdId /\ "pending" \in LiveDir
           /\ index' = [index EXCEPT ![wo] = wb]
           /\ UNCHANGED <<placed, sent, epoch, queue, stopped, dpc, events,
                          byBatch, last, at, lines>>
           /\ \/ out = <<>> /\ buf = <<>>
              \/ out = <<wb, "pending">>
           /\ \/ /\ dirs' = [dirs EXCEPT ![wb] = @ \cup {"pending"}]
                 /\ out' = <<wb, "pending">> /\ buf' = Append(buf, Submit(wo))
              \/ "disk" \in Faults /\ UNCHANGED <<dirs, out, buf>>
           /\ Working /\ Working'
<1>1. /\ wpc = "placed" /\ wpc' = "reconcile" /\ wb' = wb
      /\ wb \in Batch /\ wo \in OrdId /\ "pending" \in LiveDir
  BY DEF RegisterOrder, DrainTypeOK, LiveDir
<1>2. (out = <<>> /\ buf = <<>>) \/ out = <<wb, "pending">>
  BY <1>1 DEF LockInv, DrainTypeOK
<1>3. Submit(wo) \in Line /\ buf \in Seq(Line)
  BY <1>1, EventFacts DEF DrainTypeOK
<1>4. buf \o <<Submit(wo)>> = Append(buf, Submit(wo))
  BY <1>3, AppendIsConcat
<1>5. Working /\ dpc' = dpc
  BY <1>1 DEF LockInv, RegisterOrder, drainVars, Working
<1> QED BY <1>1, <1>2, <1>4, <1>5
     DEF RegisterOrder, AppendTo, brokerVars, drainVars, Working

LEMMA RegisterHome ==
    ASSUME DrainTypeOK, LockInv, HomeInv, RegisterOrder
    PROVE  HomeInv'
<1>1. /\ wb \in Batch /\ wo \in OrdId /\ wb # NoBatch
      /\ placed[wo] = wb /\ index[wo] = NoBatch /\ wpc' # "placed"
      /\ \A o \in OrdId : index'[o] = IF o = wo THEN wb ELSE index[o]
      /\ UNCHANGED <<placed, lines, byBatch>>
      /\ Working
  BY RegisterEffect, DrainAssumption DEF HomeInv, IndexHome, DrainTypeOK
<1>2. IndexHome'
  BY <1>1 DEF HomeInv, IndexHome
<1>3. GroupsHome'
  <2> SUFFICES ASSUME NEW b \in Batch, NEW x \in Items(byBatch[b])
               PROVE  index'[x.ord] = b
    BY <1>1 DEF GroupsHome
  <2>1. index[x.ord] = b /\ x \in Event /\ b # NoBatch
    BY ItemsTyped, DrainAssumption DEF HomeInv, GroupsHome, DrainTypeOK
  <2> QED BY <1>1, <2>1 DEF Event
<1>4. \A b \in Batch : dirs[b] \subseteq dirs'[b]
  <2>1. dirs \in [Batch -> SUBSET LiveDir]
    BY DEF DrainTypeOK
  <2>2. \/ dirs' = [dirs EXCEPT ![wb] = @ \cup {"pending"}]
        \/ dirs' = dirs
    BY RegisterEffect
  <2> QED BY <1>1, <2>1, <2>2
<1>5. LinesHome'
  BY <1>1, <1>4 DEF HomeInv, LinesHome
<1>6. /\ out' # <<>> => out' = <<wb, "pending">> /\ "pending" \in dirs'[wb]
      /\ out # <<>> => out' = out
      /\ Items(buf') \subseteq Items(buf) \cup {Submit(wo)}
      /\ out = <<>> => Items(buf) = {}
  <2>1. /\ buf \in Seq(Line) /\ Submit(wo) \in Line
        /\ dirs \in [Batch -> SUBSET LiveDir]
    BY <1>1, EventFacts DEF DrainTypeOK
  <2>2. Items(Append(buf, Submit(wo))) = Items(buf) \cup {Submit(wo)}
    BY <2>1, ItemsOfAppend
  <2>3. out # <<>> => out = <<wb, "pending">> /\ "pending" \in dirs[wb]
    BY RegisterEffect DEF HomeInv, BufHome
  <2>4. out = <<>> => Items(buf) = {}
    BY ItemsOfNone DEF DrainTypeOK
  <2>5. CASE /\ dirs' = [dirs EXCEPT ![wb] = @ \cup {"pending"}]
             /\ out' = <<wb, "pending">> /\ buf' = Append(buf, Submit(wo))
    BY <1>1, <2>1, <2>2, <2>3, <2>4, <2>5
  <2>6. CASE UNCHANGED <<dirs, out, buf>>
    BY <2>3, <2>4, <2>6
  <2> QED BY <2>5, <2>6, RegisterEffect
<1>7. BufHome'
  <2> SUFFICES ASSUME out' # <<>>
               PROVE  /\ out'[2] \in dirs'[out'[1]]
                      /\ \A x \in Items(buf') : placed[x.ord] = out'[1]
    BY <1>1 DEF BufHome
  <2>1. out'[1] = wb /\ out'[2] = "pending"
    BY <1>6
  <2>2. \A x \in Items(buf) : placed[x.ord] = wb
    BY <1>6, <2>1 DEF HomeInv, BufHome
  <2>3. Submit(wo).ord = wo
    BY DEF Submit
  <2> QED BY <1>1, <1>6, <2>1, <2>2, <2>3
<1>8. SubmitsIndexed'
  <2> SUFFICES ASSUME "disk" \notin Faults, NEW o \in OrdId
               PROVE  /\ \A b \in Batch, d \in LiveDir :
                           Submit(o) \in Items(lines[b][d]) => index'[o] = b
                      /\ Submit(o) \in Items(buf') => index'[o] = out'[1]
    BY <1>1 DEF SubmitsIndexed
  <2>1. /\ \A b \in Batch, d \in LiveDir :
             Submit(o) \in Items(lines[b][d]) => index[o] = b
        /\ Submit(o) \in Items(buf) => index[o] = out[1]
    BY <1>1 DEF HomeInv, SubmitsIndexed
  <2>2. Submit(o).ord = o /\ Submit(wo).ord = wo
    BY DEF Submit
  <2>3. \A b \in Batch, d \in LiveDir : Submit(o) \in Items(lines[b][d]) => index'[o] = b
    BY <1>1, <2>1, DrainAssumption
  <2>4. ASSUME Submit(o) \in Items(buf') PROVE index'[o] = out'[1]
    <3>1. CASE o = wo
      <4>1. out' # <<>>
        <5>1. DrainTypeOK'
          BY TypeStep DEF Next, Worker
        <5> QED BY <2>4, <5>1, ItemsOfNone DEF DrainTypeOK
      <4> QED BY <1>1, <1>6, <3>1, <4>1
    <3>2. CASE o # wo
      <4>1. Submit(o) \in Items(buf)
        BY <1>6, <2>2, <2>4, <3>2
      <4>2. out # <<>>
        BY <1>6, <4>1
      <4> QED BY <1>1, <1>6, <2>1, <3>2, <4>1, <4>2
    <3> QED BY <3>1, <3>2
  <2> QED BY <2>3, <2>4
<1> QED BY <1>2, <1>3, <1>5, <1>7, <1>8 DEF HomeInv

(* A batch that is moved has its record, if any, in pending/ only.         *)
LEMMA MoveRecordHome ==
    ASSUME DrainTypeOK, RecordInv, LockInv, HomeInv, MoveRecord
    PROVE  HomeInv'
<1>1. /\ wb \in Batch /\ at[wb] \in LiveDir /\ "pending" \in LiveDir
      /\ dirs[wb] \subseteq {"pending"}
      /\ wpc' = "idle" /\ out = <<>> /\ buf = <<>>
      /\ UNCHANGED <<placed, dpc, index, byBatch, out, buf>>
  BY DEF MoveRecord, DrainTypeOK, RecordInv, LockInv, LiveDir, brokerVars, drainVars
<1>2. CASE UNCHANGED <<dirs, lines>>
  BY <1>1, <1>2, HomeUntouched DEF Working
<1>3. CASE ~UNCHANGED <<dirs, lines>>
  <2>1. \A b \in Batch : dirs'[b] = IF b # wb THEN dirs[b]
                                  ELSE IF dirs[b] = {} THEN {} ELSE {at[b]}
    BY <1>1, <1>3, MoveRecordEffect DEF DrainTypeOK
  <2>2. \A b \in Batch, d \in LiveDir : lines'[b][d] =
            IF b # wb THEN lines[b][d]
            ELSE IF d = at[b] THEN lines[b]["pending"]
            ELSE IF d = "pending" THEN <<>> ELSE lines[b][d]
    BY <1>3, MoveRecordEffect
  <2>3. \A d \in LiveDir : lines[wb][d] # <<>> => d = "pending" /\ dirs[wb] # {}
    BY <1>1 DEF HomeInv, LinesHome
  <2>4. ASSUME NEW b \in Batch, NEW d \in LiveDir
        PROVE  \/ lines'[b][d] = <<>>
               \/ \E c \in LiveDir : lines'[b][d] = lines[b][c] /\ d \in dirs'[b]
    <3>1. CASE b # wb
      <4>1. lines'[b][d] = lines[b][d] /\ dirs'[b] = dirs[b]
        BY <2>1, <2>2, <3>1
      <4> QED BY <4>1 DEF HomeInv, LinesHome
    <3>2. CASE b = wb /\ d = at[b]
      <4>1. lines'[b][d] = lines[b]["pending"]
        BY <2>2, <3>2
      <4>2. lines[b]["pending"] # <<>> => dirs'[b] = {d}
        BY <1>1, <2>1, <2>3, <3>2
      <4> QED BY <1>1, <4>1, <4>2
    <3>3. CASE b = wb /\ d # at[b] /\ d = "pending"
      BY <2>2, <3>3
    <3>4. CASE b = wb /\ d # at[b] /\ d # "pending"
      BY <2>2, <2>3, <3>4
    <3> QED BY <3>1, <3>2, <3>3, <3>4
  <2>5. LinesHome'
    BY <1>1, <2>4, ItemsOfNone DEF HomeInv, LinesHome
  <2>6. SubmitsIndexed'
    BY <1>1, <2>4, ItemsOfNone DEF HomeInv, SubmitsIndexed, Working
  <2>7. IndexHome' /\ GroupsHome' /\ BufHome'
    BY <1>1 DEF HomeInv, IndexHome, GroupsHome, BufHome
  <2> QED BY <2>5, <2>6, <2>7 DEF HomeInv
<1> QED BY <1>2, <1>3

LEMMA WorkerHome ==
    ASSUME DrainTypeOK, RecordInv, LockInv, HomeInv, Worker
    PROVE  HomeInv'
<1>1. CASE \/ \E b \in Batch : StartCycle(b)
           \/ OrderUnanswered \/ EndCycle
           \/ \E d \in {"finished", "expired"} : MoveDocument(d)
  <2>1. /\ UNCHANGED <<placed, index, byBatch, dirs, lines, out, buf, dpc>>
        /\ wpc' # "placed"
    BY <1>1 DEF StartCycle, OrderUnanswered, EndCycle, MoveDocument,
                brokerVars, drainVars, fileVars
  <2> QED BY <2>1, HomeUntouched DEF Working
<1>2. CASE \E o \in OrdId : PlaceOrder(o)
  <2>1. PICK o \in OrdId : PlaceOrder(o)
    BY <1>2
  <2>2. /\ placed[o] = NoBatch /\ placed' = [placed EXCEPT ![o] = wb]
        /\ wb \in Batch /\ wb' = wb /\ wo' = o /\ NoBatch \notin Batch
        /\ UNCHANGED <<dpc, index, byBatch, dirs, lines, out, buf>>
        /\ placed \in [OrdId -> Batch \cup {NoBatch}]
    BY <2>1, DrainAssumption
       DEF PlaceOrder, DrainTypeOK, drainVars, fileVars
  <2>3. IndexHome'
    BY <2>2 DEF HomeInv, IndexHome
  <2>4. LinesHome'
    <3> SUFFICES ASSUME NEW b \in Batch, NEW d \in LiveDir, NEW x \in Items(lines[b][d])
                 PROVE  placed'[x.ord] = b
      BY <2>2 DEF HomeInv, LinesHome
    <3>1. placed[x.ord] = b /\ x \in Line
      BY ItemsTyped DEF HomeInv, LinesHome, DrainTypeOK
    <3> QED BY <2>2, <3>1 DEF Line
  <2>5. BufHome'
    <3> SUFFICES ASSUME out # <<>>, NEW x \in Items(buf)
                 PROVE  placed'[x.ord] = out[1]
      BY <2>2 DEF HomeInv, BufHome
    <3>1. placed[x.ord] = out[1] /\ x \in Line /\ out[1] \in Batch
      BY ItemsTyped DEF HomeInv, BufHome, DrainTypeOK
    <3> QED BY <2>2, <3>1 DEF Line
  <2>6. GroupsHome' /\ SubmitsIndexed'
    BY <2>2 DEF HomeInv, GroupsHome, SubmitsIndexed, Working
  <2> QED BY <2>3, <2>4, <2>5, <2>6 DEF HomeInv
<1>3. CASE RegisterOrder
  BY <1>3, RegisterHome
<1>4. CASE CloseSession
  <2>1. CloseFile /\ UNCHANGED <<placed, index, byBatch, dirs, dpc>> /\ wpc' = "decide"
    BY <1>4 DEF CloseSession, brokerVars, drainVars
  <2> QED BY <2>1, CloseFileHome DEF Working
<1>5. CASE CloseRaises
  <2>1. /\ UNCHANGED <<placed, index, byBatch, dirs, lines, dpc>> /\ wpc' = "idle"
        /\ out' = <<>> /\ buf' = <<>>
    BY <1>5 DEF CloseRaises, brokerVars, drainVars
  <2> QED BY <2>1, HomeFlushed, ItemsOfNone DEF Working
<1>6. CASE MoveRecord
  BY <1>6, MoveRecordHome
<1> QED BY <1>1, <1>2, <1>3, <1>4, <1>5, <1>6 DEF Worker

LEMMA SpillHome == ASSUME DrainTypeOK, HomeInv, Spill PROVE HomeInv'
<1>1. UNCHANGED <<placed, index, byBatch, dirs, wpc, wb, wo, dpc>>
  BY DEF Spill, brokerVars, drainVars, workerVars
<1>2. buf \in Seq(Line) /\ buf # <<>> /\ buf' = Tail(buf) /\ out' = out
  BY DEF Spill, DrainTypeOK
<1>3. Items(buf') \subseteq Items(buf) /\ Head(buf) \in Items(buf) /\ Head(buf) \in Line
  BY <1>2, ItemsOfTail, HeadTailProperties
<1>4. ASSUME NEW b \in Batch, NEW d \in LiveDir, out = <<b, d>>
      PROVE  Items(lines'[b][d]) \subseteq Items(lines[b][d]) \cup Items(buf)
  <2>1. lines[b][d] \in Seq(Line)
    BY DEF DrainTypeOK
  <2>2. lines'[b][d] = Append(lines[b][d], Head(buf))
    BY <1>4, SpillEffect
  <2> QED BY <1>3, <2>1, <2>2, ItemsOfAppend
<1>5. \A b \in Batch, d \in LiveDir : out # <<b, d>> => lines'[b][d] = lines[b][d]
  BY SpillEffect
<1> QED BY <1>1, <1>2, <1>3, <1>4, <1>5, HomeFlushed DEF Working

(* A scan finds submit lines that are on disk, and without a read error    *)
(* all of them.                                                            *)
LEMMA ScansFind ==
    ASSUME NEW b \in Batch, NEW ids \in Scans(b), NEW o \in OrdId
    PROVE  /\ o \in ids => SubmitOnDisk(o, b)
           /\ "disk" \notin Faults /\ SubmitOnDisk(o, b) => o \in ids
<1>1. ids = OnRecord(b) \/ ("disk" \in Faults /\ \E n : ids = ReadUpTo(b, n))
  BY DEF Scans
<1>2. \A n : o \in ReadUpTo(b, n) => SubmitOnDisk(o, b)
  BY DEF ReadUpTo, SubmitOnDisk
<1> QED BY <1>1, <1>2 DEF OnRecord

(* rebuild_clord_index finds the batch an order was placed for.            *)
LEMMA RebuiltIsHome ==
    ASSUME DrainTypeOK, LinesHome, NEW o \in OrdId,
           NEW found, \A b \in Batch : found[b] \in Scans(b)
    PROVE  /\ Rebuilt(found, o) \in {NoBatch, placed[o]}
           /\ \A b \in Batch : Rebuilt(found, o) = b => SubmitOnDisk(o, b)
           /\ "disk" \notin Faults => \A b \in Batch, d \in LiveDir :
                Submit(o) \in Items(lines[b][d]) => Rebuilt(found, o) = b
<1>0. \A b \in Batch : /\ o \in found[b] => SubmitOnDisk(o, b)
                       /\ "disk" \notin Faults /\ SubmitOnDisk(o, b) => o \in found[b]
  BY ScansFind
<1>1. ASSUME NEW b \in Batch, SubmitOnDisk(o, b) PROVE placed[o] = b
  <2>1. PICK d \in dirs[b] : \E i \in 1..Len(lines[b][d]) : lines[b][d][i] = Submit(o)
    BY <1>1 DEF SubmitOnDisk
  <2>2. d \in LiveDir /\ Submit(o) \in Items(lines[b][d])
    BY <2>1 DEF DrainTypeOK, Items
  <2> QED BY <2>2 DEF LinesHome, Submit
<1>2. ASSUME NEW b \in Batch, NEW d \in LiveDir, Submit(o) \in Items(lines[b][d])
      PROVE  SubmitOnDisk(o, b)
  <2>1. PICK i \in 1..Len(lines[b][d]) : lines[b][d][i] = Submit(o)
    BY <1>2 DEF Items
  <2>2. lines[b][d] # <<>>
    BY <1>2, ItemsOfNone
  <2> QED BY <2>1, <2>2 DEF LinesHome, SubmitOnDisk
<1>3. CASE \E b \in Batch : o \in found[b]
  <2>1. Rebuilt(found, o) \in Batch /\ o \in found[Rebuilt(found, o)]
    BY <1>3 DEF Rebuilt
  <2> QED BY <1>0, <1>1, <1>2, <2>1
<1>4. CASE ~\E b \in Batch : o \in found[b]
  BY <1>0, <1>2, <1>4, DrainAssumption DEF Rebuilt
<1> QED BY <1>3, <1>4

LEMMA ProcessHome ==
    ASSUME DrainTypeOK, LockInv, HomeInv, Process
    PROVE  HomeInv'
<1>1. CASE Shutdown \/ Connect
  <2>1. /\ UNCHANGED <<placed, index, byBatch, dirs, lines, out, buf, wpc, wb, wo>>
        /\ Working' => Working
    BY <1>1 DEF Shutdown, Connect, Working, brokerVars, drainVars, workerVars, fileVars
  <2> QED BY <2>1, HomeUntouched
<1>2. CASE Crash
  <2>1. /\ wpc' = "idle" /\ ~Working' /\ out' = <<>>
        /\ \A o \in OrdId : index'[o] = NoBatch
        /\ \A b \in Batch : byBatch'[b] = <<>>
        /\ UNCHANGED <<placed, dirs, lines>>
    BY <1>2 DEF Crash, Working, brokerVars
  <2>2. IndexHome' /\ LinesHome' /\ BufHome' /\ SubmitsIndexed'
    BY <2>1 DEF HomeInv, IndexHome, LinesHome, BufHome, SubmitsIndexed
  <2>3. GroupsHome'
    BY <2>1, ItemsOfNone DEF GroupsHome
  <2> QED BY <2>2, <2>3 DEF HomeInv
<1>3. CASE InitProcess
  <2>0. PICK found \in [Batch -> SUBSET OrdId] :
          /\ \A b \in Batch : found[b] \in Scans(b)
          /\ index' = [o \in OrdId |-> Rebuilt(found, o)]
    BY <1>3 DEF InitProcess
  <2>1. /\ wpc = "idle" /\ wpc' = "idle" /\ out = <<>> /\ buf = <<>>
        /\ \A b \in Batch : byBatch[b] = <<>>
        /\ \A o \in OrdId : index'[o] = Rebuilt(found, o)
        /\ UNCHANGED <<placed, byBatch, dirs, lines, out, buf>>
    BY <1>3, <2>0 DEF InitProcess, LockInv, DrainTypeOK, brokerVars, workerVars, fileVars
  <2>2. LinesHome /\ LinesHome' /\ BufHome'
    BY <2>1 DEF HomeInv, LinesHome, BufHome
  <2>3. GroupsHome'
    BY <2>1, ItemsOfNone DEF GroupsHome
  <2>4. IndexHome' /\ SubmitsIndexed'
    BY <2>0, <2>1, <2>2, RebuiltIsHome, ItemsOfNone DEF IndexHome, SubmitsIndexed
  <2> QED BY <2>2, <2>3, <2>4 DEF HomeInv
<1> QED BY <1>1, <1>2, <1>3 DEF Process

DrainInv == DrainTypeOK /\ RecordInv /\ LockInv /\ HomeInv

LEMMA InitDrainInv == Init => DrainInv
BY InitType, RecordInit, InitLock, InitHome DEF DrainInv

LEMMA NextDrainInv == DrainInv /\ [Next]_vars => DrainInv'
<1> SUFFICES ASSUME DrainInv, [Next]_vars PROVE DrainInv'
  OBVIOUS
<1> USE DEF DrainInv
<1>1. DrainTypeOK' /\ RecordInv' /\ LockInv'
  BY TypeStep, RecordStep, LockStep
<1>2. CASE UNCHANGED vars
  <2>1. UNCHANGED <<placed, index, byBatch, dirs, lines, out, buf, wpc, wb, wo, dpc>>
    BY <1>2 DEF vars, brokerVars, drainVars, workerVars, fileVars
  <2>2. HomeInv'
    BY <2>1, HomeUntouched DEF Working
  <2> QED BY <1>1, <2>2
<1> QED BY <1>1, <1>2, SDKHome, DrainHome, WorkerHome, SpillHome, ProcessHome DEF Next

(* An order's lines are in the record of the batch it was placed for and   *)
(* nowhere else: whatever is interleaved, lost or moved, the drain never   *)
(* writes an event into another batch's record, nor the worker a submit.   *)
THEOREM AtHome == Spec => []LinesAreAtHome
<1>1. DrainInv => LinesAreAtHome
  BY DEF DrainInv, HomeInv, LinesHome, LinesAreAtHome, Items
<1> QED BY InitDrainInv, NextDrainInv, <1>1, PTL DEF Spec

(* A running process knows the batch of every recorded order.              *)
LEMMA RecordedIsKnown ==
    ASSUME "disk" \notin Faults, DrainInv, Working, NEW o \in OrdId, NEW b \in Batch,
           SubmitOnDisk(o, b)
    PROVE  index[o] = b /\ dirs[b] # {}
<1>1. PICK d \in dirs[b] : \E i \in 1..Len(lines[b][d]) : lines[b][d][i] = Submit(o)
  BY DEF SubmitOnDisk
<1>2. d \in LiveDir /\ Submit(o) \in Items(lines[b][d])
  BY <1>1 DEF DrainInv, DrainTypeOK, Items
<1> QED BY <1>1, <1>2 DEF DrainInv, HomeInv, SubmitsIndexed

(* A step that drops events finds no submit line of their orders.          *)
LEMMA DropStep ==
    ASSUME "disk" \notin Faults, DrainInv, [Next]_vars, dpc' # "down"
    PROVE  /\ dpc = "resolve" /\ events' # events /\ byBatch' = byBatch =>
                Unrecorded(Head(events).ord)
           /\ \A b \in Batch : dirs[b] = {} /\ byBatch'[b] = <<>> =>
                \A i \in 1..Len(byBatch[b]) : Unrecorded(byBatch[b][i].ord)
<1> USE DEF DrainInv
<1>1. ASSUME Working, NEW o \in OrdId, NEW b \in Batch, SubmitOnDisk(o, b)
      PROVE  index[o] = b /\ dirs[b] # {}
  BY <1>1, RecordedIsKnown
<1>2. ASSUME dpc = "resolve", events' # events, byBatch' = byBatch
      PROVE  Unrecorded(Head(events).ord)
  <2> DEFINE e == Head(events)
  <2>1. ResolveEvent
    <3>1. ~Worker /\ ~UNCHANGED vars /\ ~SDK /\ ~Spill
      BY <1>2 DEF vars, drainVars, SDK, Deliver, Replay, Spill, Worker, StartCycle,
         PlaceOrder, RegisterOrder, OrderUnanswered, CloseSession, CloseRaises,
         EndCycle, MoveDocument, MoveRecord
    <3>2. ~Process
      BY <1>2 DEF drainVars, Process, Shutdown, Crash, Connect, InitProcess
    <3>3. Drain
      BY <3>1, <3>2 DEF Next
    <3> QED BY <1>2, <3>3 DEF Drain, GetEvent, Collect, TakeLock, NoRecord,
         WriteGroup, CloseGroup, GroupRaises, EndPass
  <2>2. e \in Event /\ index[e.ord] \in Batch \cup {NoBatch}
    BY <2>1, ResolveEffect DEF DrainTypeOK, Event
  <2>3. ASSUME NEW b \in Batch, b = index[e.ord] PROVE FALSE
    <3>1. byBatch[b] = Append(byBatch[b], e) /\ byBatch[b] \in Seq(Event)
      BY <1>2, <2>1, <2>3, ResolveEffect DEF DrainTypeOK
    <3>2. Len(byBatch[b]) = Len(byBatch[b]) + 1 /\ Len(byBatch[b]) \in Nat
      BY <2>2, <3>1, AppendProperties, LenProperties
    <3> QED BY <3>2
  <2>4. index[e.ord] = NoBatch /\ Working /\ NoBatch \notin Batch
    BY <1>2, <2>2, <2>3, DrainAssumption DEF Working
  <2> QED BY <1>1, <2>2, <2>4 DEF Unrecorded, Event
<1>3. ASSUME NEW b \in Batch, dirs[b] = {}, NEW i \in 1..Len(byBatch[b])
      PROVE  Unrecorded(byBatch[b][i].ord)
  <2> DEFINE o == byBatch[b][i].ord
  <2>1. byBatch[b][i] \in Items(byBatch[b]) /\ byBatch[b][i] \in Event
    BY ElementOfSeq DEF Items, DrainTypeOK
  <2>2. o \in OrdId /\ index[o] = b
    BY <2>1 DEF HomeInv, GroupsHome, Event
  <2>3. Working
    BY <2>1, ItemsOfNone DEF LockInv, Working
  <2> HIDE DEF o
  <2>4. Unrecorded(o)
    BY <1>1, <1>3, <2>2, <2>3 DEF Unrecorded
  <2> QED BY <2>4 DEF o
<1> QED BY <1>2, <1>3

(* Without failing disk operations, the events the drain drops, as foreign *)
(* or for want of a record, belong to orders whose submit line is in no    *)
(* record: a restart rebuilds the index from exactly those lines before    *)
(* the drain runs, and the lock keeps an order that is just being placed   *)
(* out of the pass.                                                        *)
THEOREM DropsNothingRecorded ==
    ASSUME "disk" \notin Faults
    PROVE  Spec => DroppedIsUnrecorded
<1>1. DrainInv /\ [Next]_vars =>
        [dpc' # "down" =>
           /\ dpc = "resolve" /\ events' # events /\ byBatch' = byBatch =>
                Unrecorded(Head(events).ord)
           /\ \A b \in Batch : dirs[b] = {} /\ byBatch'[b] = <<>> =>
                \A i \in 1..Len(byBatch[b]) : Unrecorded(byBatch[b][i].ord)]_vars
  BY DropStep
<1> QED BY InitDrainInv, NextDrainInv, <1>1, PTL DEF Spec, DroppedIsUnrecorded

-----------------------------------------------------------------------------
(* A group leaves byBatch one at a time, into a session or for want of a   *)
(* record.                                                                 *)

LEMMA SuffixOfConcat ==
    ASSUME NEW S, NEW s \in Seq(S), NEW t \in Seq(S)
    PROVE  IsSuffix(t, s \o t)
<1> DEFINE u == s \o t
           m == Len(s)
           n == Len(t)
<1>1. /\ m \in Nat /\ n \in Nat /\ Len(u) = m + n
      /\ \A i \in m + 1..m + n : u[i] = t[i - m]
  BY ConcatProperties, LenProperties
<1> HIDE DEF u, m, n
<1>2. ASSUME NEW i \in 1..n PROVE u[(m + n - i) + 1] = t[(n - i) + 1]
  BY <1>1
<1> DEFINE rt == [i \in 1..n |-> t[(n - i) + 1]]
           ru == [i \in 1..m + n |-> u[(m + n - i) + 1]]
<1>3. Len(rt) = n /\ Len(ru) = m + n /\ \A i \in 1..n : ru[i] = rt[i]
  BY <1>1, <1>2
<1>4. Reverse(t) = rt /\ Reverse(u) = ru
  BY <1>1 DEF Reverse, n
<1> HIDE DEF rt, ru
<1>5. SubSeq(rt, 1, n) = SubSeq(ru, 1, n)
  BY <1>1, <1>3
<1> QED BY <1>1, <1>3, <1>4, <1>5 DEF IsSuffix, IsPrefix, u, n

LEMMA GroupStep ==
    ASSUME DrainTypeOK, [Next]_vars, dpc' # "down",
           NEW b \in Batch, byBatch[b] # <<>>, byBatch'[b] = <<>>
    PROVE  \/ dirs[b] = {}
           \/ out' # <<>> /\ out'[1] = b /\ IsSuffix(byBatch[b], buf')
<1> DEFINE Goal == \/ dirs[b] = {}
                   \/ out' # <<>> /\ out'[1] = b /\ IsSuffix(byBatch[b], buf')
<1>0. byBatch' # byBatch
  OBVIOUS
<1>1. CASE ResolveEvent
  <2> DEFINE e == Head(events)
  <2>1. e \in Event /\ byBatch[b] \in Seq(Event)
    BY <1>1, ResolveEffect DEF DrainTypeOK
  <2>2. byBatch'[b] = byBatch[b] \/ byBatch'[b] = Append(byBatch[b], e)
    BY <1>1, ResolveEffect DEF ResolveEvent, Grouped, DrainTypeOK
  <2>3. Append(byBatch[b], e) # <<>>
    BY <2>1
  <2> QED BY <2>2, <2>3
<1>2. CASE \E c \in Batch : NoRecord(c)
  BY <1>2 DEF NoRecord, Done, DrainTypeOK
<1>3. CASE \E c \in Batch : WriteGroup(c)
  <2>1. PICK c \in Batch : WriteGroup(c)
    BY <1>3
  <2>2. /\ c = b /\ buf' = buf \o byBatch[b]
        /\ out' = <<b, Located(b)>>
    BY <2>1 DEF WriteGroup, Done, AppendTo, DrainTypeOK
  <2>3. buf \in Seq(Line) /\ byBatch[b] \in Seq(Line)
    <3>1. Event \subseteq Line
      BY DrainAssumption DEF Event, Line
    <3> QED BY <3>1 DEF DrainTypeOK
  <2> QED BY <2>2, <2>3, SuffixOfConcat
<1>4. CASE Crash
  BY <1>4 DEF Crash
<1>5. ~Worker /\ ~SDK /\ ~Spill /\ ~UNCHANGED vars
  BY <1>0 DEF vars, drainVars, SDK, Deliver, Replay, Spill, Worker, StartCycle,
     PlaceOrder, RegisterOrder, OrderUnanswered, CloseSession, CloseRaises,
     EndCycle, MoveDocument, MoveRecord
<1>6. ~Shutdown /\ ~Connect /\ ~InitProcess
  BY <1>0 DEF Shutdown, Connect, InitProcess, drainVars
<1>7. ~GetEvent /\ ~Collect /\ ~TakeLock /\ ~CloseGroup /\ ~GroupRaises /\ ~EndPass
  BY <1>0 DEF GetEvent, Collect, TakeLock, CloseGroup, GroupRaises, EndPass
<1> QED BY <1>1, <1>2, <1>3, <1>4, <1>5, <1>6, <1>7 DEF Next, Drain, Process

(* Under every fault, a group of events is handed whole to a session of    *)
(* its own batch, or dropped because the batch has no record: a write that *)
(* raises takes no other group of the pass with it.                        *)
THEOREM GroupsKeepApart == Spec => GroupsStandAlone
<1>1. DrainTypeOK /\ [Next]_vars =>
        [dpc' # "down" => \A b \in Batch : byBatch[b] # <<>> /\ byBatch'[b] = <<>> =>
           \/ dirs[b] = {}
           \/ out' # <<>> /\ out'[1] = b /\ IsSuffix(byBatch[b], buf')]_vars
  BY GroupStep
<1>2. DrainTypeOK /\ [Next]_vars => DrainTypeOK'
  BY TypeStep
<1> QED BY InitType, <1>1, <1>2, PTL DEF Spec, GroupsStandAlone

-----------------------------------------------------------------------------
(* Without failing writes, the record, the session, the groups, the pass   *)
(* and the queue hold, one after the other, one account of each order the  *)
(* index knows.                                                            *)

(* The record of b in d, with what the open session still has to write,    *)
(* takes o to number k.                                                    *)
Recorded(b, d, o, k) == \E m \in Number :
    /\ Account(lines[b][d], o, -1, m)
    /\ IF out = <<b, d>> THEN Account(buf, o, m, k) ELSE k = m

(* The pass and the queue go on from number k, up to what the broker has   *)
(* sent last, unless it starts anew.                                       *)
Pending(o, k) == \E k1, k2 \in 0..Events :
    /\ Account(events, o, k, k1) /\ Account(queue, o, k1, k2)
    /\ sent[o] \in {k2, 0}

RecordsAccount == \A b \in Batch, d \in LiveDir, o \in OrdId :
    \E k \in Number : Recorded(b, d, o, k)

UnknownHasNoLine == Working => \A b \in Batch, d \in LiveDir, o \in OrdId :
    index[o] # b => Recorded(b, d, o, -1)

KnownGoesOn == \A o \in OrdId, b \in Batch : index[o] = b =>
    \E d \in dirs[b], k, k1 \in 0..Events :
        Recorded(b, d, o, k) /\ Account(byBatch[b], o, k, k1) /\ Pending(o, k1)

(* An order that may still be registered has lost no event so far.         *)
MayRegister(o) == \/ dpc = "unstarted"
                  \/ Working /\ placed[o] = NoBatch
                  \/ wpc = "placed" /\ wo = o

StillAhead == \A o \in OrdId : MayRegister(o) => Pending(o, 0)

EventsPlaced ==
    /\ \A x \in Items(events) : placed[x.ord] # NoBatch
    /\ \A x \in Items(queue) : x # Stop => placed[x.ord] # NoBatch

FaithInv == /\ RecordsAccount /\ UnknownHasNoLine /\ KnownGoesOn
            /\ StillAhead /\ EventsPlaced

LEMMA Numbers ==
    /\ 0..Events \subseteq Number /\ -1 \in Number /\ 0 \in 0..Events
    /\ \A x \in Line : x.n \in 0..Events
    /\ \A x \in Event : x.n \in 0..Events /\ x.ord \in OrdId
    /\ \A o \in OrdId : Stop.ord # o
    /\ \A o \in OrdId : Submit(o).ord = o /\ Submit(o).n = 0
    /\ Stop \notin Event
BY DrainAssumption DEF Number, Line, Event, Stop, Submit

LEMMA NoneLeadsNowhere ==
    ASSUME NEW o, NEW k, NEW k1, Account(<<>>, o, k, k1)
    PROVE  k1 = k
BY DEF Account, LastNumber

(* The first of t goes to the end of s.                                    *)
LEMMA AccountMoves ==
    ASSUME NEW S, NEW s \in Seq(S), NEW t \in Seq(S), t # <<>>, NEW o,
           NEW k, NEW k1 \in Number, NEW k2,
           Account(s, o, k, k1), Account(t, o, k1, k2)
    PROVE  /\ Account(Append(s, Head(t)), o, k, After(Head(t), o, k1))
           /\ Account(Tail(t), o, After(Head(t), o, k1), k2)
<1>1. Head(t) \in S
  BY HeadTailProperties
<1>2. Head(t).ord = o => Follows(k1, Head(t).n)
  BY AccountOfTail
<1> QED BY <1>1, <1>2, AccountOfTail, AccountAppends

LEMMA AccountSkips ==
    ASSUME NEW S, NEW t \in Seq(S), t # <<>>, NEW o, NEW k, NEW k1,
           Account(t, o, k, k1), Head(t).ord # o
    PROVE  Account(Tail(t), o, k, k1)
BY AccountOfTail DEF After

-----------------------------------------------------------------------------
(* Steps that carry what is recorded and pending along.                    *)

LEMMA FaithCarried ==
    ASSUME FaithInv, UNCHANGED <<index, byBatch, dirs>>, Working' => Working,
           \A b \in Batch, d \in LiveDir, o \in OrdId, k \in Number :
             Recorded(b, d, o, k) => Recorded(b, d, o, k)',
           \A o \in OrdId, k \in 0..Events : Pending(o, k) => Pending(o, k)',
           \A o \in OrdId : MayRegister(o)' => MayRegister(o),
           EventsPlaced', DrainTypeOK
    PROVE  FaithInv'
<1>1. RecordsAccount'
  BY DEF FaithInv, RecordsAccount
<1>2. UnknownHasNoLine'
  BY Numbers DEF FaithInv, UnknownHasNoLine
<1>3. KnownGoesOn'
  <2> SUFFICES ASSUME NEW o \in OrdId, NEW b \in Batch, index[o] = b
               PROVE  \E d \in dirs[b], k, k1 \in 0..Events :
                        /\ Recorded(b, d, o, k)' /\ Account(byBatch[b], o, k, k1)
                        /\ Pending(o, k1)'
    BY DEF KnownGoesOn
  <2>1. PICK d \in dirs[b], k \in 0..Events, k1 \in 0..Events :
            Recorded(b, d, o, k) /\ Account(byBatch[b], o, k, k1) /\ Pending(o, k1)
    BY DEF FaithInv, KnownGoesOn
  <2>2. d \in LiveDir /\ k \in Number
    BY <2>1, Numbers DEF DrainTypeOK
  <2> QED BY <2>1, <2>2
<1>4. StillAhead'
  BY Numbers DEF FaithInv, StillAhead
<1> QED BY <1>1, <1>2, <1>3, <1>4 DEF FaithInv

LEMMA RecordedSame ==
    ASSUME UNCHANGED <<lines, out, buf>>
    PROVE  \A b \in Batch, d \in LiveDir, o \in OrdId, k \in Number :
             Recorded(b, d, o, k) => Recorded(b, d, o, k)'
BY DEF Recorded

LEMMA RecordedClosed ==
    ASSUME DrainTypeOK, CloseFile
    PROVE  \A b \in Batch, d \in LiveDir, o \in OrdId, k \in Number :
             Recorded(b, d, o, k) => Recorded(b, d, o, k)'
<1> SUFFICES ASSUME NEW b \in Batch, NEW d \in LiveDir, NEW o \in OrdId,
                    NEW k \in Number, Recorded(b, d, o, k)
             PROVE  Recorded(b, d, o, k)'
  OBVIOUS
<1>1. PICK m \in Number : /\ Account(lines[b][d], o, -1, m)
                          /\ IF out = <<b, d>> THEN Account(buf, o, m, k) ELSE k = m
  BY DEF Recorded
<1>2. lines[b][d] \in Seq(Line) /\ buf \in Seq(Line)
  BY DEF DrainTypeOK
<1>3. /\ lines'[b][d] = IF out = <<b, d>> THEN lines[b][d] \o buf ELSE lines[b][d]
      /\ out' = <<>>
  BY CloseFileEffect
<1>4. Account(lines'[b][d], o, -1, k)
  BY <1>1, <1>2, <1>3, AccountJoins
<1> QED BY <1>3, <1>4 DEF Recorded

LEMMA RecordedSpilt ==
    ASSUME DrainTypeOK, Spill
    PROVE  \A b \in Batch, d \in LiveDir, o \in OrdId, k \in Number :
             Recorded(b, d, o, k) => Recorded(b, d, o, k)'
<1> SUFFICES ASSUME NEW b \in Batch, NEW d \in LiveDir, NEW o \in OrdId,
                    NEW k \in Number, Recorded(b, d, o, k)
             PROVE  Recorded(b, d, o, k)'
  OBVIOUS
<1>1. PICK m \in Number : /\ Account(lines[b][d], o, -1, m)
                          /\ IF out = <<b, d>> THEN Account(buf, o, m, k) ELSE k = m
  BY DEF Recorded
<1>2. lines[b][d] \in Seq(Line) /\ buf \in Seq(Line) /\ buf # <<>>
  BY DEF DrainTypeOK, Spill
<1>3. /\ lines'[b][d] = IF out = <<b, d>> THEN Append(lines[b][d], Head(buf))
                        ELSE lines[b][d]
      /\ buf' = Tail(buf) /\ out' = out
  BY SpillEffect
<1>4. CASE out = <<b, d>>
  <2> DEFINE m1 == After(Head(buf), o, m)
  <2>1. Head(buf) \in Line
    BY <1>2, HeadTailProperties
  <2>2. m1 \in Number
    BY <2>1, Numbers DEF After
  <2>3. Account(lines'[b][d], o, -1, m1) /\ Account(buf', o, m1, k)
    BY <1>1, <1>2, <1>3, <1>4, AccountMoves
  <2> HIDE DEF m1
  <2> QED BY <1>3, <1>4, <2>2, <2>3 DEF Recorded
<1>5. CASE out # <<b, d>>
  BY <1>1, <1>3, <1>5 DEF Recorded
<1> QED BY <1>4, <1>5

LEMMA PendingSame ==
    ASSUME UNCHANGED <<events, queue, sent>>
    PROVE  \A o \in OrdId, k \in 0..Events : Pending(o, k) => Pending(o, k)'
BY DEF Pending

(* What the broker sends next follows what it has sent last, or starts     *)
(* again from the first.                                                   *)
LEMMA PendingSDK ==
    ASSUME DrainTypeOK, SDK
    PROVE  \A o \in OrdId, k \in 0..Events : Pending(o, k) => Pending(o, k)'
<1> SUFFICES ASSUME NEW o \in OrdId, NEW k \in 0..Events, Pending(o, k)
             PROVE  Pending(o, k)'
  OBVIOUS
<1>1. PICK k1 \in 0..Events, k2 \in 0..Events :
        /\ Account(events, o, k, k1) /\ Account(queue, o, k1, k2)
        /\ sent[o] \in {k2, 0}
  BY DEF Pending
<1>2. CASE Replay
  BY <1>1, <1>2 DEF Replay, Pending, drainVars
<1>3. CASE \E p \in OrdId : Deliver(p)
  <2>1. PICK p \in OrdId : Deliver(p)
    BY <1>3
  <2> DEFINE e == [ord |-> p, n |-> sent[p] + 1]
             k3 == After(e, o, k2)
  <2>2. /\ sent[p] \in 0..Events /\ sent[p] < Events /\ Events \in Nat
        /\ queue \in Seq(Event \cup {Stop})
        /\ sent \in [OrdId -> 0..Events]
    BY <2>1, DrainAssumption DEF Deliver, DrainTypeOK
  <2>3. /\ sent' = [sent EXCEPT ![p] = @ + 1] /\ queue' = Append(queue, e)
        /\ events' = events
    BY <2>1 DEF Deliver, drainVars
  <2>4. e \in Event \cup {Stop} /\ e.ord = p /\ e.n = sent[p] + 1
    BY <2>2 DEF Event
  <2> HIDE DEF e
  <2>5. e.ord = o => Follows(k2, e.n)
    BY <1>1, <2>2, <2>4 DEF Follows
  <2>6. Account(queue', o, k1, k3)
    BY <1>1, <2>2, <2>3, <2>4, <2>5, Numbers, AccountAppends
  <2>7. k3 \in 0..Events /\ sent'[o] \in {k3, 0}
    BY <1>1, <2>2, <2>3, <2>4 DEF After
  <2> HIDE DEF k3
  <2> QED BY <1>1, <2>3, <2>6, <2>7 DEF Pending
<1> QED BY <1>2, <1>3 DEF SDK

(* The drain takes from the front and adds at the end.                     *)
LEMMA CollectEffect ==
    ASSUME LockInv, GetEvent \/ Collect
    PROVE  \/ UNCHANGED <<events, queue>>
           \/ /\ queue # <<>> /\ Head(queue) = Stop
              /\ queue' = Tail(queue) /\ events' = events
           \/ /\ queue # <<>> /\ Head(queue) # Stop
              /\ queue' = Tail(queue) /\ events' = Append(events, Head(queue))
<1>1. CASE GetEvent
  <2>1. events = <<>>
    BY <1>1 DEF GetEvent, LockInv
  <2>2. Append(events, Head(queue)) = <<Head(queue)>>
    BY <2>1
  <2> QED BY <1>1, <2>2 DEF GetEvent
<1>2. CASE Collect
  BY <1>2 DEF Collect
<1> QED BY <1>1, <1>2

LEMMA PendingCollected ==
    ASSUME DrainTypeOK, LockInv, GetEvent \/ Collect
    PROVE  \A o \in OrdId, k \in 0..Events : Pending(o, k) => Pending(o, k)'
<1> SUFFICES ASSUME NEW o \in OrdId, NEW k \in 0..Events, Pending(o, k)
             PROVE  Pending(o, k)'
  OBVIOUS
<1>1. PICK k1 \in 0..Events, k2 \in 0..Events :
        /\ Account(events, o, k, k1) /\ Account(queue, o, k1, k2)
        /\ sent[o] \in {k2, 0}
  BY DEF Pending
<1> DEFINE Q == Event \cup {Stop}
<1>2. events \in Seq(Q) /\ queue \in Seq(Q) /\ sent' = sent
  BY SeqMonotonic DEF DrainTypeOK, GetEvent, Collect, brokerVars
<1>3. \/ UNCHANGED <<events, queue>>
      \/ queue # <<>> /\ Head(queue) = Stop /\ queue' = Tail(queue) /\ events' = events
      \/ /\ queue # <<>> /\ Head(queue) # Stop /\ queue' = Tail(queue)
         /\ events' = Append(events, Head(queue))
  BY CollectEffect
<1>4. CASE UNCHANGED <<events, queue>>
  BY <1>1, <1>2, <1>4 DEF Pending
<1>5. CASE queue # <<>> /\ Head(queue) = Stop /\ queue' = Tail(queue) /\ events' = events
  <2>1. Account(queue', o, k1, k2)
    BY <1>1, <1>2, <1>5, Numbers, AccountSkips
  <2> QED BY <1>1, <1>2, <1>5, <2>1 DEF Pending
<1>6. CASE /\ queue # <<>> /\ Head(queue) # Stop /\ queue' = Tail(queue)
           /\ events' = Append(events, Head(queue))
  <2> DEFINE k3 == After(Head(queue), o, k1)
  <2>1. Head(queue) \in Event
    BY <1>2, <1>6, HeadTailProperties
  <2>2. k3 \in 0..Events
    BY <2>1, Numbers DEF After
  <2>3. Account(events', o, k, k3) /\ Account(queue', o, k3, k2)
    BY <1>1, <1>2, <1>6, Numbers, AccountMoves
  <2> HIDE DEF k3
  <2> QED BY <1>1, <1>2, <2>2, <2>3 DEF Pending
<1> QED BY <1>3, <1>4, <1>5, <1>6

LEMMA PendingShutdown ==
    ASSUME DrainTypeOK, Shutdown
    PROVE  \A o \in OrdId, k \in 0..Events : Pending(o, k) => Pending(o, k)'
<1> SUFFICES ASSUME NEW o \in OrdId, NEW k \in 0..Events, Pending(o, k)
             PROVE  Pending(o, k)'
  OBVIOUS
<1>1. PICK k1 \in 0..Events, k2 \in 0..Events :
        /\ Account(events, o, k, k1) /\ Account(queue, o, k1, k2)
        /\ sent[o] \in {k2, 0}
  BY DEF Pending
<1>2. /\ queue \in Seq(Event \cup {Stop}) /\ queue' = Append(queue, Stop)
      /\ UNCHANGED <<events, sent>>
  BY DEF DrainTypeOK, Shutdown, drainVars, brokerVars
<1>3. After(Stop, o, k2) = k2 /\ Stop.ord # o /\ k2 \in Number
  BY Numbers DEF After
<1>4. Account(queue', o, k1, k2)
  BY <1>1, <1>2, <1>3, AccountAppends
<1> QED BY <1>1, <1>2, <1>4 DEF Pending

(* What waits is about placed orders.                                      *)
LEMMA PlacedWait ==
    ASSUME EventsPlaced, DrainTypeOK,
           \A o \in OrdId : placed[o] # NoBatch => placed'[o] # NoBatch,
           Items(events') \subseteq (Items(events) \cup Items(queue)) \ {Stop},
           \A x \in Items(queue') : \/ x \in Items(queue) \cup {Stop}
                                    \/ placed'[x.ord] # NoBatch
    PROVE  EventsPlaced'
<1>1. Items(events) \subseteq Event /\ Items(queue) \subseteq Event \cup {Stop}
  BY ItemsTyped DEF DrainTypeOK
<1>2. \A x \in Items(events) \cup Items(queue) : x # Stop => placed'[x.ord] # NoBatch
  BY <1>1 DEF EventsPlaced, Event
<1>3. Stop \notin Event
  BY DEF Stop, Event
<1> QED BY <1>1, <1>2, <1>3 DEF EventsPlaced

LEMMA PlacedWaitSame ==
    ASSUME EventsPlaced, DrainTypeOK, UNCHANGED <<events, queue>>,
           \A o \in OrdId : placed[o] # NoBatch => placed'[o] # NoBatch
    PROVE  EventsPlaced'
<1>1. Stop \notin Items(events)
  BY ItemsTyped DEF DrainTypeOK, Stop, Event
<1> QED BY <1>1, PlacedWait

LEMMA PlacedWaitCollected ==
    ASSUME EventsPlaced, DrainTypeOK, LockInv, GetEvent \/ Collect
    PROVE  EventsPlaced'
<1> DEFINE Q == Event \cup {Stop}
<1>0. events \in Seq(Event) /\ queue \in Seq(Q) /\ placed' = placed
  BY DEF DrainTypeOK, GetEvent, Collect, brokerVars
<1>1. events \in Seq(Q) /\ Items(events) \subseteq Event /\ Stop \notin Event
  BY <1>0, SeqMonotonic, ItemsTyped, Numbers
<1>2. CASE UNCHANGED <<events, queue>>
  BY <1>0, <1>2, PlacedWaitSame
<1>3. CASE /\ queue # <<>> /\ queue' = Tail(queue)
           /\ events' = events \/ (/\ Head(queue) # Stop
                                  /\ events' = Append(events, Head(queue)))
  <2>1. Head(queue) \in Items(queue) /\ Items(queue') \subseteq Items(queue)
    BY <1>0, <1>3, ItemsOfTail
  <2>2. Head(queue) \in Q
    BY <1>0, <1>3, HeadTailProperties
  <2>3. Append(events, Head(queue)) \in Seq(Q)
        /\ Items(Append(events, Head(queue))) = Items(events) \cup {Head(queue)}
    BY <1>1, <2>2, ItemsOfAppend
  <2> HIDE DEF Q
  <2>4. Items(events') \subseteq (Items(events) \cup Items(queue)) \ {Stop}
    BY <1>1, <1>3, <2>1, <2>3
  <2> QED BY <1>0, <2>1, <2>4, PlacedWait
<1> QED BY <1>2, <1>3, CollectEffect

LEMMA PlacedWaitSDK ==
    ASSUME EventsPlaced, DrainTypeOK, SDK
    PROVE  EventsPlaced'
<1>1. CASE Replay
  BY <1>1, PlacedWaitSame DEF Replay, drainVars
<1>2. CASE \E o \in OrdId : Deliver(o)
  <2>1. PICK o \in OrdId : Deliver(o)
    BY <1>2
  <2> DEFINE e == [ord |-> o, n |-> sent[o] + 1]
  <2>2. /\ queue' = Append(queue, e) /\ UNCHANGED <<events, placed>>
        /\ placed[o] # NoBatch /\ sent[o] \in 0..Events /\ sent[o] < Events
        /\ Events \in Nat /\ queue \in Seq(Event \cup {Stop})
        /\ Stop \notin Items(events)
    BY <2>1, ItemsTyped, DrainAssumption
       DEF Deliver, drainVars, DrainTypeOK, Stop, Event
  <2>3. e \in Event \cup {Stop} /\ e.ord = o
    BY <2>2 DEF Event
  <2> HIDE DEF e
  <2>4. Items(queue') = Items(queue) \cup {e}
    BY <2>2, <2>3, ItemsOfAppend
  <2> QED BY <2>2, <2>3, <2>4, PlacedWait
<1> QED BY <1>1, <1>2 DEF SDK

LEMMA PlacedWaitShutdown ==
    ASSUME EventsPlaced, DrainTypeOK, Shutdown
    PROVE  EventsPlaced'
<1>1. /\ queue \in Seq(Event \cup {Stop}) /\ queue' = Append(queue, Stop)
      /\ UNCHANGED <<events, placed>>
  BY DEF DrainTypeOK, Shutdown, drainVars, brokerVars
<1>2. Items(queue') = Items(queue) \cup {Stop}
  BY <1>1, ItemsOfAppend
<1>3. Stop \notin Items(events)
  BY ItemsTyped, Numbers DEF DrainTypeOK
<1> QED BY <1>1, <1>2, <1>3, PlacedWait

LEMMA DrainCarries ==
    ASSUME DrainInv, FaithInv,
           GetEvent \/ Collect \/ TakeLock \/ EndPass \/ CloseGroup
    PROVE  FaithInv'
<1>1. /\ DrainTypeOK /\ LockInv /\ EventsPlaced
      /\ UNCHANGED <<index, byBatch, dirs, placed, sent, wpc, wo>>
      /\ Working /\ dpc # "unstarted" /\ dpc' # "unstarted"
  BY DEF DrainInv, FaithInv, GetEvent, Collect, TakeLock, EndPass, CloseGroup,
         Working, brokerVars, workerVars, fileVars
<1>2. \A o \in OrdId : MayRegister(o)' => MayRegister(o)
  BY <1>1 DEF MayRegister
<1>3. CASE GetEvent \/ Collect
  <2>1. UNCHANGED <<lines, out, buf>>
    BY <1>3 DEF GetEvent, Collect, fileVars
  <2> QED BY <1>1, <1>2, <1>3, <2>1, FaithCarried, RecordedSame, PendingCollected,
             PlacedWaitCollected
<1>4. CASE TakeLock \/ EndPass
  <2>1. UNCHANGED <<lines, out, buf, events, queue>>
    BY <1>4 DEF TakeLock, EndPass, fileVars
  <2>2. EventsPlaced'
    BY <1>1, <2>1, PlacedWaitSame
  <2> QED BY <1>1, <1>2, <2>1, <2>2, FaithCarried, RecordedSame, PendingSame
<1>5. CASE CloseGroup
  <2>1. CloseFile /\ UNCHANGED <<events, queue>>
    BY <1>5 DEF CloseGroup
  <2>2. EventsPlaced'
    BY <1>1, <2>1, PlacedWaitSame
  <2> QED BY <1>1, <1>2, <2>1, <2>2, FaithCarried, RecordedClosed, PendingSame
<1> QED BY <1>3, <1>4, <1>5

LEMMA WorkerCarries ==
    ASSUME DrainInv, FaithInv,
           \/ \E b \in Batch : StartCycle(b)
           \/ \E o \in OrdId : PlaceOrder(o)
           \/ OrderUnanswered \/ CloseSession \/ EndCycle
           \/ \E d \in {"finished", "expired"} : MoveDocument(d)
    PROVE  FaithInv'
<1>1. /\ DrainTypeOK /\ LockInv /\ EventsPlaced
      /\ UNCHANGED <<index, byBatch, dirs, sent, dpc, events, queue>>
      /\ Working /\ dpc # "unstarted"
  BY DEF DrainInv, FaithInv, StartCycle, PlaceOrder, OrderUnanswered, CloseSession,
         EndCycle, MoveDocument, LockInv, Working, brokerVars, drainVars, fileVars
<1>2. CASE CloseSession
  <2>1. CloseFile /\ placed' = placed /\ wpc' # "placed"
    BY <1>2 DEF CloseSession, brokerVars
  <2>2. EventsPlaced'
    BY <1>1, <2>1, PlacedWaitSame
  <2>3. \A o \in OrdId : MayRegister(o)' => MayRegister(o)
    BY <1>1, <2>1 DEF MayRegister, Working
  <2>4. Working' => Working
    BY <1>1
  <2> QED BY <1>1, <2>1, <2>2, <2>3, <2>4, FaithCarried, RecordedClosed, PendingSame
<1>3. CASE ~CloseSession
  <2>1. UNCHANGED <<lines, out, buf>>
    BY <1>3 DEF StartCycle, PlaceOrder, OrderUnanswered, EndCycle, MoveDocument,
                fileVars
  <2>2. \A o \in OrdId :
          /\ placed[o] # NoBatch => placed'[o] # NoBatch
          /\ MayRegister(o)' => MayRegister(o)
    <3>1. CASE \E o \in OrdId : PlaceOrder(o)
      <4>1. PICK o \in OrdId : PlaceOrder(o)
        BY <3>1
      <4>2. /\ placed[o] = NoBatch /\ placed' = [placed EXCEPT ![o] = wb]
            /\ wb \in Batch /\ wo' = o /\ NoBatch \notin Batch
            /\ placed \in [OrdId -> Batch \cup {NoBatch}]
        BY <1>1, <4>1, DrainAssumption DEF PlaceOrder, DrainTypeOK
      <4> QED BY <1>1, <4>2 DEF MayRegister, Working
    <3>2. CASE ~\E o \in OrdId : PlaceOrder(o)
      <4>1. placed' = placed /\ wpc' # "placed"
        BY <1>3, <3>2 DEF StartCycle, OrderUnanswered, EndCycle, MoveDocument,
                          brokerVars
      <4> QED BY <1>1, <4>1 DEF MayRegister, Working
    <3> QED BY <3>1, <3>2
  <2>3. EventsPlaced'
    BY <1>1, <2>2, PlacedWaitSame
  <2> QED BY <1>1, <2>1, <2>2, <2>3, FaithCarried, RecordedSame, PendingSame
<1> QED BY <1>2, <1>3

LEMMA OthersCarry ==
    ASSUME DrainInv, FaithInv, SDK \/ Spill \/ Shutdown \/ UNCHANGED vars
    PROVE  FaithInv'
<1>1. /\ DrainTypeOK /\ EventsPlaced
      /\ UNCHANGED <<index, byBatch, dirs, dpc, placed, wpc, wo>>
  BY DEF DrainInv, FaithInv, SDK, Deliver, Replay, Spill, Shutdown, vars, brokerVars,
         drainVars, workerVars, fileVars
<1>2. (Working' => Working) /\ \A o \in OrdId : MayRegister(o)' => MayRegister(o)
  BY <1>1 DEF MayRegister, Working
<1>3. CASE SDK
  <2>1. UNCHANGED <<lines, out, buf>>
    BY <1>3 DEF SDK, Deliver, Replay, fileVars
  <2> QED BY <1>1, <1>2, <1>3, <2>1, FaithCarried, RecordedSame, PendingSDK,
             PlacedWaitSDK
<1>4. CASE Spill
  <2>1. UNCHANGED <<events, queue, sent>>
    BY <1>4 DEF Spill, brokerVars, drainVars
  <2>2. EventsPlaced'
    BY <1>1, <2>1, PlacedWaitSame
  <2> QED BY <1>1, <1>2, <1>4, <2>1, <2>2, FaithCarried, RecordedSpilt, PendingSame
<1>5. CASE Shutdown
  <2>1. UNCHANGED <<lines, out, buf>>
    BY <1>5 DEF Shutdown, fileVars
  <2> QED BY <1>1, <1>2, <1>5, <2>1, FaithCarried, RecordedSame, PendingShutdown,
             PlacedWaitShutdown
<1>6. CASE UNCHANGED vars
  <2>1. UNCHANGED <<lines, out, buf, events, queue, sent>>
    BY <1>6 DEF vars, fileVars, drainVars, brokerVars
  <2>2. EventsPlaced'
    BY <1>1, <2>1, PlacedWaitSame
  <2> QED BY <1>1, <1>2, <2>1, <2>2, FaithCarried, RecordedSame, PendingSame
<1> QED BY <1>3, <1>4, <1>5, <1>6

-----------------------------------------------------------------------------
(* The pass: an event goes from it to its group, and the group to the      *)
(* record.                                                                 *)

LEMMA PendingResolved ==
    ASSUME DrainTypeOK, ResolveEvent, NEW o \in OrdId, NEW k \in 0..Events,
           Pending(o, k)
    PROVE  /\ Head(events).ord = o => Follows(k, Head(events).n)
           /\ \E k0 \in 0..Events : /\ k0 = After(Head(events), o, k)
                                   /\ Pending(o, k0)'
<1> DEFINE e == Head(events)
<1>1. PICK k1 \in 0..Events, k2 \in 0..Events :
        /\ Account(events, o, k, k1) /\ Account(queue, o, k1, k2)
        /\ sent[o] \in {k2, 0}
  BY DEF Pending
<1>2. /\ events \in Seq(Event) /\ events # <<>> /\ events' = Tail(events)
      /\ UNCHANGED <<queue, sent>>
  BY DEF DrainTypeOK, ResolveEvent, brokerVars
<1>3. e \in Event
  BY <1>2, HeadTailProperties
<1>4. PICK k0 \in 0..Events : k0 = After(e, o, k)
  BY <1>3, Numbers DEF After
<1>5. /\ e.ord = o => Follows(k, e.n)
      /\ Account(events', o, k0, k1)
  BY <1>1, <1>2, <1>4, AccountOfTail
<1>6. Pending(o, k0)'
  BY <1>1, <1>2, <1>5 DEF Pending
<1> QED BY <1>4, <1>5, <1>6

LEMMA ResolveFaith ==
    ASSUME DrainInv, FaithInv, ResolveEvent
    PROVE  FaithInv'
<1> DEFINE e == Head(events)
<1>1. /\ DrainTypeOK /\ events \in Seq(Event) /\ events # <<>>
      /\ events' = Tail(events)
      /\ UNCHANGED <<placed, sent, queue, index, dirs, lines, out, buf, wpc, wo>>
      /\ wpc = "idle" /\ Working /\ dpc' # "unstarted"
  BY DEF DrainInv, DrainTypeOK, LockInv, ResolveEvent, Working, brokerVars,
         workerVars, fileVars
<1>2. e \in Event /\ e.ord \in OrdId /\ e \in Items(events)
      /\ Items(events') \subseteq Items(events)
  BY <1>1, HeadTailProperties, ItemsOfTail, Numbers
<1>3. \A b \in Batch, d \in LiveDir, o \in OrdId, k \in Number :
        Recorded(b, d, o, k) => Recorded(b, d, o, k)'
  BY <1>1, RecordedSame
<1>4. RecordsAccount' /\ UnknownHasNoLine'
  BY <1>1, <1>3, Numbers DEF FaithInv, RecordsAccount, UnknownHasNoLine
<1>5. KnownGoesOn'
  <2> SUFFICES ASSUME NEW o \in OrdId, NEW b \in Batch, index[o] = b
               PROVE  \E d \in dirs[b], k, k1 \in 0..Events :
                        /\ Recorded(b, d, o, k)' /\ Account(byBatch'[b], o, k, k1)
                        /\ Pending(o, k1)'
    BY <1>1 DEF KnownGoesOn
  <2>1. PICK d \in dirs[b], k \in 0..Events, k1 \in 0..Events :
            Recorded(b, d, o, k) /\ Account(byBatch[b], o, k, k1) /\ Pending(o, k1)
    BY DEF FaithInv, KnownGoesOn
  <2>2. d \in LiveDir /\ k \in Number /\ k1 \in Number /\ byBatch[b] \in Seq(Event)
    BY <1>1, <2>1, Numbers DEF DrainTypeOK
  <2>3. PICK k2 \in 0..Events :
            k2 = After(e, o, k1) /\ Pending(o, k2)' /\ (e.ord = o => Follows(k1, e.n))
    BY <1>1, <2>1, PendingResolved
  <2>4. Account(byBatch'[b], o, k, k2)
    <3>1. CASE b = index[e.ord]
      <4>1. byBatch'[b] = Append(byBatch[b], e)
        BY <1>1, <3>1, ResolveEffect
      <4> QED BY <1>2, <2>1, <2>2, <2>3, <4>1, AccountAppends
    <3>2. CASE b # index[e.ord]
      <4>1. byBatch'[b] = byBatch[b] /\ e.ord # o
        BY <1>1, <3>2, ResolveEffect
      <4> QED BY <2>1, <2>3, <4>1 DEF After
    <3> QED BY <3>1, <3>2
  <2> QED BY <1>3, <2>1, <2>2, <2>3, <2>4
<1>6. StillAhead'
  <2> SUFFICES ASSUME NEW o \in OrdId, MayRegister(o)' PROVE Pending(o, 0)'
    BY DEF StillAhead
  <2>1. placed[o] = NoBatch /\ Pending(o, 0)
    BY <1>1 DEF MayRegister, FaithInv, StillAhead
  <2>2. e.ord # o
    BY <1>2, <2>1 DEF FaithInv, EventsPlaced
  <2> QED BY <1>1, <2>1, <2>2, PendingResolved, Numbers DEF After
<1>7. EventsPlaced'
  <2>1. Items(events) \subseteq Event
    BY <1>1, ItemsTyped
  <2> QED BY <1>1, <1>2, <2>1, Numbers, PlacedWait DEF FaithInv
<1> QED BY <1>4, <1>5, <1>6, <1>7 DEF FaithInv

(* A group without a record is of no order the index knows, so there is    *)
(* none.                                                                   *)
LEMMA NoRecordFaith ==
    ASSUME DrainInv, FaithInv, NEW b \in Batch, NoRecord(b)
    PROVE  FaithInv'
<1>1. /\ DrainTypeOK /\ dirs[b] = {} /\ Working /\ dpc # "unstarted"
      /\ \A c \in Batch : c # b => byBatch'[c] = byBatch[c]
      /\ UNCHANGED <<placed, sent, events, queue, index, dirs, lines, out, buf,
                     dpc, wpc, wo>>
  BY DEF DrainInv, DrainTypeOK, NoRecord, Done, Working, brokerVars, workerVars,
         fileVars
<1>2. RecordsAccount' /\ UnknownHasNoLine' /\ StillAhead' /\ EventsPlaced'
  BY <1>1 DEF FaithInv, RecordsAccount, UnknownHasNoLine, StillAhead, EventsPlaced,
              Recorded, Pending, MayRegister, Working
<1>3. \A o \in OrdId : index[o] # b
  BY <1>1 DEF FaithInv, KnownGoesOn
<1>4. KnownGoesOn'
  <2> SUFFICES ASSUME NEW o \in OrdId, NEW c \in Batch, index[o] = c
               PROVE  \E d \in dirs[c], k, k1 \in 0..Events :
                        /\ Recorded(c, d, o, k)' /\ Account(byBatch'[c], o, k, k1)
                        /\ Pending(o, k1)'
    BY <1>1 DEF KnownGoesOn
  <2>1. PICK d \in dirs[c], k \in 0..Events, k1 \in 0..Events :
            Recorded(c, d, o, k) /\ Account(byBatch[c], o, k, k1) /\ Pending(o, k1)
    BY DEF FaithInv, KnownGoesOn
  <2>2. byBatch'[c] = byBatch[c] /\ Recorded(c, d, o, k)' /\ Pending(o, k1)'
    BY <1>1, <1>3, <2>1 DEF Recorded, Pending
  <2> QED BY <2>1, <2>2
<1> QED BY <1>2, <1>4 DEF FaithInv

LEMMA WriteGroupFaith ==
    ASSUME DrainInv, FaithInv, NEW b \in Batch, WriteGroup(b)
    PROVE  FaithInv'
<1>1. /\ DrainTypeOK /\ LockInv /\ byBatch[b] \in Seq(Event)
      /\ Working /\ Working' /\ dpc # "unstarted" /\ dpc' # "unstarted"
  BY DEF DrainInv, DrainTypeOK, WriteGroup, Working
<1>2. PICK L \in LiveDir :
      /\ out = <<>> /\ buf = <<>> /\ L \in dirs[b]
      /\ out' = <<b, L>> /\ buf' = byBatch[b]
      /\ \A c \in Batch : byBatch'[c] = IF c = b THEN <<>> ELSE byBatch[c]
      /\ UNCHANGED <<dirs, placed, sent, events, queue, index, wpc, wo, lines>>
  BY <1>1, WriteGroupEffect DEF DrainTypeOK
(* What was recorded of an order of another batch, or in another           *)
(* directory, stays as it is.                                              *)
<1>3. ASSUME NEW c \in Batch, NEW d \in LiveDir, NEW o \in OrdId, NEW k \in Number,
             Recorded(c, d, o, k), c # b \/ d # L \/ index[o] # b
      PROVE  Recorded(c, d, o, k)'
  <2>1. Account(lines'[c][d], o, -1, k)
    BY <1>2, <1>3 DEF Recorded
  <2>2. CASE c # b \/ d # L
    BY <1>2, <2>1, <2>2 DEF Recorded
  <2>3. CASE c = b /\ d = L
    <3>1. index[o] # b
      BY <1>3, <2>3
    <3>2. \A i \in 1..Len(byBatch[b]) : byBatch[b][i].ord # o
      BY <3>1 DEF DrainInv, HomeInv, GroupsHome, Items
    <3>3. Account(buf', o, k, k)
      BY <1>1, <1>2, <3>2, AccountOfOthers
    <3> QED BY <1>2, <2>1, <3>3 DEF Recorded
  <2> QED BY <2>2, <2>3
<1>4. ASSUME NEW o \in OrdId, NEW k, NEW k1, k1 \in Number,
             Recorded(b, L, o, k), Account(byBatch[b], o, k, k1)
      PROVE  Recorded(b, L, o, k1)'
  <2>1. Account(lines'[b][L], o, -1, k) /\ k \in Number
    BY <1>2, <1>4 DEF Recorded
  <2> QED BY <1>2, <1>4, <2>1 DEF Recorded
(* The record of b is the only one.                                        *)
<1>5. \A d \in dirs[b] : d = L
  BY <1>2 DEF DrainInv, RecordInv
<1>6. KnownGoesOn'
  <2> SUFFICES ASSUME NEW o \in OrdId, NEW c \in Batch, index[o] = c
               PROVE  \E d \in dirs[c], k, k1 \in 0..Events :
                        /\ Recorded(c, d, o, k)' /\ Account(byBatch'[c], o, k, k1)
                        /\ Pending(o, k1)'
    BY <1>2 DEF KnownGoesOn
  <2>1. PICK d \in dirs[c], k \in 0..Events, k1 \in 0..Events :
            Recorded(c, d, o, k) /\ Account(byBatch[c], o, k, k1) /\ Pending(o, k1)
    BY DEF FaithInv, KnownGoesOn
  <2>2. d \in LiveDir /\ k \in Number /\ k1 \in Number /\ Pending(o, k1)'
    BY <1>1, <1>2, <2>1, Numbers DEF DrainTypeOK, Pending
  <2>3. CASE c # b
    BY <1>2, <1>3, <2>1, <2>2, <2>3
  <2>4. CASE c = b
    <3>1. Recorded(c, d, o, k1)' /\ byBatch'[c] = <<>>
      BY <1>2, <1>4, <1>5, <2>1, <2>2, <2>4
    <3> QED BY <2>1, <2>2, <3>1, AccountOfNone
  <2> QED BY <2>3, <2>4
<1>7. RecordsAccount'
  <2> SUFFICES ASSUME NEW c \in Batch, NEW d \in LiveDir, NEW o \in OrdId
               PROVE  \E k \in Number : Recorded(c, d, o, k)'
    BY DEF RecordsAccount
  <2>1. CASE c # b \/ d # L \/ index[o] # b
    BY <1>3, <2>1 DEF FaithInv, RecordsAccount
  <2>2. CASE c = b /\ d = L /\ index[o] = b
    <3>1. PICK f \in dirs[b], k \in 0..Events, k1 \in 0..Events :
              Recorded(b, f, o, k) /\ Account(byBatch[b], o, k, k1)
      BY <2>2 DEF FaithInv, KnownGoesOn
    <3> QED BY <1>4, <1>5, <2>2, <3>1, Numbers
  <2> QED BY <2>1, <2>2
<1>8. UnknownHasNoLine'
  BY <1>1, <1>2, <1>3, Numbers DEF FaithInv, UnknownHasNoLine
<1>9. StillAhead' /\ EventsPlaced'
  BY <1>1, <1>2 DEF FaithInv, StillAhead, EventsPlaced, Pending, MayRegister
<1> QED BY <1>6, <1>7, <1>8, <1>9 DEF FaithInv

-----------------------------------------------------------------------------
(* The worker: a submit line opens an order's account, and a record moves  *)
(* as a whole.                                                             *)

LEMMA RegisterFaith ==
    ASSUME "disk" \notin Faults, DrainInv, FaithInv, RegisterOrder
    PROVE  FaithInv'
<1> DEFINE P == "pending"
<1>1. PICK b \in Batch, w \in OrdId : b = wb /\ w = wo
  BY RegisterEffect DEF DrainInv
<1>2. /\ DrainTypeOK /\ P \in LiveDir /\ Working /\ Working'
      /\ wpc = "placed" /\ wpc' = "reconcile"
      /\ UNCHANGED <<placed, sent, dpc, events, queue, byBatch, lines>>
      /\ \A o \in OrdId : index'[o] = IF o = w THEN b ELSE index[o]
      /\ \A c \in Batch : dirs'[c] = IF c = b THEN dirs[c] \cup {P} ELSE dirs[c]
      /\ out' = <<b, P>> /\ buf' = Append(buf, Submit(w))
      /\ (out = <<>> /\ buf = <<>>) \/ out = <<b, P>>
      /\ buf \in Seq(Line) /\ Submit(w) \in Line
  BY <1>1, RegisterEffect, EventFacts
     DEF DrainInv, DrainTypeOK, RegisterOrder, brokerVars, drainVars
<1>3. /\ index[w] = NoBatch /\ NoBatch \notin Batch
      /\ byBatch[b] = <<>> /\ dirs[b] \subseteq {P}
  BY <1>1, <1>2, DrainAssumption
     DEF DrainInv, HomeInv, IndexHome, LockInv, RecordInv
<1>4. ASSUME NEW c \in Batch, NEW d \in LiveDir, NEW o \in OrdId, NEW k \in Number,
             Recorded(c, d, o, k), c # b \/ d # P
      PROVE  Recorded(c, d, o, k)'
  <2>1. out # <<c, d>> /\ out' # <<c, d>>
    BY <1>2, <1>4
  <2> QED BY <1>2, <1>4, <2>1 DEF Recorded
<1>5. ASSUME NEW o \in OrdId, NEW k \in Number, NEW n, Recorded(b, P, o, k),
             o = w => Follows(k, 0), n = After(Submit(w), o, k)
      PROVE  Recorded(b, P, o, n)'
  <2>1. PICK m \in Number : /\ Account(lines[b][P], o, -1, m)
                            /\ IF out = <<b, P>> THEN Account(buf, o, m, k) ELSE k = m
    BY <1>5 DEF Recorded
  <2>2. Account(buf, o, m, k)
    BY <1>2, <2>1, AccountOfNone
  <2>3. Submit(w).ord = w /\ Submit(w).n = 0
    BY Numbers
  <2>4. Account(buf', o, m, n)
    BY <1>2, <1>5, <2>2, <2>3, AccountAppends
  <2> QED BY <1>2, <2>1, <2>4 DEF Recorded
<1>6. Recorded(b, P, w, 0)'
  <2>1. Recorded(b, P, w, -1)
    BY <1>2, <1>3 DEF FaithInv, UnknownHasNoLine
  <2>2. Follows(-1, 0) /\ After(Submit(w), w, -1) = 0
    BY Numbers DEF Follows, After
  <2> QED BY <1>5, <2>1, <2>2, Numbers
<1>7. ASSUME NEW c \in Batch, NEW d \in LiveDir, NEW o \in OrdId, NEW k \in Number,
             Recorded(c, d, o, k), c # b \/ o # w
      PROVE  Recorded(c, d, o, k)'
  <2>1. CASE c # b \/ d # P
    BY <1>4, <1>7, <2>1
  <2>2. CASE c = b /\ d = P
    <3>1. After(Submit(w), o, k) = k
      BY <1>7, <2>2, Numbers DEF After
    <3> QED BY <1>5, <1>7, <2>2, <3>1
  <2> QED BY <2>1, <2>2
<1>8. RecordsAccount'
  <2> SUFFICES ASSUME NEW c \in Batch, NEW d \in LiveDir, NEW o \in OrdId
               PROVE  \E k \in Number : Recorded(c, d, o, k)'
    BY DEF RecordsAccount
  <2>1. PICK k \in Number : Recorded(c, d, o, k)
    BY DEF FaithInv, RecordsAccount
  <2>2. CASE c = b /\ d = P /\ o = w
    BY <1>6, <2>2, Numbers
  <2> QED BY <1>4, <1>7, <2>1, <2>2
<1>9. UnknownHasNoLine'
  <2> SUFFICES ASSUME NEW c \in Batch, NEW d \in LiveDir, NEW o \in OrdId,
                      index'[o] # c
               PROVE  Recorded(c, d, o, -1)'
    BY DEF UnknownHasNoLine
  <2>1. index[o] # c /\ (c # b \/ o # w)
    BY <1>2, <1>3
  <2>2. Recorded(c, d, o, -1)
    BY <1>2, <2>1 DEF FaithInv, UnknownHasNoLine
  <2> QED BY <1>7, <2>1, <2>2, Numbers
<1>10. \A o \in OrdId, k \in 0..Events : Pending(o, k) => Pending(o, k)'
  BY <1>2, PendingSame
<1>11. KnownGoesOn'
  <2> SUFFICES ASSUME NEW o \in OrdId, NEW c \in Batch, index'[o] = c
               PROVE  \E d \in dirs'[c], k, k1 \in 0..Events :
                        /\ Recorded(c, d, o, k)' /\ Account(byBatch[c], o, k, k1)
                        /\ Pending(o, k1)'
    BY <1>2 DEF KnownGoesOn
  <2>1. CASE o = w
    <3>1. c = b /\ P \in dirs'[c]
      BY <1>2, <2>1
    <3>2. Pending(o, 0)'
      BY <1>1, <1>2, <1>10, <2>1, Numbers DEF FaithInv, StillAhead, MayRegister
    <3> QED BY <1>3, <1>6, <2>1, <3>1, <3>2, AccountOfNone, Numbers
  <2>2. CASE o # w
    <3>1. index[o] = c
      BY <1>2, <2>2
    <3>2. PICK d \in dirs[c], k \in 0..Events, k1 \in 0..Events :
              Recorded(c, d, o, k) /\ Account(byBatch[c], o, k, k1) /\ Pending(o, k1)
      BY <3>1 DEF FaithInv, KnownGoesOn
    <3>3. d \in dirs'[c] /\ d \in LiveDir /\ k \in Number
      BY <1>2, <3>2, Numbers DEF DrainTypeOK
    <3> QED BY <1>7, <1>10, <2>2, <3>2, <3>3
  <2> QED BY <2>1, <2>2
<1>12. StillAhead' /\ EventsPlaced'
  BY <1>2, <1>10, Numbers DEF FaithInv, StillAhead, EventsPlaced, MayRegister, Working
<1> QED BY <1>8, <1>9, <1>11, <1>12 DEF FaithInv

LEMMA MoveRecordFaith ==
    ASSUME DrainInv, FaithInv, MoveRecord
    PROVE  FaithInv'
<1>1. /\ DrainTypeOK /\ EventsPlaced /\ out = <<>> /\ buf = <<>>
      /\ UNCHANGED <<placed, sent, dpc, events, queue, index, byBatch, out, buf>>
      /\ wpc' = "idle" /\ wb \in Batch /\ at[wb] \in LiveDir
      /\ dirs[wb] \subseteq {"pending"}
      /\ Working /\ dpc # "unstarted"
  BY DEF DrainInv, FaithInv, DrainTypeOK, LockInv, RecordInv, MoveRecord, Working,
         brokerVars, drainVars
<1>2. (Working' => Working) /\ \A o \in OrdId : MayRegister(o)' => MayRegister(o)
  BY <1>1 DEF MayRegister, Working
<1>3. EventsPlaced'
  BY <1>1, PlacedWaitSame
<1>4. CASE UNCHANGED <<dirs, lines>>
  BY <1>1, <1>2, <1>3, <1>4, FaithCarried, RecordedSame, PendingSame
<1>5. CASE ~UNCHANGED <<dirs, lines>>
  <2>1. \A b \in Batch : dirs'[b] = IF b # wb THEN dirs[b]
                                  ELSE IF dirs[b] = {} THEN {} ELSE {at[b]}
    BY <1>1, <1>5, MoveRecordEffect DEF DrainTypeOK
  <2>2. \A b \in Batch, d \in LiveDir : lines'[b][d] =
            IF b # wb THEN lines[b][d]
            ELSE IF d = at[b] THEN lines[b]["pending"]
            ELSE IF d = "pending" THEN <<>> ELSE lines[b][d]
    BY <1>1, <1>5, MoveRecordEffect
  <2>3. \A b \in Batch, d \in LiveDir :
          lines'[b][d] = <<>> \/ \E c \in LiveDir : lines'[b][d] = lines[b][c]
    BY <2>2 DEF LiveDir
  <2>4. ASSUME NEW b \in Batch, NEW c \in LiveDir, NEW d \in LiveDir,
               NEW o \in OrdId, NEW k \in Number,
               Recorded(b, c, o, k), lines'[b][d] = lines[b][c]
        PROVE  Recorded(b, d, o, k)'
    BY <1>1, <2>4 DEF Recorded
  <2>5. ASSUME NEW b \in Batch, NEW d \in LiveDir, NEW o \in OrdId,
               lines'[b][d] = <<>>
        PROVE  Recorded(b, d, o, -1)'
    BY <1>1, <2>5, Numbers, AccountOfNone DEF Recorded
  <2>6. RecordsAccount' /\ UnknownHasNoLine'
    BY <1>1, <1>2, <2>3, <2>4, <2>5, Numbers
       DEF FaithInv, RecordsAccount, UnknownHasNoLine
  <2>7. \A o \in OrdId, k \in 0..Events : Pending(o, k) => Pending(o, k)'
    BY <1>1, PendingSame
  <2>8. KnownGoesOn'
    <3> SUFFICES ASSUME NEW o \in OrdId, NEW b \in Batch, index[o] = b
                 PROVE  \E d \in dirs'[b], k, k1 \in 0..Events :
                          /\ Recorded(b, d, o, k)' /\ Account(byBatch[b], o, k, k1)
                          /\ Pending(o, k1)'
      BY <1>1 DEF KnownGoesOn
    <3>1. PICK d \in dirs[b], k \in 0..Events, k1 \in 0..Events :
              Recorded(b, d, o, k) /\ Account(byBatch[b], o, k, k1) /\ Pending(o, k1)
      BY DEF FaithInv, KnownGoesOn
    <3>2. d \in LiveDir /\ k \in Number
      BY <1>1, <3>1, Numbers DEF DrainTypeOK
    <3>3. CASE b # wb
      <4>1. d \in dirs'[b] /\ lines'[b][d] = lines[b][d]
        BY <2>1, <2>2, <3>1, <3>2, <3>3
      <4> QED BY <2>4, <2>7, <3>1, <3>2, <4>1
    <3>4. CASE b = wb
      <4>1. d = "pending" /\ at[b] \in dirs'[b] /\ lines'[b][at[b]] = lines[b]["pending"]
        BY <1>1, <2>1, <2>2, <3>1, <3>4
      <4>2. PICK f \in dirs'[b] : f \in LiveDir /\ lines'[b][f] = lines[b][d]
        BY <1>1, <3>4, <4>1
      <4> QED BY <2>4, <2>7, <3>1, <3>2, <4>2
    <3> QED BY <3>3, <3>4
  <2>9. StillAhead'
    BY <1>2, <2>7, Numbers DEF FaithInv, StillAhead
  <2> QED BY <1>3, <2>6, <2>8, <2>9 DEF FaithInv
<1> QED BY <1>4, <1>5

-----------------------------------------------------------------------------
(* The process: what a crash leaves is an account of each order, and a new *)
(* process goes on from there.                                             *)

LEMMA InitFaith == Init => FaithInv
<1> SUFFICES ASSUME Init PROVE FaithInv
  OBVIOUS
<1>1. /\ \A b \in Batch, d \in LiveDir : lines[b][d] = <<>>
      /\ out = <<>> /\ events = <<>> /\ queue = <<>> /\ ~Working
      /\ \A o \in OrdId : index[o] = NoBatch /\ sent[o] = 0
      /\ NoBatch \notin Batch
  BY DrainAssumption DEF Init, Working
<1>2. RecordsAccount
  BY <1>1, Numbers, AccountOfNone DEF RecordsAccount, Recorded
<1>3. UnknownHasNoLine /\ KnownGoesOn
  BY <1>1 DEF UnknownHasNoLine, KnownGoesOn
<1>4. StillAhead
  BY <1>1, Numbers, AccountOfNone DEF StillAhead, Pending
<1>5. EventsPlaced
  BY <1>1, ItemsOfNone DEF EventsPlaced
<1> QED BY <1>2, <1>3, <1>4, <1>5 DEF FaithInv

LEMMA CrashFaith ==
    ASSUME DrainInv, FaithInv, Crash
    PROVE  FaithInv'
<1>1. /\ ~Working' /\ dpc' # "unstarted" /\ wpc' = "idle" /\ out' = <<>>
      /\ events' = <<>> /\ queue' = <<>> /\ lines' = lines
      /\ \A o \in OrdId : index'[o] = NoBatch
      /\ NoBatch \notin Batch
  BY DrainAssumption DEF Crash, Working
<1>2. RecordsAccount'
  BY <1>1 DEF FaithInv, RecordsAccount, Recorded
<1>3. UnknownHasNoLine' /\ KnownGoesOn' /\ StillAhead'
  BY <1>1 DEF UnknownHasNoLine, KnownGoesOn, StillAhead, MayRegister
<1>4. EventsPlaced'
  BY <1>1, ItemsOfNone DEF EventsPlaced
<1> QED BY <1>2, <1>3, <1>4 DEF FaithInv

LEMMA ConnectFaith ==
    ASSUME DrainInv, FaithInv, Connect
    PROVE  FaithInv'
<1>1. /\ ~Working' /\ events' = <<>> /\ queue' = <<>>
      /\ UNCHANGED <<lines, out, buf>>
      /\ \A o \in OrdId : index'[o] = NoBatch /\ sent'[o] = 0
      /\ NoBatch \notin Batch
  BY DrainAssumption DEF DrainInv, LockInv, Connect, Working, fileVars
<1>2. RecordsAccount'
  BY <1>1 DEF FaithInv, RecordsAccount, Recorded
<1>3. UnknownHasNoLine' /\ KnownGoesOn'
  BY <1>1 DEF UnknownHasNoLine, KnownGoesOn
<1>4. StillAhead'
  BY <1>1, Numbers, AccountOfNone DEF StillAhead, Pending
<1>5. EventsPlaced'
  BY <1>1, ItemsOfNone DEF EventsPlaced
<1> QED BY <1>2, <1>3, <1>4, <1>5 DEF FaithInv

LEMMA InitProcessFaith ==
    ASSUME "disk" \notin Faults, DrainInv, FaithInv, InitProcess
    PROVE  FaithInv'
<1>0. PICK found \in [Batch -> SUBSET OrdId] :
        /\ \A b \in Batch : found[b] \in Scans(b)
        /\ index' = [o \in OrdId |-> Rebuilt(found, o)]
  BY DEF InitProcess
<1>1. /\ DrainTypeOK /\ LinesHome /\ dpc = "unstarted" /\ wpc = "idle"
      /\ out = <<>> /\ events = <<>> /\ \A b \in Batch : byBatch[b] = <<>>
      /\ \A o \in OrdId : index'[o] = Rebuilt(found, o)
      /\ UNCHANGED <<placed, sent, events, queue, byBatch, wpc, dirs, lines, out, buf>>
  BY <1>0 DEF DrainInv, HomeInv, LockInv, InitProcess, brokerVars, workerVars, fileVars
<1>2. \A b \in Batch, d \in LiveDir, o \in OrdId, k \in Number :
        /\ Recorded(b, d, o, k) => Recorded(b, d, o, k)'
        /\ Recorded(b, d, o, k) <=> Account(lines[b][d], o, -1, k)
  BY <1>1 DEF Recorded
<1>3. \A o \in OrdId, k \in 0..Events : Pending(o, k) => Pending(o, k)'
  BY <1>1, PendingSame
<1>4. RecordsAccount'
  BY <1>2 DEF FaithInv, RecordsAccount
<1>5. UnknownHasNoLine'
  <2> SUFFICES ASSUME NEW b \in Batch, NEW d \in LiveDir, NEW o \in OrdId,
                      Rebuilt(found, o) # b
               PROVE  Recorded(b, d, o, -1)'
    BY <1>1 DEF UnknownHasNoLine
  <2>1. PICK k \in Number : Account(lines[b][d], o, -1, k)
    BY <1>2 DEF FaithInv, RecordsAccount
  <2>2. lines[b][d] \in Seq(Line)
    BY <1>1 DEF DrainTypeOK
  <2>3. \A i \in 1..Len(lines[b][d]) : lines[b][d][i] # Submit(o)
    BY <1>0, <1>1, RebuiltIsHome DEF Items
  <2>4. \A i \in 1..Len(lines[b][d]) : lines[b][d][i].ord # o
    BY <2>1, <2>2, <2>3, OpensWithSubmit
  <2>5. Account(lines[b][d], o, -1, -1)
    BY <2>2, <2>4, AccountOfOthers
  <2> QED BY <1>2, <2>5, Numbers
<1>6. KnownGoesOn'
  <2> SUFFICES ASSUME NEW o \in OrdId, NEW b \in Batch, Rebuilt(found, o) = b
               PROVE  \E d \in dirs[b], k, k1 \in 0..Events :
                        /\ Recorded(b, d, o, k)' /\ Account(byBatch[b], o, k, k1)
                        /\ Pending(o, k1)'
    BY <1>1 DEF KnownGoesOn
  <2>1. SubmitOnDisk(o, b)
    BY <1>0, <1>1, RebuiltIsHome
  <2>2. PICK d \in dirs[b] : \E i \in 1..Len(lines[b][d]) : lines[b][d][i] = Submit(o)
    BY <2>1 DEF SubmitOnDisk
  <2>3. d \in LiveDir /\ lines[b][d] \in Seq(Line) /\ queue \in Seq(Event \cup {Stop})
    BY <1>1, <2>2 DEF DrainTypeOK
  <2>4. PICK m \in Number : Account(lines[b][d], o, -1, m)
    BY <1>2, <2>3 DEF FaithInv, RecordsAccount
  <2>5. m # -1
    <3>1. PICK i \in 1..Len(lines[b][d]) : lines[b][d][i].ord = o
      BY <2>2, Numbers
    <3> QED BY <2>3, <2>4, <3>1, NoLines
  <2>6. m \in 0..Events
    BY <2>4, <2>5, DrainAssumption DEF Number
  <2>7. PICK k1 \in 0..Events, k2 \in 0..Events :
          /\ Account(events, o, 0, k1) /\ Account(queue, o, k1, k2)
          /\ sent[o] \in {k2, 0}
    BY <1>1 DEF FaithInv, StillAhead, MayRegister, Pending
  <2>8. Account(queue, o, 0, k2)
    BY <1>1, <2>7, NoneLeadsNowhere
  <2>9. Account(queue, o, m, k2) \/ (k2 = 0 /\ Account(queue, o, m, m))
    BY <2>3, <2>6, <2>8, AccountResumes
  <2>10. Pending(o, m)'
    BY <1>1, <2>6, <2>7, <2>9, AccountOfNone DEF Pending
  <2> QED BY <1>1, <1>2, <2>2, <2>3, <2>4, <2>6, <2>10, AccountOfNone
<1>7. StillAhead' /\ EventsPlaced'
  BY <1>1, <1>3, Numbers DEF FaithInv, StillAhead, EventsPlaced, MayRegister
<1> QED BY <1>4, <1>5, <1>6, <1>7 DEF FaithInv

LEMMA NextFaith ==
    ASSUME "disk" \notin Faults, DrainInv, FaithInv, [Next]_vars
    PROVE  FaithInv'
<1>1. CASE Drain
  <2>1. ~GroupRaises
    BY DEF GroupRaises
  <2> QED BY <1>1, <2>1, DrainCarries, ResolveFaith, NoRecordFaith, WriteGroupFaith
          DEF Drain
<1>2. CASE Worker
  <2>1. ~CloseRaises
    BY DEF CloseRaises
  <2> QED BY <1>2, <2>1, WorkerCarries, RegisterFaith, MoveRecordFaith DEF Worker
<1>3. CASE Process
  BY <1>3, OthersCarry, CrashFaith, ConnectFaith, InitProcessFaith DEF Process
<1> QED BY <1>1, <1>2, <1>3, OthersCarry DEF Next

(* A record tells each order's story from its submit line on, without a    *)
(* gap, a swap or a repetition that no replay explains, as long as no disk *)
(* write fails: for any number of batches, orders, events, reconnects and  *)
(* restarts, whatever is interleaved, and at whatever point the process    *)
(* dies.                                                                   *)
THEOREM FaithfulRecord ==
    ASSUME "disk" \notin Faults
    PROVE  Spec => []RecordIsFaithful
<1> DEFINE Inv == DrainInv /\ FaithInv
<1>1. Init => Inv
  BY InitDrainInv, InitFaith
<1>2. Inv /\ [Next]_vars => Inv'
  BY NextDrainInv, NextFaith
<1>3. Inv => RecordIsFaithful
  BY DEF FaithInv, RecordsAccount, Recorded, RecordIsFaithful
<1> QED BY <1>1, <1>2, <1>3, PTL DEF Spec

(* With nothing in the pass, the groups and the session, and nothing about *)
(* o in the queue, the account of o ends in its record if the index knows  *)
(* it.                                                                     *)
LEMMA QuietIsComplete ==
    ASSUME "disk" \notin Faults, DrainInv, FaithInv,
           dpc \in {"get", "exited"}, out = <<>>,
           NEW o \in OrdId, \A i \in 1..Len(queue) : queue[i].ord # o
    PROVE  UpToDate(o)
<1> SUFFICES ASSUME NEW b \in Batch, SubmitOnDisk(o, b), sent[o] > 0
             PROVE  \E d \in dirs[b] :
                      LastNumber(lines[b][d], o, -1, Len(lines[b][d]), sent[o])
  BY DEF UpToDate
<1>1. events = <<>> /\ byBatch[b] = <<>> /\ Working
  BY DEF DrainInv, LockInv, Working
<1>2. PICK d \in dirs[b], k \in 0..Events, k1 \in 0..Events :
          Recorded(b, d, o, k) /\ Account(byBatch[b], o, k, k1) /\ Pending(o, k1)
  BY <1>1, RecordedIsKnown DEF FaithInv, KnownGoesOn
<1>3. Account(lines[b][d], o, -1, k)
  BY <1>2 DEF Recorded
<1>4. k1 = k
  BY <1>1, <1>2, NoneLeadsNowhere
<1>5. PICK k2 \in 0..Events, k3 \in 0..Events :
        /\ Account(events, o, k1, k2) /\ Account(queue, o, k2, k3)
        /\ sent[o] \in {k3, 0}
  BY <1>2 DEF Pending
<1>6. k2 = k
  BY <1>1, <1>4, <1>5, NoneLeadsNowhere
<1>7. k3 = k
  BY <1>5, <1>6 DEF Account, LastNumber
<1>8. sent[o] = k
  BY <1>5, <1>7
<1> QED BY <1>3, <1>8 DEF Account

(* Without failing writes a drain that has nothing left to do has left     *)
(* nothing out: the record of each recorded order ends with the last event *)
(* the broker has sent, also when it came before the order was indexed or  *)
(* before a restart.                                                       *)
THEOREM RestIsComplete ==
    ASSUME "disk" \notin Faults
    PROVE  Spec => []NothingIsMissing
<1> DEFINE Inv == DrainInv /\ FaithInv
<1>1. Init => Inv
  BY InitDrainInv, InitFaith
<1>2. Inv /\ [Next]_vars => Inv'
  BY NextDrainInv, NextFaith
<1>3. Inv => NothingIsMissing
  <2>1. queue = <<>> => \A i \in 1..Len(queue) : FALSE
    OBVIOUS
  <2> QED BY <2>1, QuietIsComplete DEF NothingIsMissing
<1> QED BY <1>1, <1>2, <1>3, PTL DEF Spec

(* Without failing writes the loop does not end before its last pass is    *)
(* written: once it has exited, whatever the broker had sent of a recorded *)
(* order by then is in its record, but for what is queued behind the       *)
(* sentinel.                                                               *)
THEOREM LastPassIsComplete ==
    ASSUME "disk" \notin Faults
    PROVE  Spec => []LastPassIsWritten
<1> DEFINE Inv == DrainInv /\ FaithInv
<1>1. Init => Inv
  BY InitDrainInv, InitFaith
<1>2. Inv /\ [Next]_vars => Inv'
  BY NextDrainInv, NextFaith
<1>3. Inv => LastPassIsWritten
  BY QuietIsComplete DEF LastPassIsWritten
<1> QED BY <1>1, <1>2, <1>3, PTL DEF Spec

-----------------------------------------------------------------------------
(* What is on disk.                                                        *)

LEMMA GrowsByConcat ==
    ASSUME NEW S, NEW s \in Seq(S), NEW t \in Seq(S)
    PROVE  IsPrefix(s, s \o t) /\ IsPrefix(s, s) /\ IsPrefix(<<>>, s)
<1> DEFINE u == s \o t
<1>1. /\ Len(s) \in Nat /\ Len(t) \in Nat /\ Len(u) = Len(s) + Len(t)
      /\ \A i \in 1..Len(s) : u[i] = s[i]
  BY ConcatProperties, LenProperties
<1> HIDE DEF u
<1>2. SubSeq(u, 1, Len(s)) = SubSeq(s, 1, Len(s))
  BY <1>1
<1>3. Len(<<>>) = 0 /\ SubSeq(<<>>, 1, 0) = <<>> /\ SubSeq(s, 1, 0) = <<>>
  BY SubSeqEmpty
<1> QED BY <1>1, <1>2, <1>3 DEF IsPrefix, u

(* A move takes the record with it, and finds none in its way.             *)
LEMMA MoveRecordGrows ==
    ASSUME DrainInv, MoveRecord, NEW b \in Batch, NEW d \in LiveDir
    PROVE  \E f \in LiveDir : IsPrefix(lines[b][d], lines'[b][f])
<1>1. /\ DrainTypeOK /\ DrainTypeOK' /\ lines[b][d] \in Seq(Line)
      /\ wb \in Batch /\ at[wb] \in LiveDir /\ dirs[wb] \subseteq {"pending"}
  <2>1. DrainTypeOK /\ DrainTypeOK' /\ RecordInv
    BY TypeStep DEF DrainInv, Next, Worker
  <2>2. wpc = "move_record"
    BY DEF MoveRecord
  <2>3. wb \in Batch /\ lines[b][d] \in Seq(Line)
    BY <2>1, <2>2 DEF DrainTypeOK
  <2>4. at[wb] \in LiveDir
    BY <2>1, <2>3 DEF DrainTypeOK
  <2> QED BY <2>1, <2>2, <2>3, <2>4 DEF RecordInv
<1>2. IsPrefix(lines[b][d], lines[b][d])
  BY <1>1, GrowsByConcat
<1>3. CASE lines' = lines
  BY <1>2, <1>3
<1>4. CASE lines' # lines
  <2>1. lines'[b][d] = IF b # wb THEN lines[b][d]
                       ELSE IF d = at[b] THEN lines[b]["pending"]
                       ELSE IF d = "pending" THEN <<>> ELSE lines[b][d]
    BY <1>1, <1>4, MoveRecordEffect
  <2>2. b = wb => lines'[b][at[b]] = lines[b]["pending"]
    BY <1>1, <1>4, MoveRecordEffect
  <2>3. CASE b # wb
    BY <1>2, <2>1, <2>3
  <2>4. CASE b = wb /\ d = "pending"
    BY <1>1, <1>2, <2>2, <2>4
  <2>5. CASE b = wb /\ d # "pending"
    <3>1. lines[b][d] = <<>>
      BY <1>1, <2>5 DEF DrainInv, HomeInv, LinesHome
    <3>2. lines'[b][d] \in Seq(Line)
      BY <1>1 DEF DrainTypeOK
    <3> QED BY <3>1, <3>2, GrowsByConcat
  <2> QED BY <2>3, <2>4, <2>5
<1> QED BY <1>3, <1>4

LEMMA GrowStep ==
    ASSUME DrainInv, [Next]_vars, NEW b \in Batch, NEW d \in LiveDir
    PROVE  \E f \in LiveDir : IsPrefix(lines[b][d], lines'[b][f])
<1>1. DrainTypeOK /\ lines[b][d] \in Seq(Line) /\ buf \in Seq(Line)
  BY DEF DrainInv, DrainTypeOK
<1>2. CASE lines' = lines
  BY <1>1, <1>2, GrowsByConcat
<1>3. CASE CloseGroup \/ CloseSession
  <2>1. lines'[b][d] = IF out = <<b, d>> THEN lines[b][d] \o buf ELSE lines[b][d]
    BY <1>1, <1>3, CloseFileEffect DEF CloseGroup, CloseSession
  <2> QED BY <1>1, <2>1, GrowsByConcat
<1>4. CASE Spill
  <2>1. lines'[b][d] = IF out = <<b, d>> THEN Append(lines[b][d], Head(buf))
                       ELSE lines[b][d]
    BY <1>1, <1>4, SpillEffect
  <2>2. Head(buf) \in Line /\ <<Head(buf)>> \in Seq(Line)
    BY <1>1, <1>4, HeadTailProperties DEF Spill
  <2>3. Append(lines[b][d], Head(buf)) = lines[b][d] \o <<Head(buf)>>
    BY <1>1, <2>2, AppendIsConcat
  <2> QED BY <1>1, <2>1, <2>2, <2>3, GrowsByConcat
<1>5. CASE MoveRecord
  BY <1>5, MoveRecordGrows
<1>6. CASE SDK \/ Process \/ UNCHANGED vars
  BY <1>2, <1>6 DEF SDK, Deliver, Replay, Process, Shutdown, Crash, Connect,
                    InitProcess, vars, fileVars
<1>7. CASE Drain /\ ~CloseGroup
  BY <1>2, <1>7 DEF Drain, GetEvent, Collect, TakeLock, ResolveEvent, NoRecord,
                    WriteGroup, GroupRaises, EndPass, fileVars
<1>8. CASE Worker /\ ~CloseSession /\ ~MoveRecord
  BY <1>2, <1>8 DEF Worker, StartCycle, PlaceOrder, RegisterOrder, OrderUnanswered,
                    CloseRaises, EndCycle, MoveDocument, fileVars
<1> QED BY <1>3, <1>4, <1>5, <1>6, <1>7, <1>8 DEF Next

(* Nothing that is on disk is written over or lost, whatever fails: the    *)
(* drain and the worker only append, and a batch that is moved has no      *)
(* record where it goes.                                                   *)
THEOREM RecordsGrow == Spec => RecordsOnlyGrow
<1>1. DrainInv /\ [Next]_vars =>
        [\A b \in Batch, d \in LiveDir :
            \E f \in LiveDir : IsPrefix(lines[b][d], lines'[b][f])]_vars
  BY GrowStep
<1> QED BY InitDrainInv, NextDrainInv, <1>1, PTL DEF Spec, RecordsOnlyGrow

-----------------------------------------------------------------------------
(* The sentinel.                                                           *)

SentinelInv == stopped <=> Stop \in Items(queue) \/ last \/ dpc = "exited"

LEMMA SentinelStep == DrainTypeOK /\ SentinelInv /\ [Next]_vars => SentinelInv'
<1> SUFFICES ASSUME DrainTypeOK, SentinelInv, [Next]_vars PROVE SentinelInv'
  OBVIOUS
<1> USE DEF SentinelInv
<1>0. queue \in Seq(Event \cup {Stop}) /\ Stop \notin Event
  BY Numbers DEF DrainTypeOK
<1>1. CASE UNCHANGED <<stopped, queue, last, dpc>>
  BY <1>1
<1>2. CASE \E o \in OrdId : Deliver(o)
  <2>1. PICK o \in OrdId : Deliver(o)
    BY <1>2
  <2> DEFINE e == [ord |-> o, n |-> sent[o] + 1]
  <2>2. /\ queue' = Append(queue, e) /\ UNCHANGED <<stopped, last, dpc>>
        /\ sent[o] \in 0..Events /\ sent[o] < Events /\ Events \in Nat
    BY <2>1, DrainAssumption DEF Deliver, drainVars, DrainTypeOK
  <2>3. e \in Event
    BY <2>2 DEF Event
  <2> HIDE DEF e
  <2>4. Items(queue') = Items(queue) \cup {e}
    BY <1>0, <2>2, <2>3, ItemsOfAppend
  <2> QED BY <1>0, <2>2, <2>3, <2>4
<1>3. CASE GetEvent \/ Collect
  <2>1. CASE queue # <<>> /\ queue' = Tail(queue)
    <3>1. Items(queue) = {Head(queue)} \cup Items(queue')
      BY <1>0, <2>1, ItemsOfTail
    <3> QED BY <1>3, <2>1, <3>1 DEF GetEvent, Collect
  <2>2. CASE queue = <<>>
    BY <1>3, <2>2 DEF GetEvent, Collect
  <2> QED BY <1>3, <2>1, <2>2 DEF GetEvent, Collect
<1>4. CASE EndPass
  BY <1>4 DEF EndPass
<1>5. CASE TakeLock \/ ResolveEvent \/ (\E b \in Batch : WriteGroup(b) \/ NoRecord(b))
           \/ CloseGroup \/ GroupRaises
  BY <1>5 DEF TakeLock, ResolveEvent, WriteGroup, NoRecord, CloseGroup, GroupRaises
<1>6. CASE Worker \/ Spill \/ Replay
  BY <1>1, <1>6 DEF Worker, StartCycle, PlaceOrder, RegisterOrder, OrderUnanswered,
     CloseSession, CloseRaises, EndCycle, MoveDocument, MoveRecord, Spill, Replay,
     drainVars
<1>7. CASE Shutdown
  <2>1. Items(queue') = Items(queue) \cup {Stop}
    BY <1>0, <1>7, ItemsOfAppend DEF Shutdown
  <2> QED BY <1>7, <2>1 DEF Shutdown
<1>8. CASE Crash
  BY <1>8, ItemsOfNone DEF Crash
<1>9. CASE Connect \/ InitProcess
  BY <1>9 DEF Connect, InitProcess
<1>10. CASE UNCHANGED vars
  BY <1>1, <1>10 DEF vars, drainVars
<1> QED BY <1>2, <1>3, <1>4, <1>5, <1>6, <1>7, <1>8, <1>9, <1>10
     DEF Next, SDK, Drain, Process

(* From shutdown on, and only then, the sentinel is on its way to the drain*)
(* or has ended it: no pass swallows it and no other way leads out of the  *)
(* loop.                                                                   *)
THEOREM SentinelStays == Spec => []SentinelIsKept
<1>1. Init => SentinelInv
  BY ItemsOfNone DEF Init, SentinelInv
<1>2. SentinelInv => SentinelIsKept
  BY DEF SentinelInv, SentinelIsKept, Items
<1>3. DrainTypeOK /\ [Next]_vars => DrainTypeOK'
  BY TypeStep
<1> QED BY InitType, <1>1, <1>2, <1>3, SentinelStep, PTL DEF Spec
=============================================================================
