-------------------------- MODULE ConnectorProofs ---------------------------
(***************************************************************************)
(* Types, the mirror is current, and cycles trade by well-formed batches   *)
(* only: for any files, versions, edits and order of the listing, under    *)
(* every fault of Connector.                                               *)
(***************************************************************************)
EXTENDS ConnectorProperties, TLAPS

(* What the cycle accepts, the connector has not kept out: each batch that *)
(* parse_and_validate would take can be peeked at and is not refused.      *)
LEMMA AcceptedIsMirrored ==
    ASSUME NEW stem, NEW raw \in Raw, Accepts(stem, raw)
    PROVE  Peekable(raw) /\ ~Refused(raw) /\ IdOf(raw) = stem
<1>1. /\ {"batch_id", "valid_at", "expires_at"} \subseteq DOMAIN raw.v
      /\ \A key \in {"valid_at", "expires_at"} : raw.v[key].kind = "int"
  BY DEF Accepts, Has, Natural
<1>2. Peekable(raw)
  BY <1>1 DEF Accepts, Peekable, Has
<1>3. /\ ValidAt(raw) \in Int /\ ExpiresAt(raw) \in Int
      /\ ValidAt(raw) < ExpiresAt(raw)
  BY <1>2, ConnectorAssumption DEF Accepts, ValidAt, ExpiresAt
<1> QED
  BY <1>2, <1>3 DEF Accepts, Refused, IdOf

-----------------------------------------------------------------------------
(* While the connector is in a pass, and once the timer runs, the files    *)
(* that the pass has gone over are mirrored. A file is in todo from the    *)
(* pull that may change it on.                                             *)
Mirrored == \A b \in Pending : \A f \in File \ (todo \cup missed) :
    Speaks(f, b) => pend[b] = clone[f]

MirrorInv ==
    /\ at \in [Batch -> {"none", "pending"} \cup Terminal]
    /\ pend \in [Batch -> Raw \cup {Absent}]
    /\ clone \in [File -> Raw \cup {Absent}] /\ repo \in [File -> Raw \cup {Absent}]
    /\ todo \subseteq In(clone)
    /\ cpc = "down" => ~serving
    /\ serving \/ cpc = "scan" => Mirrored

LEMMA InitMirror == Init => MirrorInv
BY ConnectorAssumption
   DEF Init, MirrorInv, Mirrored, Pending, In, Terminal, Raw

(* A pass that starts has all files of the clone still to go over.         *)
LEMMA PassStarts ==
    ASSUME MirrorInv, Pull \/ PullFails
    PROVE  MirrorInv'
<1>1. /\ clone' \in [File -> Raw \cup {Absent}] /\ todo' = In(clone)'
      /\ UNCHANGED <<at, pend, repo, serving>> /\ cpc' = "scan"
  BY DEF MirrorInv, Pull, PullFails, StartPass, In
<1>2. Mirrored'
  BY <1>1 DEF Mirrored, Speaks
<1> QED
  BY <1>1, <1>2 DEF MirrorInv

LEMMA FileMirrored ==
    ASSUME MirrorInv, NEW f \in File, MirrorOne(f)
    PROVE  MirrorInv'
<1> DEFINE raw == clone[f]
           b == IdOf(raw)
<1>1. /\ f \in In(clone) /\ todo' = todo \ {f} /\ cpc = "scan"
      /\ UNCHANGED <<clone, repo, serving, missed, cpc>>
  BY DEF MirrorInv, MirrorOne, Takes, KeepPass
<1>2. raw \in Raw
  BY <1>1 DEF MirrorInv, In
<1>3. CASE Skipped(raw)
  <2>1. UNCHANGED <<at, pend>>
    BY <1>3 DEF MirrorOne
  <2>2. \A c \in Pending : Speaks(f, c) => pend[c] = raw
    BY <1>3 DEF Skipped, Speaks, Claims, Pending, Terminal
  <2> QED
    BY <1>1, <2>1, <2>2 DEF MirrorInv, Mirrored, Pending, Speaks, Claims, In
<1>4. CASE ~Skipped(raw)
  <2>1. Peekable(raw) /\ b \in Batch
    BY <1>2, <1>4 DEF Skipped, Batch
  <2>2. at' = [at EXCEPT ![b] = "pending"] /\ pend' = [pend EXCEPT ![b] = raw]
    BY <1>4 DEF MirrorOne
  <2>3. \A c \in Batch : c # b => at'[c] = at[c] /\ pend'[c] = pend[c]
    BY <2>2 DEF MirrorInv
  <2>4. pend'[b] = raw
    BY <2>1, <2>2 DEF MirrorInv
  <2>5. \A g \in File \ {f} : ~Speaks(g, b)
    BY <1>1, <2>1 DEF Speaks, Claims
  <2>6. \A c \in Batch \ {b} : ~Speaks(f, c)
    BY DEF Speaks, Claims
  <2>7. \A g \in File, c \in Batch : Speaks(g, c)' = Speaks(g, c)
    BY <1>1 DEF Speaks, Claims, In
  <2>8. Mirrored'
    <3> SUFFICES ASSUME NEW c \in Pending', NEW g \in File \ (todo' \cup missed'),
                        Speaks(g, c)
                 PROVE  pend'[c] = clone[g]
      BY <1>1, <2>7 DEF Mirrored, Pending
    <3>1. CASE c = b
      BY <3>1, <2>4, <2>5
    <3>2. CASE c # b
      BY <3>2, <1>1, <2>3, <2>6 DEF MirrorInv, Mirrored, Pending
    <3> QED
      BY <3>1, <3>2
  <2>9. pend' \in [Batch -> Raw \cup {Absent}]
        /\ at' \in [Batch -> {"none", "pending"} \cup Terminal]
    BY <1>2, <2>1, <2>2 DEF MirrorInv
  <2> QED
    BY <1>1, <2>8, <2>9 DEF MirrorInv, In
<1> QED
  BY <1>3, <1>4

(* A cycle closes batches and brings none back.                            *)
LEMMA CycleKeepsMirror ==
    ASSUME MirrorInv, RunCycle
    PROVE  MirrorInv'
<1>1. UNCHANGED <<repo, clone, pend, cpc, todo, serving, missed>>
  BY DEF RunCycle
<1>2. PICK matched \in SUBSET Batch :
        at' = [b \in Batch |->
                IF b \in Invalid THEN "failed"
                ELSE IF b \in Expired THEN "expired"
                ELSE IF b \in matched THEN "finished" ELSE at[b]]
  BY DEF RunCycle, Active, Seen, Pending
<1>3. at' \in [Batch -> {"none", "pending"} \cup Terminal] /\ Pending' \subseteq Pending
  BY <1>2 DEF MirrorInv, Terminal, Pending
<1> QED
  BY <1>1, <1>3 DEF MirrorInv, Mirrored, Speaks, Claims, In

LEMMA NextMirror == MirrorInv /\ [Next]_vars => MirrorInv'
<1> SUFFICES ASSUME MirrorInv, [Next]_vars PROVE MirrorInv'
  OBVIOUS
<1>1. CASE Pull \/ PullFails
  BY <1>1, PassStarts
<1>2. CASE \E f \in File : MirrorOne(f)
  BY <1>2, FileMirrored
<1>3. ASSUME NEW f \in File, CopyFails(f) PROVE MirrorInv'
  BY <1>3 DEF CopyFails, Takes, KeepPass, MirrorInv, Mirrored, Pending, Speaks,
              Claims, In
<1>4. CASE EndPass \/ NextPass \/ Clock \/ Crash \/ Restart \/ UNCHANGED vars
  BY <1>4 DEF EndPass, NextPass, KeepPass, Clock, Crash, Restart, vars, MirrorInv,
              Mirrored, Pending, Speaks, Claims, In
<1>5. CASE Publish
  <2>1. repo' \in [File -> Raw \cup {Absent}]
    BY <1>5, ConnectorAssumption DEF Publish, MirrorInv, Raw
  <2> QED
    BY <1>5, <2>1 DEF Publish, MirrorInv, Mirrored, Pending, Speaks, Claims, In
<1>6. CASE RunCycle
  BY <1>6, CycleKeepsMirror
<1> QED
  BY <1>1, <1>2, <1>3, <1>4, <1>5, <1>6 DEF Next, Connect, Scan

-----------------------------------------------------------------------------
(* Types. That a batch has bytes exactly if it has been seen takes the     *)
(* cycle's care to close pending batches only.                             *)

LEMMA InitType == Init => ConnectorTypeOK
<1> SUFFICES ASSUME Init PROVE ConnectorTypeOK
  OBVIOUS
<1>1. t \in 0..MaxTime /\ passNow \in 0..MaxTime /\ edits \in 0..Edits
  BY ConnectorAssumption DEF Init
<1>2. \A f \in File : {repo[f], clone[f]} \subseteq Docs[f] \cup {Absent}
  BY ConnectorAssumption DEF Init
<1>3. /\ at \in [Batch -> {"none", "pending"} \cup Terminal]
      /\ \A b \in Batch : pend[b] = Absent <=> at[b] = "none"
  BY DEF Init
<1>4. /\ cpc \in {"pull", "scan", "rest", "down"} /\ todo \subseteq In(clone)
      /\ serving \in BOOLEAN /\ missed \subseteq File /\ traded \subseteq Raw
  BY DEF Init
<1> QED
  BY <1>1, <1>2, <1>3, <1>4 DEF ConnectorTypeOK

LEMMA CycleKeepsType ==
    ASSUME ConnectorTypeOK, MirrorInv, RunCycle
    PROVE  ConnectorTypeOK'
<1>1. UNCHANGED <<t, repo, edits, clone, pend, cpc, todo, passNow, serving, missed>>
  BY DEF RunCycle
<1>2. PICK trading \in SUBSET Pending, matched \in SUBSET Pending :
        /\ traded' = {pend[b] : b \in trading}
        /\ at' = [b \in Batch |->
                IF b \in Invalid THEN "failed"
                ELSE IF b \in Expired THEN "expired"
                ELSE IF b \in matched THEN "finished" ELSE at[b]]
  BY DEF RunCycle, Active, Seen
<1>3. /\ at' \in [Batch -> {"none", "pending"} \cup Terminal]
      /\ \A b \in Batch : at'[b] = "none" <=> at[b] = "none"
  BY <1>2 DEF ConnectorTypeOK, Invalid, Expired, Pending, Terminal
<1>4. traded' \subseteq Raw
  BY <1>2 DEF ConnectorTypeOK, MirrorInv, Pending
<1> QED
  BY <1>1, <1>3, <1>4 DEF ConnectorTypeOK, In

LEMMA FileKeepsType ==
    ASSUME ConnectorTypeOK, MirrorInv, NEW f \in File, MirrorOne(f)
    PROVE  ConnectorTypeOK'
<1>1. /\ todo' = todo \ {f} /\ f \in In(clone)
      /\ UNCHANGED <<t, repo, edits, clone, passNow, serving, traded, cpc, missed>>
  BY DEF ConnectorTypeOK, MirrorOne, Takes, KeepPass
<1>2. clone[f] \in Raw /\ clone[f] # Absent
  BY <1>1 DEF MirrorInv, In
<1>3. /\ at' \in [Batch -> {"none", "pending"} \cup Terminal]
      /\ \A b \in Batch : pend'[b] = Absent <=> at'[b] = "none"
  <2>1. CASE Skipped(clone[f])
    BY <2>1 DEF MirrorOne, ConnectorTypeOK
  <2>2. CASE ~Skipped(clone[f])
    <3>1. IdOf(clone[f]) \in Batch
      BY <2>2, <1>2 DEF Skipped, Batch
    <3>2. /\ at' = [at EXCEPT ![IdOf(clone[f])] = "pending"]
          /\ pend' = [pend EXCEPT ![IdOf(clone[f])] = clone[f]]
      BY <2>2 DEF MirrorOne
    <3> QED
      BY <3>1, <3>2, <1>2 DEF ConnectorTypeOK, MirrorInv, Terminal
  <2> QED
    BY <2>1, <2>2
<1> QED
  BY <1>1, <1>3 DEF ConnectorTypeOK, In

(* Every variable keeps its type, and pending/ has had bytes for exactly   *)
(* the batches that have been seen.                                        *)
THEOREM ConnectorTypeCorrect == Spec => []ConnectorTypeOK
<1>1. ConnectorTypeOK /\ MirrorInv /\ [Next]_vars => ConnectorTypeOK'
  <2> SUFFICES ASSUME ConnectorTypeOK, MirrorInv, [Next]_vars PROVE ConnectorTypeOK'
    OBVIOUS
  <2>1. CASE Pull \/ PullFails
    BY <2>1 DEF Pull, PullFails, StartPass, ConnectorTypeOK, In
  <2>2. ASSUME NEW f \in File, CopyFails(f) PROVE ConnectorTypeOK'
    BY <2>2 DEF CopyFails, Takes, KeepPass, ConnectorTypeOK, In
  <2>3. CASE EndPass \/ NextPass \/ Restart \/ UNCHANGED vars
    BY <2>3 DEF EndPass, NextPass, KeepPass, Restart, vars, ConnectorTypeOK, In
  <2>4. CASE Crash
    <3>1. 0 \in 0..MaxTime
      BY ConnectorAssumption
    <3> QED
      BY <2>4, <3>1 DEF Crash, ConnectorTypeOK, In
  <2>5. CASE Clock
    BY <2>5, ConnectorAssumption DEF Clock, ConnectorTypeOK, In
  <2>6. CASE Publish
    <3>1. edits' \in 0..Edits
      BY <2>6, ConnectorAssumption DEF Publish, ConnectorTypeOK
    <3>2. \A f \in File : repo'[f] \in Docs[f] \cup {Absent}
      BY <2>6 DEF Publish, ConnectorTypeOK, MirrorInv
    <3> QED
      BY <2>6, <3>1, <3>2 DEF Publish, ConnectorTypeOK, In
  <2> QED
    BY <2>1, <2>2, <2>3, <2>4, <2>5, <2>6, CycleKeepsType,
       FileKeepsType DEF Next, Connect, Scan
<1> QED
  BY InitType, InitMirror, NextMirror, <1>1, PTL DEF Spec

-----------------------------------------------------------------------------
(* Whenever a cycle runs, pending/ holds what the clone says of each batch *)
(* that one unrefused file names, as far as the pass has got; also in the  *)
(* first cycle after any start or crash.                                   *)
THEOREM MirrorStaysCurrent == Spec => []MirrorIsCurrent
<1>1. MirrorInv => MirrorIsCurrent
  BY DEF MirrorInv, Mirrored, MirrorIsCurrent
<1> QED
  BY InitMirror, NextMirror, <1>1, PTL DEF Spec

-----------------------------------------------------------------------------
(* seen_symbols only looks back: that is enough for no symbol to occur     *)
(* twice anywhere in the list.                                             *)
LEMMA AcceptedIsWellFormed ==
    ASSUME NEW b, NEW d \in Raw, Accepts(b, d)
    PROVE  WellFormed(d)
<1> DEFINE o == d.v["orders"].v
<1>1. IsList(o)
  BY ConnectorAssumption DEF Accepts
<1>2. \A i \in DOMAIN o : \A k \in 1..i - 1 :
        o[i].v["symbol"].v # o[k].v["symbol"].v
  BY DEF Accepts, OrderOK
<1>3. ASSUME NEW i \in DOMAIN o, NEW k \in DOMAIN o,
             o[i].v["symbol"] = o[k].v["symbol"], i # k
      PROVE  FALSE
  <2>1. i \in Nat /\ k \in Nat /\ i >= 1 /\ k >= 1
    BY <1>1 DEF IsList
  <2>2. k \in 1..i - 1 \/ i \in 1..k - 1
    BY <1>3, <2>1
  <2> QED
    BY <1>2, <1>3, <2>2
<1>4. ValidAt(d) < ExpiresAt(d)
  BY DEF Accepts, ValidAt, ExpiresAt
<1> QED
  BY <1>3, <1>4 DEF WellFormed

(* Whatever files the publisher pushes, a cycle trades by none that orders *)
(* a symbol twice or has no window: what the connector lets through        *)
(* unread, the cycle checks before it trades.                              *)
THEOREM OnlyWellFormedTrades == Spec => []TradesWellFormed
<1> DEFINE Inv == MirrorInv /\ (\A b \in Pending : pend[b] \in Raw)
                            /\ TradesWellFormed
<1>1. Init => Inv
  BY InitMirror DEF Init, Pending, TradesWellFormed
<1>2. Inv /\ [Next]_vars => Inv'
  <2> SUFFICES ASSUME Inv, [Next]_vars PROVE Inv'
    OBVIOUS
  <2>1. MirrorInv'
    BY NextMirror
  <2>2. CASE RunCycle
    <3>1. Pending' \subseteq Pending /\ UNCHANGED pend
      BY <2>2 DEF RunCycle, Pending, Active, Seen
    <3>2. \A d \in traded' : \E b \in Active : d = pend[b]
      BY <2>2 DEF RunCycle
    <3>3. \A b \in Active : pend[b] \in Raw /\ Accepts(b, pend[b])
      BY DEF Active, Seen, Invalid
    <3>4. TradesWellFormed'
      BY <3>2, <3>3, AcceptedIsWellFormed DEF TradesWellFormed, WellFormed
    <3> QED
      BY <2>1, <3>1, <3>4
  <2>3. ASSUME NEW f \in File, MirrorOne(f) PROVE Inv'
    <3>1. clone[f] \in Raw /\ traded' = traded
      BY <2>3 DEF MirrorInv, MirrorOne, Takes, KeepPass, In
    <3>2. \A b \in Pending' : pend'[b] \in Raw
      BY <2>3, <3>1 DEF MirrorOne, MirrorInv, Pending
    <3> QED
      BY <2>1, <3>1, <3>2 DEF TradesWellFormed, WellFormed
  <2>4. CASE UNCHANGED <<at, pend>> /\ traded' \subseteq traded
    BY <2>1, <2>4 DEF Pending, TradesWellFormed, WellFormed
  <2> QED
    BY <2>2, <2>3, <2>4
       DEF Next, Connect, Scan, Pull, PullFails, StartPass, CopyFails, EndPass,
           NextPass, KeepPass, Clock, Crash, Restart, Publish, vars
<1>3. Inv => TradesWellFormed
  OBVIOUS
<1> QED
  BY <1>1, <1>2, <1>3, PTL DEF Spec
=============================================================================
