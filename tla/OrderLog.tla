------------------------------ MODULE OrderLog ------------------------------
(***************************************************************************)
(* order_log.py: where each batch's <id>.json and <id>.order_record.jsonl  *)
(* live, the lines the record holds on disk, the buffered lines of the one *)
(* open cycle_session, and the in-memory index cl_ord_id -> batch.         *)
(* Of a line only the kind and the order or symbol it is about is kept;    *)
(* the status and trade lines of the drain are in no property of a cycle.  *)
(***************************************************************************)
EXTENDS Domain

VARIABLES
    at,       \* at[b]: the directory of <b>.json, or "absent"
    doc,      \* doc[b]: what <b>.json says (meaningless while absent)
    recAt,    \* recAt[b]: the directory of the order record, or "none"
    lines,    \* lines[b]: the record's lines that have reached the OS
    buf,      \* lines written to the open session's file object only
    index     \* clord_index: client order id -> batch

logVars == <<at, doc, recAt, lines, buf, index>>

LiveDir == {"pending", "finished", "expired"}
Terminal == {"finished", "expired", "failed"}
Line == ({"submit", "cancel"} \X OrdId) \cup ({"cap"} \X Symbol)

LogTypeOK ==
    /\ at \in [Batch -> LiveDir \cup {"absent", "failed"}]
    /\ doc \in [Batch -> Doc]
    /\ \A b \in Batch : doc[b] \in Docs[b]
    /\ recAt \in [Batch -> LiveDir \cup {"none"}]
    /\ lines \in [Batch -> SUBSET Line]
    /\ buf \subseteq Line
    /\ index \in [OrdId -> Batch \cup {NoBatch}]

LogInit ==
    /\ at = [b \in Batch |-> "absent"]
    /\ doc = [b \in Batch |-> CHOOSE d \in Docs[b] : TRUE]
    /\ recAt = [b \in Batch |-> "none"]
    /\ lines = [b \in Batch |-> {}]
    /\ buf = {}
    /\ index = [o \in OrdId |-> NoBatch]

Pending == {b \in Batch : at[b] = "pending"}

(* _own_cl_ord_ids: the order ids in the submit lines on disk.             *)
Submitted(b) == {o \in OrdId : <<"submit", o>> \in lines[b]}

(* _Session.append: the first one opens (and so creates) the record in     *)
(* pending/; the line stays in the file object's buffer.                   *)
OpenRecord(b) == recAt' = [recAt EXCEPT ![b] = "pending"]
AppendLine(b, new) == OpenRecord(b) /\ buf' = buf \cup new

(* _Session._close: the buffer reaches the OS.                             *)
Close(b) ==
    /\ lines' = [lines EXCEPT ![b] = @ \cup buf]
    /\ buf' = {}

(* The buffer fills up and is written out before the session closes.       *)
Spill(b) == buf # {} /\ Close(b)

(* move_pair moves the document first, then the record, if it exists.      *)
MoveDoc(b, dst) == at' = [at EXCEPT ![b] = dst]

(* Mutant: the record is left behind.                                      *)
LeaveRecord(b, dst) == recAt' = recAt
MoveRecordTo(b, dst) ==
    recAt' = [recAt EXCEPT ![b] = IF @ = "none" THEN @ ELSE dst]

(* Mutant: only the records of pending batches are scanned.                *)
ScansPending(b) == {IF at[b] = "pending" THEN Submitted(b) ELSE {}}

(* _scan_submits: the order ids it may have found in b's record when it    *)
(* returns. It swallows a read error; the lines it read before still count.*)
Scans(b) == IF "disk" \in Faults THEN SUBSET Submitted(b) ELSE {Submitted(b)}

(* rebuild_clord_index scans the record of each batch, in every live       *)
(* directory.                                                              *)
Rebuilt(found, o) == IF \E b \in Batch : o \in found[b]
                     THEN CHOOSE b \in Batch : o \in found[b] ELSE NoBatch
RebuildIndex == \E found \in [Batch -> SUBSET OrdId] :
    /\ \A b \in Batch : found[b] \in Scans(b)
    /\ index' = [o \in OrdId |-> Rebuilt(found, o)]
=============================================================================
