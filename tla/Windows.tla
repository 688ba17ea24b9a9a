------------------------------ MODULE Windows -------------------------------
(***************************************************************************)
(* The overlap check of cycle.py as the code runs it, on a list sorted by  *)
(* valid_at, and as the cycle needs it, between any two of a set of        *)
(* batches. w[b] is a document with valid and expires.                     *)
(***************************************************************************)
EXTENDS Integers, Sequences

(* seen.sort(key = valid_at): what the sort leaves behind.                 *)
SortedByStart(list, w) == \A i, j \in 1..Len(list) :
    i < j => w[list[i]].valid <= w[list[j]].valid

(* _has_overlap: neighbours only.                                          *)
HasOverlap(list, w) == \E i \in 1..Len(list) - 1 :
    w[list[i]].expires >= w[list[i + 1]].valid

(* Mutant: windows that share one moment do not overlap.                   *)
SomeOverlapStrict(S, w) == \E a, b \in S :
    /\ a # b
    /\ w[a].valid <= w[b].valid
    /\ w[a].expires > w[b].valid

(* Two different batches of S whose windows share a moment.                *)
SomeOverlap(S, w) == \E a, b \in S :
    /\ a # b
    /\ w[a].valid <= w[b].valid
    /\ w[a].expires >= w[b].valid

(* The batches whose window holds the moment m.                            *)
ActiveAt(S, w, m) == {b \in S : w[b].valid <= m /\ m <= w[b].expires}
=============================================================================
