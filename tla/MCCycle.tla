------------------------------ MODULE MCCycle -------------------------------
(* Small instances of the cycle for TLC.                                   *)
EXTENDS CycleProperties, TLC

CONSTANTS s1, s2

D(v, e, ok, syms, target) ==
    [valid |-> v, expires |-> e, ok |-> ok, syms |-> syms, target |-> target]

Ask(n) == [s \in Symbol |-> n]

Flat == {Ask(0)}

(* Batch 1 can be killed early, batch 2 overlaps its long version but not  *)
(* its short one, and asks for less, so that it sells.                     *)
KillDocs == 1 :> {D(1, 3, TRUE, Symbol, Ask(2)), D(1, 2, TRUE, Symbol, Ask(2))}
         @@ 2 :> {D(3, 4, TRUE, Symbol, Ask(0))}

(* Batch 1 buys two symbols, batch 2 sells one of them again; its window   *)
(* opens in the last moment of batch 1's.                                  *)
PairDocs == 1 :> {D(1, 2, TRUE, {s1, s2}, Ask(1))}
         @@ 2 :> {D(2, 3, TRUE, {s1}, Ask(0))}

(* Batch 1 may be damaged by an edit, batch 2 postponed out of its overlap *)
(* with batch 1.                                                           *)
EditDocs == 1 :> {D(1, 2, TRUE, Symbol, Ask(1)), D(1, 2, FALSE, Symbol, Ask(1))}
         @@ 2 :> {D(2, 4, TRUE, Symbol, Ask(0)), D(3, 4, TRUE, Symbol, Ask(0))}

(* Two windows that overlap until batch 1 expires.                         *)
ClashDocs == 1 :> {D(1, 2, TRUE, Symbol, Ask(1)), D(1, 2, FALSE, Symbol, Ask(1))}
          @@ 2 :> {D(2, 3, TRUE, Symbol, Ask(0))}

Symmetric == Permutations(OrdId)
=============================================================================
