--------------------------- MODULE WindowsProofs ----------------------------
(***************************************************************************)
(* Why _has_overlap may compare neighbours only, and why run_cycle may     *)
(* take active[0]. parse_and_validate guarantees valid_at < expires_at.    *)
(***************************************************************************)
EXTENDS Windows, TLAPS

(* Two positions of a list, one before the other: the earlier one has a    *)
(* right neighbour, at or before the later one.                            *)
LEMMA Neighbour ==
    ASSUME NEW n \in Nat, NEW i \in 1..n, NEW j \in 1..n, i < j
    PROVE  /\ i \in 1..n - 1
           /\ i + 1 \in 1..n
           /\ i + 1 = j \/ i + 1 < j
OBVIOUS

(* A window that starts no earlier than x ends no earlier than x.          *)
LEMMA EndsLater ==
    ASSUME NEW x \in Int, NEW start \in Int, NEW end \in Int,
           x <= start, start < end
    PROVE  end >= x
OBVIOUS

(* On a sorted list, a window that reaches the start of any later one      *)
(* reaches the start of its neighbour.                                     *)
LEMMA ReachesNeighbour ==
    ASSUME NEW list, NEW w, Len(list) \in Nat,
           \A i \in 1..Len(list) : /\ w[list[i]].valid \in Int
                                   /\ w[list[i]].expires \in Int,
           SortedByStart(list, w),
           NEW i \in 1..Len(list), NEW j \in 1..Len(list), i < j,
           w[list[i]].expires >= w[list[j]].valid
    PROVE  HasOverlap(list, w)
<1>1. /\ i \in 1..Len(list) - 1
      /\ i + 1 \in 1..Len(list)
      /\ i + 1 = j \/ i + 1 < j
  BY Neighbour
<1>2. CASE i + 1 = j
  BY <1>1, <1>2 DEF HasOverlap
<1>3. CASE i + 1 < j
  <2>1. w[list[i + 1]].valid <= w[list[j]].valid
    BY <1>1, <1>3 DEF SortedByStart
  <2>2. /\ w[list[i]].expires \in Int
        /\ w[list[i + 1]].valid \in Int
        /\ w[list[j]].valid \in Int
    BY <1>1
  <2>3. w[list[i]].expires >= w[list[i + 1]].valid
    BY <2>1, <2>2
  <2> QED
    BY <1>1, <2>3 DEF HasOverlap
<1> QED
  BY <1>1, <1>2, <1>3

(* On a list sorted by valid_at that holds each batch once, comparing      *)
(* neighbours finds an overlap exactly if some two windows overlap.        *)
THEOREM AdjacentCheckSuffices ==
    ASSUME NEW S, NEW w,
           \A b \in S : w[b].valid \in Int /\ w[b].expires \in Int
                        /\ w[b].valid < w[b].expires,
           NEW list \in Seq(S),
           \A b \in S : \E i \in 1..Len(list) : list[i] = b,
           \A i, j \in 1..Len(list) : list[i] = list[j] => i = j,
           SortedByStart(list, w)
    PROVE  HasOverlap(list, w) <=> SomeOverlap(S, w)
<1>1. Len(list) \in Nat /\ \A i \in 1..Len(list) : list[i] \in S
  OBVIOUS
<1>2. ASSUME HasOverlap(list, w) PROVE SomeOverlap(S, w)
  <2>1. PICK i \in 1..Len(list) - 1 : w[list[i]].expires >= w[list[i + 1]].valid
    BY <1>2 DEF HasOverlap
  <2>2. i \in 1..Len(list) /\ i + 1 \in 1..Len(list) /\ i < i + 1
    <3>1. Len(list) \in Nat
      BY <1>1
    <3>2. \A n \in Nat : \A k \in 1..n - 1 : k \in 1..n /\ k + 1 \in 1..n /\ k < k + 1
      OBVIOUS
    <3> QED
      BY <3>1, <3>2
  <2>3. list[i] # list[i + 1]
    BY <2>2
  <2>4. w[list[i]].valid <= w[list[i + 1]].valid
    BY <2>2 DEF SortedByStart
  <2> QED
    BY <1>1, <2>1, <2>2, <2>3, <2>4 DEF SomeOverlap
<1>3. ASSUME SomeOverlap(S, w) PROVE HasOverlap(list, w)
  <2>1. PICK a \in S, b \in S : a # b /\ w[a].valid <= w[b].valid
                                /\ w[a].expires >= w[b].valid
    BY <1>3 DEF SomeOverlap
  <2>2. PICK i \in 1..Len(list) : list[i] = a
    OBVIOUS
  <2>3. PICK j \in 1..Len(list) : list[j] = b
    OBVIOUS
  <2>4. CASE i < j
    BY <1>1, <2>1, <2>2, <2>3, <2>4, ReachesNeighbour
  <2>5. CASE j < i
    \* The later one in the list cannot start earlier: b reaches past a's start.
    <3>1. w[b].expires >= w[a].valid
      <4>1. /\ w[a].valid \in Int /\ w[b].valid \in Int
            /\ w[b].expires \in Int /\ w[b].valid < w[b].expires
        OBVIOUS
      <4> QED
        BY <2>1, <4>1, EndsLater
    <3> QED
      BY <1>1, <2>2, <2>3, <2>5, <3>1, ReachesNeighbour
  <2>6. i < j \/ j < i
    <3>1. i # j
      BY <2>1, <2>2, <2>3
    <3> QED
      BY <1>1, <3>1
  <2> QED
    BY <2>4, <2>5, <2>6
<1> QED
  BY <1>2, <1>3

(* Where no two windows overlap, at most one of them is active at any      *)
(* moment: active[0] is the only active batch.                             *)
THEOREM AtMostOneActive ==
    ASSUME NEW S, NEW w, NEW m \in Int,
           \A b \in S : w[b].valid \in Int /\ w[b].expires \in Int,
           ~SomeOverlap(S, w)
    PROVE  \A a, b \in ActiveAt(S, w, m) : a = b
<1> SUFFICES ASSUME NEW a \in ActiveAt(S, w, m), NEW b \in ActiveAt(S, w, m),
                    a # b
             PROVE  FALSE
  OBVIOUS
<1>1. CASE w[a].valid <= w[b].valid
  BY <1>1 DEF ActiveAt, SomeOverlap
<1>2. CASE w[b].valid <= w[a].valid
  BY <1>2 DEF ActiveAt, SomeOverlap
<1> QED
  BY <1>1, <1>2 DEF ActiveAt
=============================================================================
