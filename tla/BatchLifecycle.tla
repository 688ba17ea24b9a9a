--------------------------- MODULE BatchLifecycle ---------------------------
(***************************************************************************)
(* What the executor promises about batches, without cycles, files or      *)
(* clocks: a batch is imported once, trades only while it is pending, has  *)
(* at most one order open per symbol across all batches, and is closed for *)
(* good; it finishes only with none of its orders open, but may expire or  *)
(* fail with some.                                                         *)
(***************************************************************************)
CONSTANTS Batch, Symbol

VARIABLES
    phase,   \* the stage of each batch
    open     \* the symbols on which each batch has an order open

Closed == {"finished", "expired", "failed"}

Init ==
    /\ phase = [b \in Batch |-> "absent"]
    /\ open = [b \in Batch |-> {}]

Import(b) ==
    /\ phase[b] = "absent"
    /\ phase' = [phase EXCEPT ![b] = "pending"]
    /\ UNCHANGED open

OpenOrder(b, s) ==
    /\ phase[b] = "pending"
    /\ \A c \in Batch : s \notin open[c]
    /\ open' = [open EXCEPT ![b] = @ \cup {s}]
    /\ UNCHANGED phase

OrderEnds(b, s) ==
    /\ s \in open[b]
    /\ open' = [open EXCEPT ![b] = @ \ {s}]
    /\ UNCHANGED phase

Conclude(b, stage) ==
    /\ phase[b] = "pending"
    /\ stage = "finished" => open[b] = {}
    /\ phase' = [phase EXCEPT ![b] = stage]
    /\ UNCHANGED open

Next == \E b \in Batch :
    \/ Import(b)
    \/ \E s \in Symbol : OpenOrder(b, s) \/ OrderEnds(b, s)
    \/ \E stage \in Closed : Conclude(b, stage)

Spec == Init /\ [][Next]_<<phase, open>>
=============================================================================
