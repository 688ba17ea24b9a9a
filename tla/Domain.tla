------------------------------- MODULE Domain -------------------------------
(***************************************************************************)
(* The vocabulary of file_executor shared by every module: batches, the    *)
(* documents that describe them, symbols, client order ids, the clock, and *)
(* the set of things that the environment may do wrong.                    *)
(***************************************************************************)
EXTENDS Integers, FiniteSets

CONSTANTS
    Batch,       \* batch ids; numbers, so that sorted(glob) has an order
    NoBatch,     \* "no batch": owner of a manual order, absent index entry
    Symbol,      \* traded symbols
    OrdId,       \* client order ids the broker can hand out (bounds orders)
    Opening,     \* the positions the account may open with
    Docs,        \* Docs[b]: the versions of <b>.json the publisher may push
    MaxTime,     \* the clock saturates here, after every window
    Grace,       \* CYCLE_GRACE_SECONDS, in ticks
    Settle,      \* ticks until a restored link answers queries in full
    Faults       \* what the environment does wrong in this model, see Fault

(* A batch document, reduced to what the cycle reads: BatchDoc with its    *)
(* orders as the set of symbols and their targets. ok is FALSE for a file  *)
(* that parse_and_validate refuses though the connector's peek accepts it. *)
Time == 1..MaxTime

Doc == [valid : Time, expires : Time, ok : BOOLEAN,
        syms : SUBSET Symbol, target : [Symbol -> Nat]]

(* torn:   an order fills or ends between the two broker queries           *)
(* drop:   the link goes down for a while between cycles                   *)
(* gap:    the link drops, or its callbacks are late, around the guards    *)
(* late:   the worker looks while on_trade_data_connected is running       *)
(* manual: a human trades on the same account                              *)
(* ack:    order_volume raises or returns nothing                          *)
(* cancel: order_cancel raises                                             *)
(* query:  get_position or get_unfinished_orders raises                    *)
(* disk:   opening, closing, reading or moving a file fails                *)
(* crash:  the process dies                                                *)
Fault == {"torn", "drop", "gap", "late", "manual", "ack", "cancel", "query",
          "disk", "crash"}

ASSUME BatchAssumption == Batch \subseteq Nat /\ NoBatch \notin Batch
ASSUME SymbolAssumption == Symbol # {}
ASSUME ClockAssumption == MaxTime \in Nat /\ MaxTime > 0
ASSUME OpeningAssumption == Opening \subseteq [Symbol -> Nat]
ASSUME GraceAssumption == Grace \in Nat /\ Settle \in Nat /\ Settle <= Grace
ASSUME FaultAssumption == Faults \subseteq Fault

(* Every version has an expiry the clock can pass, so that the saturated   *)
(* clock stands for every later moment.                                    *)
ASSUME DocsAssumption ==
    /\ Docs \in [Batch -> SUBSET Doc]
    /\ \A b \in Batch : Docs[b] # {}
    /\ \A b \in Batch : \A d \in Docs[b] : d.expires < MaxTime
    /\ \A b \in Batch : \A d \in Docs[b] : d.ok => d.valid < d.expires

(* A tick count that has stopped mattering: an age at its cap.             *)
Older(age, cap) == IF age < cap THEN age + 1 ELSE age
=============================================================================
