------------------------------- MODULE Broker -------------------------------
(***************************************************************************)
(* The broker behind gm.api, as cycle.py uses it: positions, the order     *)
(* book, order_volume, order_cancel. External code: nothing here is under  *)
(* src/, only the calls to it are. An order's owner, target and st are     *)
(* history kept for the properties: the broker knows no batch.             *)
(***************************************************************************)
EXTENDS Domain

VARIABLES
    held,    \* held[s]: the account's long volume of s
    book     \* book[o]: the order with client id o

brokerVars == <<held, book>>

Order == [st : {"unused", "live", "done"}, sym : Symbol, buy : BOOLEAN,
          left : Nat, tgt : Nat, owner : Batch \cup {NoBatch},
          asked : BOOLEAN]

BrokerTypeOK ==
    /\ held \in [Symbol -> Nat]
    /\ book \in [OrdId -> Order]

Unused == [st |-> "unused", sym |-> CHOOSE s \in Symbol : TRUE, buy |-> FALSE,
           left |-> 0, tgt |-> 0, owner |-> NoBatch, asked |-> FALSE]

BrokerInit ==
    /\ held \in Opening
    /\ book = [o \in OrdId |-> Unused]

Live == {o \in OrdId : book[o].st = "live"}
OwnLive == {o \in Live : book[o].owner \in Batch}

(* order_volume: a new id o for q shares of s, placed for batch b, which   *)
(* wants to hold g.                                                        *)
PlaceOrder(o, s, isBuy, q, b, g) ==
    /\ book[o].st = "unused"
    /\ book' = [book EXCEPT ![o] =
                  [st |-> "live", sym |-> s, buy |-> isBuy, left |-> q,
                   tgt |-> g, owner |-> b, asked |-> FALSE]]

(* order_cancel: the broker takes note; the order may still fill before it *)
(* ends.                                                                   *)
RequestCancel(ords) ==
    book' = [o \in OrdId |-> IF o \in ords \cap Live
                             THEN [book[o] EXCEPT !.asked = TRUE]
                             ELSE book[o]]

Ended(ord) == [ord EXCEPT !.st = "done", !.left = 0, !.asked = FALSE]

(* A full or partial execution; nobody can sell what is not held.          *)
Fill(o, q) ==
    LET ord == book[o] IN
    /\ ord.st = "live" /\ q \in 1..ord.left
    /\ ord.buy \/ q <= held[ord.sym]
    /\ held' = [held EXCEPT ![ord.sym] = IF ord.buy THEN @ + q ELSE @ - q]
    /\ book' = [book EXCEPT ![o] = IF q = ord.left THEN Ended(ord)
                                   ELSE [ord EXCEPT !.left = @ - q]]

(* Rejected, cancelled, or expired at the end of the day.                  *)
EndOrder(o) ==
    /\ book[o].st = "live"
    /\ book' = [book EXCEPT ![o] = Ended(book[o])]
    /\ UNCHANGED held

(* A human places an order of one share by hand.                           *)
ManualOrder(o, s, isBuy) ==
    /\ "manual" \in Faults
    /\ PlaceOrder(o, s, isBuy, 1, NoBatch, 0)
    /\ UNCHANGED held
=============================================================================
