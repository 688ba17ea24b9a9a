---------------------------- MODULE MCConnector -----------------------------
(* Small instances of the connector for TLC: a batch that may be killed, a *)
(* later one whose kill is refused, and a file of another name that cannot *)
(* be read, names the second batch too, or orders a symbol twice.          *)
EXTENDS ConnectorProperties, TLC

Order(id, sym) == J("object",
    "id" :> J("str", id) @@ "symbol" :> J("str", sym) @@
    "target" :> J("int", 1) @@ "order_type" :> J("str", "market"))

Doc(id, valid, expires, orders) == J("object",
    "schema_version" :> J("str", "1") @@ "batch_id" :> J("str", id) @@
    "valid_at" :> J("int", valid) @@ "expires_at" :> J("int", expires) @@
    "orders" :> J("list", orders))

One == <<Order("1", "SHSE.1")>>
Twice == <<Order("1", "SHSE.1"), Order("2", "SHSE.1")>>
Stub == J("object", "batch_id" :> J("str", "b"))

FirstRepo == [f \in File |-> IF f = "a" THEN Doc("a", 0, 2, One) ELSE Absent]

(* The file that cannot be read comes first in the pass.                   *)
Listing == "x" :> 0 @@ "a" :> 1 @@ "b" :> 2

RepoDocs ==
    "a" :> {Doc("a", 0, 2, One), Doc("a", 0, 1, One)} @@
    "b" :> {Doc("b", 1, 2, One), Doc("b", 1, 0, One)} @@
    "x" :> {Stub, Doc("b", 1, 2, Twice)}
=============================================================================
