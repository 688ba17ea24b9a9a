------------------------------- MODULE Schema -------------------------------
(***************************************************************************)
(* schema.py, and what connector.py peeks at: which JSON files are batches.*)
(* A JSON value is its kind and its value; the value of an object is a     *)
(* function on its keys. Kind "numeral" is a string in the place of a time *)
(* that int() can read; the value of a batch_id is its text.               *)
(***************************************************************************)
EXTENDS Integers, Sequences

CONSTANTS
    GoodId,      \* texts that _BATCH_ID_RE matches
    GoodSymbol   \* texts that _SYMBOL_RE matches

J(kind, value) == [kind |-> kind, v |-> value]

TopKeys == {"schema_version", "batch_id", "valid_at", "expires_at",
            "account_id", "orders"}
RequiredKeys == {"id", "symbol", "target", "order_type"}
OrderKeys == RequiredKeys \cup {"price"}

Has(o, key) == key \in DOMAIN o.v
IsStr(j) == j.kind = "str"
IsList(v) == Len(v) \in Nat /\ DOMAIN v = 1..Len(v)
Natural(j) == j.kind = "int" /\ j.v >= 0

(* Mutant: a symbol may occur twice.                                       *)
OrderOKTwice(orders, i) == LET o == orders[i] IN
    /\ o.kind = "object"
    /\ DOMAIN o.v \subseteq OrderKeys /\ RequiredKeys \subseteq DOMAIN o.v
    /\ IsStr(o.v["id"]) /\ o.v["id"].v # ""
    /\ \A k \in 1..i - 1 : o.v["id"].v # orders[k].v["id"].v
    /\ IsStr(o.v["symbol"]) /\ o.v["symbol"].v \in GoodSymbol
    /\ Natural(o.v["target"])
    /\ o.v["order_type"].v = "market"

(* NaN, which json.loads reads, is not <= 0.                               *)
PriceOK(j) == j.kind = "nan" \/ (j.kind \in {"int", "float"} /\ j.v > 0)

(* _parse_order; seen_ids and seen_symbols are those of the orders before. *)
OrderOK(orders, i) == LET o == orders[i] IN
    /\ o.kind = "object"
    /\ DOMAIN o.v \subseteq OrderKeys /\ RequiredKeys \subseteq DOMAIN o.v
    /\ IsStr(o.v["id"]) /\ o.v["id"].v # ""
    /\ \A k \in 1..i - 1 : o.v["id"].v # orders[k].v["id"].v
    /\ IsStr(o.v["symbol"]) /\ o.v["symbol"].v \in GoodSymbol
    /\ \A k \in 1..i - 1 : o.v["symbol"].v # orders[k].v["symbol"].v
    /\ Natural(o.v["target"])
    /\ IsStr(o.v["order_type"])
    /\ \/ /\ o.v["order_type"].v = "market" /\ ~Has(o, "price")
       \/ /\ o.v["order_type"].v = "limit"
          /\ Has(o, "price") /\ PriceOK(o.v["price"])

(* parse_and_validate of the file <stem>.json.                             *)
Accepts(stem, raw) ==
    /\ raw.kind = "object"
    /\ DOMAIN raw.v \subseteq TopKeys
    /\ Has(raw, "schema_version") /\ raw.v["schema_version"] = J("str", "1")
    /\ Has(raw, "batch_id") /\ IsStr(raw.v["batch_id"])
    /\ raw.v["batch_id"].v \in GoodId /\ raw.v["batch_id"].v = stem
    /\ Has(raw, "valid_at") /\ Natural(raw.v["valid_at"])
    /\ Has(raw, "expires_at") /\ Natural(raw.v["expires_at"])
    /\ raw.v["valid_at"].v < raw.v["expires_at"].v
    /\ Has(raw, "account_id") =>
          IsStr(raw.v["account_id"]) \/ raw.v["account_id"].kind = "null"
    /\ Has(raw, "orders") /\ raw.v["orders"].kind = "list"
    /\ raw.v["orders"].v # <<>>
    /\ \A i \in DOMAIN raw.v["orders"].v : OrderOK(raw.v["orders"].v, i)

(* _peek_batch: str() takes anything, int() also a bool or a numeral.      *)
Peekable(raw) ==
    /\ raw.kind = "object"
    /\ {"batch_id", "valid_at", "expires_at"} \subseteq DOMAIN raw.v
    /\ \A key \in {"valid_at", "expires_at"} :
          raw.v[key].kind \in {"int", "bool", "float", "numeral"}

IdOf(raw) == raw.v["batch_id"].v
ValidAt(raw) == raw.v["valid_at"].v
ExpiresAt(raw) == raw.v["expires_at"].v
Refused(raw) == ValidAt(raw) >= ExpiresAt(raw)
=============================================================================
