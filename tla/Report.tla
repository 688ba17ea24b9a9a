------------------------------- MODULE Report -------------------------------
(***************************************************************************)
(* report.py and notify.py: the close report of cur, which run_cycle sends *)
(* just before move_pair, where pc = "move_doc". It reads the snapshot of  *)
(* the cycle and the record, and writes nothing: there is no variable      *)
(* here. A row is the symbol it is about; its volumes stay in vol and doc. *)
(***************************************************************************)
EXTENDS Cycle

(* Mutant: the report is built after the move, from the path in pending/.  *)
LiveOwnMoved(s) == {o \in UnfinishedOn(s) : o \in Submitted(cur) /\ at[cur] = dst}

(* build: the unfinished orders of a row, split by the record's submits.   *)
LiveOwn(s) == {o \in UnfinishedOn(s) : o \in Submitted(cur)}
ForeignOn(s) == UnfinishedOn(s) \ LiveOwn(s)
WasCapped(s) == <<"cap", s>> \in lines[cur]

Aligned(s) == Diff(s) = 0

(* Mutant: an order of the batch's own is no reason.                       *)
ReasonNoOwn(s, avail) ==
    CASE Aligned(s) -> "none"
      [] Diff(s) < 0 /\ (WasCapped(s) \/ avail < 0 - Diff(s)) -> "under-sellable"
      [] ForeignOn(s) # {} -> "foreign-order"
      [] OTHER -> "residual-mismatch"

(* _reason: why s is unaligned, avail being its available volume.          *)
Reason(s, avail) ==
    LET short == Diff(s) < 0 /\ (WasCapped(s) \/ avail < 0 - Diff(s))
        foreign == ForeignOn(s) # {}
        own == LiveOwn(s) # {} IN
    CASE Aligned(s) -> "none"
      [] ~Aligned(s) /\ short -> "under-sellable"
      [] ~Aligned(s) /\ ~short /\ foreign -> "foreign-order"
      [] ~Aligned(s) /\ ~short /\ ~foreign /\ own -> "never-filled"
      [] OTHER -> "residual-mismatch"

AllAligned == \A s \in doc[cur].syms : Aligned(s)

(* Mutant: only the rows decide.                                           *)
WarnsRows == ~AllAligned

(* LoggingNotifier: a WARNING reaches the operator, an INFO line does not. *)
Warns == ~(AllAligned /\ dst = "finished")

(* emit_and_notify is running.                                             *)
Reporting == pc = "move_doc"
=============================================================================
