------------------------ MODULE ConnectorProperties -------------------------
(***************************************************************************)
(* What the publisher may rely on.                                         *)
(***************************************************************************)
EXTENDS Connector

ConnectorTypeOK ==
    /\ t \in 0..MaxTime /\ passNow \in 0..MaxTime /\ edits \in 0..Edits
    /\ \A f \in File : {repo[f], clone[f]} \subseteq Docs[f] \cup {Absent}
    /\ at \in [Batch -> {"none", "pending"} \cup Terminal]
    /\ \A b \in Batch : pend[b] = Absent <=> at[b] = "none"
    /\ cpc \in {"pull", "scan", "rest", "down"} /\ todo \subseteq In(clone)
    /\ serving \in BOOLEAN /\ missed \subseteq File
    /\ traded \subseteq Raw

(* f is the only file of the clone that names b, and is not refused.       *)
Claims(f, b) == Peekable(clone[f]) /\ IdOf(clone[f]) = b
Speaks(f, b) ==
    /\ f \in In(clone) /\ Claims(f, b) /\ ~Refused(clone[f])
    /\ \A g \in In(clone) \ {f} : ~Claims(g, b)

(* CONNECTOR.md: "Mirror, not import-once", "every edit lands". Whenever   *)
(* cycles run, the first one after a restart included, pending/ holds of   *)
(* each batch the bytes that the clone has, once the pass has gone over    *)
(* the file; but for a copy that failed, a refused edit and two files that *)
(* name the same batch.                                                    *)
MirrorIsCurrent == serving =>
    \A b \in Pending : \A f \in File \ (todo \cup missed) :
        Speaks(f, b) => pend[b] = clone[f]

(* What a batch file has to be when a cycle trades by it: SCHEMA.md's      *)
(* "symbol is unique within a batch", a window, and the name of its file.  *)
WellFormed(d) == LET o == d.v["orders"].v IN
    /\ ValidAt(d) < ExpiresAt(d)
    /\ \A i, k \in DOMAIN o : o[i].v["symbol"] = o[k].v["symbol"] => i = k
TradesWellFormed == \A d \in traded : WellFormed(d)

Arrived(d) ==
    \/ at[IdOf(d)] \in Terminal
    \/ pend[IdOf(d)] = d
    \/ t >= ExpiresAt(d)

(* A valid batch that is pushed and left alone reaches pending/, or finds  *)
(* its batch closed or itself expired, whatever other files are in the     *)
(* repository: CONNECTOR.md's "skip that file, continue with the rest".    *)
PushedArrives == \A f \in File : \A d \in {e \in Docs[f] : Accepts(f, e)} :
    repo[f] = d ~> repo[f] # d \/ Arrived(d)

(* The connector's thread runs, the service is restarted, and neither git  *)
(* nor a copy fails for ever; of the publisher, the clock and crashes      *)
(* nothing is assumed.                                                     *)
FairSpec ==
    /\ Spec
    /\ WF_vars(EndPass) /\ WF_vars(NextPass) /\ WF_vars(Restart)
    /\ SF_vars(Pull)
    /\ \A f \in File : SF_vars(MirrorOne(f))
=============================================================================
