----------------------------- MODULE Connector ------------------------------
(***************************************************************************)
(* connector.py: passes over a clone of a repository that its publisher    *)
(* goes on editing, each mirroring file after file into pending/. A cycle  *)
(* is one step, as the lock makes it for the connector; of its trading     *)
(* there is only which version of which batch it traded by.                *)
(***************************************************************************)
EXTENDS Schema, FiniteSets

CONSTANTS
    File,      \* names in active_order/, without .json
    Docs,      \* [File -> SUBSET raw]: the versions of each (external)
    Absent,    \* no such file
    Rank,      \* the order in which glob lists the files (external)
    Opening,   \* active_order/ when the program first starts
    Edits,     \* edits of the publisher (a bound)
    MaxTime,   \* a moment after every window (a bound)
    Faults     \* \subseteq {"pull", "copy", "crash"}

Raw == UNION {Docs[f] : f \in File}
Batch == {IdOf(d) : d \in {e \in Raw : Peekable(e)}}

ASSUME ConnectorAssumption ==
    /\ DOMAIN Docs = File /\ Absent \notin Raw /\ Rank \in [File -> Nat]
    /\ Opening \in [File -> Raw \cup {Absent}]
    /\ \A f \in File : Opening[f] \in Docs[f] \cup {Absent}
    /\ Edits \in Nat /\ MaxTime \in Nat
    /\ \A d \in Raw : Peekable(d) =>
          ValidAt(d) \in Int /\ ExpiresAt(d) \in Int
    /\ \A d \in Raw : d.kind = "object" /\ Has(d, "orders")
                      /\ d.v["orders"].kind = "list" => IsList(d.v["orders"].v)

VARIABLES
    t,         \* the clock, stops at MaxTime
    repo,      \* active_order/ at the origin
    edits,     \* edits so far
    clone,     \* active_order/ in GIT_LOCAL_DIR
    at,        \* the directory of a batch
    pend,      \* the bytes of pending/<id>.json
    cpc,       \* where the connector is
    todo,      \* files of this pass still to come
    passNow,   \* the clock as the pass read it
    serving,   \* has init() set the timer?
    missed,    \* history: files this pass failed to copy
    traded     \* history: versions by which the last cycle traded

vars == <<t, repo, edits, clone, at, pend, cpc, todo, passNow, serving, missed,
          traded>>

In(dir) == {f \in File : dir[f] # Absent}
Terminal == {"finished", "expired", "failed"}

Init ==
    /\ t = 0 /\ edits = 0
    /\ repo = Opening /\ clone = [f \in File |-> Absent]
    /\ at = [b \in Batch |-> "none"] /\ pend = [b \in Batch |-> Absent]
    /\ cpc = "pull" /\ todo = {} /\ passNow = 0
    /\ serving = FALSE
    /\ missed = {} /\ traded = {}

(* The publisher adds, edits or removes a file.                            *)
Publish ==
    /\ edits < Edits /\ edits' = edits + 1
    /\ \E f \in File : \E d \in Docs[f] \cup {Absent} :
          repo[f] # d /\ repo' = [repo EXCEPT ![f] = d]
    /\ UNCHANGED <<t, clone, at, pend, cpc, todo, passNow, serving, missed, traded>>

(* The glob of an import pass, and its clock.                              *)
StartPass(dir) ==
    /\ cpc = "pull" /\ cpc' = "scan"
    /\ todo' = In(dir) /\ passNow' = t /\ missed' = {}
    /\ UNCHANGED <<t, repo, edits, at, pend, serving, traded>>

(* Mutant: the files are listed before the pull.                           *)
PullAfterGlob == clone' = repo /\ StartPass(clone)

(* clone, or fetch and reset --hard.                                       *)
Pull == clone' = repo /\ StartPass(repo)

(* Logged; the pass goes over what an earlier pull left.                   *)
PullFails == "pull" \in Faults /\ StartPass(clone) /\ UNCHANGED clone

KeepPass == UNCHANGED <<t, repo, edits, clone, passNow, serving, traded>>

(* Mutant: a batch is imported once.                                       *)
SkippedOnce(raw) ==
    \/ ~Peekable(raw)
    \/ Refused(raw)
    \/ at[IdOf(raw)] # "none"
    \/ passNow >= ExpiresAt(raw)

(* The file is passed over: it cannot be peeked at, or is refused, its     *)
(* batch is closed, or first seen when expired, or its bytes are there.    *)
Skipped(raw) ==
    \/ ~Peekable(raw)
    \/ Refused(raw)
    \/ at[IdOf(raw)] \in Terminal
    \/ /\ at[IdOf(raw)] = "none" /\ passNow >= ExpiresAt(raw)
    \/ /\ at[IdOf(raw)] = "pending" /\ pend[IdOf(raw)] = raw

(* Mutant: a bad file ends the pass.                                       *)
MirrorOneStops(f) ==
    /\ cpc = "scan" /\ f \in todo /\ \A g \in todo : Rank[f] <= Rank[g]
    /\ todo' = IF Peekable(clone[f]) THEN todo \ {f} ELSE {}
    /\ IF Skipped(clone[f]) THEN UNCHANGED <<at, pend>>
       ELSE /\ at' = [at EXCEPT ![IdOf(clone[f])] = "pending"]
            /\ pend' = [pend EXCEPT ![IdOf(clone[f])] = clone[f]]
    /\ UNCHANGED <<cpc, missed>> /\ KeepPass

(* The next file of the pass.                                              *)
Takes(f) ==
    /\ cpc = "scan" /\ f \in todo /\ \A g \in todo : Rank[f] <= Rank[g]
    /\ todo' = todo \ {f}

(* One file; the batch is named by what is in it, not by its file.         *)
MirrorOne(f) ==
    /\ Takes(f)
    /\ IF Skipped(clone[f]) THEN UNCHANGED <<at, pend>>
       ELSE /\ at' = [at EXCEPT ![IdOf(clone[f])] = "pending"]
            /\ pend' = [pend EXCEPT ![IdOf(clone[f])] = clone[f]]
    /\ UNCHANGED <<cpc, missed>> /\ KeepPass

CopyFails(f) ==
    /\ "copy" \in Faults
    /\ Takes(f)
    /\ ~Skipped(clone[f])
    /\ missed' = missed \cup {f}
    /\ UNCHANGED <<at, pend, cpc>> /\ KeepPass

(* The pass of start() is synchronous: only then does init() go on to the  *)
(* timer.                                                                  *)
EndPass ==
    /\ cpc = "scan" /\ todo = {}
    /\ cpc' = "rest" /\ serving' = TRUE
    /\ UNCHANGED <<t, repo, edits, clone, at, pend, todo, passNow, missed,
                   traded>>

(* stop_event.wait(GIT_PULL_SECONDS) has timed out.                        *)
NextPass ==
    /\ cpc = "rest" /\ cpc' = "pull"
    /\ UNCHANGED <<at, pend, todo, missed>> /\ KeepPass

Pending == {b \in Batch : at[b] = "pending"}
Invalid == {b \in Pending : ~Accepts(b, pend[b])}
Expired == {b \in Pending \ Invalid : t > ExpiresAt(pend[b])}
Seen == Pending \ (Invalid \cup Expired)
Active == {b \in Seen : ValidAt(pend[b]) <= t}
Overlap == \E b, c \in Seen :
    b # c /\ ValidAt(pend[b]) <= ExpiresAt(pend[c])
          /\ ValidAt(pend[c]) <= ExpiresAt(pend[b])

(* run_cycle, with the lock: it closes what is bad or expired, trades by   *)
(* the active batch and may find it matched.                               *)
RunCycle ==
    /\ serving
    /\ LET trading == IF Overlap THEN {} ELSE Active IN
       \E matched \in SUBSET trading :
          /\ traded' = {pend[b] : b \in trading}
          /\ at' = [b \in Batch |->
                IF b \in Invalid THEN "failed"
                ELSE IF b \in Expired THEN "expired"
                ELSE IF b \in matched THEN "finished" ELSE at[b]]
    /\ UNCHANGED <<t, repo, edits, clone, pend, cpc, todo, passNow, serving,
                   missed>>

Clock ==
    /\ t < MaxTime /\ t' = t + 1
    /\ UNCHANGED <<repo, edits, clone, at, pend, cpc, todo, passNow, serving,
                   missed, traded>>

(* The directories and the clone stay; the .tmp of a copy is overwritten.  *)
Crash ==
    /\ "crash" \in Faults /\ cpc # "down"
    /\ cpc' = "down" /\ serving' = FALSE /\ traded' = {}
    /\ todo' = {} /\ passNow' = 0 /\ missed' = {}
    /\ UNCHANGED <<t, repo, edits, clone, at, pend>>

(* Mutant: the timer is set before the connector has made its pass.        *)
RestartServing ==
    /\ cpc = "down" /\ cpc' = "pull" /\ serving' = TRUE
    /\ UNCHANGED <<t, repo, edits, clone, at, pend, todo, passNow, missed,
                   traded>>

Restart ==
    /\ cpc = "down" /\ cpc' = "pull"
    /\ UNCHANGED <<t, repo, edits, clone, at, pend, todo, passNow, serving,
                   missed, traded>>

Scan == \E f \in File : MirrorOne(f) \/ CopyFails(f)
Connect == Pull \/ PullFails \/ Scan \/ EndPass \/ NextPass

Next == Publish \/ Connect \/ RunCycle \/ Clock \/ Crash \/ Restart

Spec == Init /\ [][Next]_vars
=============================================================================
