------------------------ MODULE EventDrainProperties ------------------------
(***************************************************************************)
(* What the order records owe to the drain, and under which faults.        *)
(***************************************************************************)
EXTENDS EventDrain, Integers, SequencesExt

(* A line's number, and -1 for no line yet.                                *)
Number == -1..Events

(* k is the number of the last line about o among the first i of s; it is  *)
(* k0 when there is none.                                                  *)
LastNumber(s, o, k0, i, k) ==
    \/ k = k0 /\ \A j \in 1..i : s[j].ord # o
    \/ \E j \in 1..i : /\ s[j].ord = o /\ s[j].n = k
                       /\ \A m \in j+1..i : s[m].ord # o

(* The line that may come after number k: the next one, or the first event *)
(* of a replay.                                                            *)
Follows(k, n) == n = k + 1 \/ (k >= 0 /\ n = 1)

(* The lines of s tell what happens to o between number k0 and number k.   *)
Account(s, o, k0, k) ==
    /\ LastNumber(s, o, k0, Len(s), k)
    /\ \A i \in 1..Len(s) : s[i].ord = o =>
        \E p \in Number : LastNumber(s, o, k0, i - 1, p) /\ Follows(p, s[i].n)

(* A record gives a faithful account of each order: its submit line first  *)
(* and once, then its events without a gap, in the order the broker sent   *)
(* them; a replay after a reconnect starts again from the first. So no     *)
(* event of a recorded order is lost, swapped or written before its order, *)
(* whatever the SDK's thread does while a cycle holds the lock (FLOW.md:   *)
(* "No event for our own orders is ever lost"). A failing disk write may   *)
(* lose lines, so this is checked without "disk".                          *)
RecordIsFaithful == \A b \in Batch, d \in LiveDir, o \in OrdId :
    \E k \in Number : Account(lines[b][d], o, -1, k)

(* A replay is told again at most once: a record holds the first event of  *)
(* an order no more often than the broker has sent it.                     *)
RetoldOnlyByReplay == \A b \in Batch, d \in LiveDir, o \in OrdId :
    Cardinality({i \in 1..Len(lines[b][d]) :
        lines[b][d][i] = [ord |-> o, n |-> 1]}) <= epoch + 1

(* The record of o, if there is one, ends with the last event that the     *)
(* broker has sent. Right after a reconnect nothing has been sent anew.    *)
UpToDate(o) == \A b \in Batch : SubmitOnDisk(o, b) /\ sent[o] > 0 =>
    \E d \in dirs[b] :
        LastNumber(lines[b][d], o, -1, Len(lines[b][d]), sent[o])

(* When the drain has nothing left to do, the record of an order ends with *)
(* the last event the broker has sent: events that came while the order    *)
(* was being placed, while a cycle held the lock, or before a restart were *)
(* not passed over.                                                        *)
NothingIsMissing ==
    dpc = "get" /\ queue = <<>> /\ out = <<>> => \A o \in OrdId : UpToDate(o)

(* The loop does not end before its last pass is written: once it has      *)
(* exited, the record of an order that has no event behind the sentinel    *)
(* is complete.                                                            *)
LastPassIsWritten ==
    dpc = "exited" /\ out = <<>> => \A o \in OrdId :
        (\A i \in 1..Len(queue) : queue[i].ord # o) => UpToDate(o)

(* The sentinel is neither lost nor made up: from shutdown on it is in the *)
(* queue, or taken, or the loop has ended by it, and only then.            *)
SentinelIsKept ==
    stopped <=> \/ \E i \in 1..Len(queue) : queue[i] = Stop
                \/ last \/ dpc = "exited"

(* A batch has one record: nobody who appends re-creates a record in the   *)
(* directory it has just been moved out of.                                *)
OneRecordPerBatch == \A b \in Batch : Cardinality(dirs[b]) <= 1

(* An order's lines are in the record of the batch it was placed for and   *)
(* nowhere else.                                                           *)
LinesAreAtHome == \A b \in Batch, d \in LiveDir :
    \A i \in 1..Len(lines[b][d]) : placed[lines[b][d][i].ord] = b

(* What is written stays: a record only grows at its end, also where it is *)
(* moved, opened again for a late event, or left where it is by a move     *)
(* that fails.                                                             *)
RecordsOnlyGrow == [][\A b \in Batch, d \in LiveDir :
    \E f \in LiveDir : IsPrefix(lines[b][d], lines'[b][f])]_vars

Unrecorded(o) == \A b \in Batch : ~SubmitOnDisk(o, b)

(* What the drain gives up, an event as foreign or a group for want of a   *)
(* record, belongs to orders that no record knows: not to one recorded     *)
(* before a restart, and not to one whose batch has been closed meanwhile. *)
(* A record that cannot be read at the restart leaves its orders out of    *)
(* the index, so this is checked without "disk".                           *)
DroppedIsUnrecorded == [][
    dpc' # "down" =>
    /\ dpc = "resolve" /\ events' # events /\ byBatch' = byBatch =>
        Unrecorded(Head(events).ord)
    /\ \A b \in Batch : dirs[b] = {} /\ byBatch'[b] = <<>> =>
        \A i \in 1..Len(byBatch[b]) : Unrecorded(byBatch[b][i].ord)]_vars

(* A group that is raised out of its session takes no other group with it: *)
(* the events grouped for a batch are handed to a session of that batch,   *)
(* all of them, or dropped because the batch has no record.                *)
GroupsStandAlone == [][
    dpc' # "down" => \A b \in Batch : byBatch[b] # <<>> /\ byBatch'[b] = <<>> =>
        \/ dirs[b] = {}
        \/ out' # <<>> /\ out'[1] = b /\ IsSuffix(byBatch[b], buf')]_vars

Written(o) == \E b \in Batch, d \in LiveDir : \E i \in 1..Len(lines[b][d]) :
    lines[b][d][i] = [ord |-> o, n |-> Events]

(* Once the broker has sent all events of a recorded order, the last one   *)
(* reaches its record, unless the process ends first: cycles that hold the *)
(* lock again and again do not starve the drain.                           *)
RecordCatchesUp == \A o \in OrdId :
    sent[o] = Events /\ (\E b \in Batch : SubmitOnDisk(o, b))
        ~> Written(o) \/ stopped \/ ~Alive

(* Shutdown lets the drain finish: after the sentinel the loop exits,      *)
(* unless the process is gone before.                                      *)
StopEndsDrain == stopped ~> dpc = "exited" \/ ~stopped

(* Both threads are scheduled, and a thread that waits for the lock gets   *)
(* it if it is free again and again: callbacks.py relies on the min gap    *)
(* between cycles for that.                                                *)
FairSpec ==
    /\ Spec
    /\ WF_vars(wpc # "idle" /\ Worker)
    /\ WF_vars(Drain) /\ SF_vars(TakeLock)
    /\ WF_vars(InitProcess)
=============================================================================
