------------------------- MODULE ProcessProperties --------------------------
(***************************************************************************)
(* What the timer, the shutdown and the relay promise to each other.       *)
(***************************************************************************)
EXTENDS Process

(* The min gap swallows signals, clear() drops them and a failed cycle     *)
(* sleeps through them, but one of the timer's fires becomes a cycle: no   *)
(* more than the min gap, one poll and the longest backoff pass without.   *)
CyclesKeepComing == [][mpc = "serving" /\ Tick =>
    \/ wpc = "run"
    \/ idle < Grace + Poll + (IF failed THEN Ticks(BackoffCap) ELSE 0)]_vars

(* FLOW.md, Recovery: exponential backoff "on repeated exceptions". When   *)
(* a cycle raises and the cycle before it raised too, the pause is longer  *)
(* than the one before, up to the cap.                                     *)
BackoffGrows == [][CycleRaises /\ failed =>
    pause > 2 \/ pause = BackoffCap]_vars

(* Once stop_event is set, a worker that waits for a signal never begins a *)
(* cycle again: the wake-up of _shutdown is not taken for a tick.          *)
StopIsFinal == [](stop /\ wpc = "wait" => [](wpc # "run"))

(* While _shutdown joins the worker, time passes only because a cycle is   *)
(* still running: the wake-up is not cleared unseen, and neither a wait    *)
(* for a signal nor a backoff outlasts the stop.                           *)
JoinWaitsForACycle == [][mpc = "worker" /\ Tick => wpc = "run"]_vars

(* _shutdown ends, whatever hangs.                                         *)
ShutdownEnds == stop ~> mpc = "gone"

(* A warning is posted at most once and in the order of the log, from the  *)
(* handler through pipe and queue to requests.post.                        *)
InFlight == tried \o (IF rpc = "post" THEN <<>> ELSE batch) \o q \o pipe
OnceInOrder == \A i, j \in DOMAIN InFlight : i < j => InFlight[i] < InFlight[j]

(* remote_log.py: "closes stdin so the relay drains and exits". When the   *)
(* process is gone, every warning it gave has been posted.                 *)
LastWords == mpc = "gone" =>
    \A r \in 1..said : \E i \in DOMAIN tried : tried[i] = r

(* Every thread that has something to do does it, and time passes. When    *)
(* run() returns, how long a cycle takes, how it ends and whether the      *)
(* other threads stop is left open.                                        *)
FairSpec ==
    /\ Spec
    /\ WF_vars(Shutdown) /\ WF_vars(Serve) /\ WF_vars(Tick)
    /\ WF_vars(Work /\ wpc # "run") /\ WF_vars(RelayStep)
=============================================================================
