----------------------------- MODULE WorkerLoop -----------------------------
(***************************************************************************)
(* worker.py: the loop that turns the timer's signals into cycles, and the *)
(* two things that keep a signal from becoming one: the min gap at the     *)
(* head of run_cycle and the clear() after it. A cycle is one long step    *)
(* here; Cycle says what it does, and Channel when its guard is open, as   *)
(* it always is here. Times are in ticks; a step of a thread that is not   *)
(* waiting takes no time.                                                  *)
(***************************************************************************)
EXTENDS Naturals

CONSTANTS
    Poll,       \* GMX_POLL_SECONDS, in ticks
    Grace,      \* CYCLE_GRACE_SECONDS, in ticks
    Seconds     \* seconds per tick

ASSUME LoopAssumption ==
    /\ Poll \in Nat \ {0} /\ Grace \in Nat /\ Seconds \in Nat \ {0}

VARIABLES
    stop,       \* stop_event
    signal,     \* cycle_pending
    due,        \* ticks until the SDK's timer fires
    gap,        \* ticks since last_cycle_end_at, stops at GapCap; 0 in a cycle
    wpc,        \* where cycle_worker is
    pause,      \* min(60, 2 ** (consecutive_failures + 1)), in seconds
    nap,        \* ticks left of stop_event.wait(backoff)
    failed      \* history: did the last cycle that was not skipped fail?

loopVars == <<stop, signal, due, gap, wpc, pause, nap, failed>>

BackoffCap == 60
Ticks(secs) == (secs + Seconds - 1) \div Seconds
GapCap == Poll + Grace + Ticks(BackoffCap)

LoopTypeOK ==
    /\ stop \in BOOLEAN /\ signal \in BOOLEAN /\ failed \in BOOLEAN
    /\ due \in 0..Poll /\ gap \in 0..GapCap
    /\ wpc \in {"check", "wait", "look", "guard", "run", "sleep", "clear",
                "exited"}
    /\ pause \in 2..BackoffCap /\ nap \in 0..Ticks(BackoffCap)

(* init() starts the worker, then the timer, with start_delay=0.           *)
LoopInit ==
    /\ stop = FALSE /\ signal = FALSE
    /\ due = 0 /\ gap = GapCap
    /\ wpc = "check" /\ pause = 2 /\ nap = 0 /\ failed = FALSE

(* on_timer, on the SDK's thread.                                          *)
Fire ==
    /\ due = 0
    /\ signal' = TRUE /\ due' = Poll
    /\ UNCHANGED <<stop, gap, wpc, pause, nap, failed>>

Goto(from, to) == wpc = from /\ wpc' = to
KeepRest == UNCHANGED <<stop, signal, due, gap, pause, nap, failed>>

(* The thread returns; its local variables go, and nobody reads the stamp. *)
Leave(from) ==
    /\ stop /\ Goto(from, "exited")
    /\ pause' = 2 /\ nap' = 0 /\ gap' = 0 /\ failed' = FALSE
    /\ UNCHANGED <<stop, signal, due>>

(* while not stop_event.is_set(), then cycle_pending.wait().               *)
CheckStop ==
    \/ Leave("check")
    \/ ~stop /\ Goto("check", "wait") /\ KeepRest
WakeUp == signal /\ Goto("wait", "look") /\ KeepRest
(* Mutant: the second look at stop_event is left out.                      *)
LookNoStop == Goto("look", "guard") /\ KeepRest
LookAtStop ==
    \/ Leave("look")
    \/ ~stop /\ Goto("look", "guard") /\ KeepRest

(* Mutant: last_cycle_end_at is stamped by a skipped cycle too.            *)
SkipStamps ==
    /\ gap <= Grace
    /\ Goto("guard", "clear") /\ pause' = 2 /\ gap' = 0
    /\ UNCHANGED <<stop, signal, due, nap, failed>>

(* run_cycle returns at once: the last one ended less than Grace ago. It   *)
(* ended some time after a tick, so that a gap of just Grace ticks may be  *)
(* a little less. The return counts as a success.                          *)
SkipCycle ==
    /\ gap <= Grace
    /\ Goto("guard", "clear") /\ pause' = 2
    /\ UNCHANGED <<stop, signal, due, gap, nap, failed>>

BeginCycle ==
    /\ gap >= Grace
    /\ Goto("guard", "run") /\ gap' = 0
    /\ UNCHANGED <<stop, signal, due, pause, nap, failed>>

(* However it ends, the finally block stamps last_cycle_end_at: gap is 0.  *)
CycleReturns ==
    /\ Goto("run", "clear")
    /\ pause' = 2 /\ failed' = FALSE
    /\ UNCHANGED <<stop, signal, due, gap, nap>>

(* Mutant: the backoff is not capped.                                      *)
CycleRaisesUncapped ==
    /\ Goto("run", "sleep")
    /\ nap' = Ticks(pause) /\ pause' = 2 * pause
    /\ failed' = TRUE
    /\ UNCHANGED <<stop, signal, due, gap>>

CycleRaises ==
    /\ Goto("run", "sleep")
    /\ nap' = Ticks(pause)
    /\ pause' = IF 2 * pause < BackoffCap THEN 2 * pause ELSE BackoffCap
    /\ failed' = TRUE
    /\ UNCHANGED <<stop, signal, due, gap>>

EndNap == (stop \/ nap = 0) /\ Goto("sleep", "clear") /\ nap' = 0
          /\ UNCHANGED <<stop, signal, due, gap, pause, failed>>

(* cycle_pending.clear(), after the cycle.                                 *)
ClearSignal ==
    /\ Goto("clear", "check") /\ signal' = FALSE
    /\ UNCHANGED <<stop, due, gap, pause, nap, failed>>

Worker ==
    \/ CheckStop \/ WakeUp \/ LookAtStop \/ SkipCycle \/ BeginCycle
    \/ CycleReturns \/ CycleRaises \/ EndNap \/ ClearSignal

(* The worker is waiting for something, or a cycle is taking its time.     *)
WorkerRests ==
    \/ wpc \in {"run", "exited"}
    \/ wpc = "wait" /\ ~signal
    \/ wpc = "sleep" /\ ~stop /\ nap > 0

LoopTick ==
    /\ WorkerRests
    /\ gap' = IF gap < GapCap /\ wpc \notin {"run", "exited"} THEN gap + 1
              ELSE gap
    /\ nap' = IF wpc = "sleep" THEN nap - 1 ELSE nap
    /\ UNCHANGED <<stop, signal, wpc, pause, failed>>
=============================================================================
