------------------------------ MODULE Process -------------------------------
(***************************************************************************)
(* main.py around the worker's loop and the log relay: gm.run() serves the *)
(* timer until it returns, then _shutdown stops the threads one after the  *)
(* other and at last the relay. The drain and the connector are here only  *)
(* as threads that end, or do not.                                         *)
(***************************************************************************)
EXTENDS WorkerLoop, Relay

CONSTANTS
    JoinWait,    \* the timeout of t.join, in ticks
    StopWait     \* the timeout of _proc.wait, in ticks

ASSUME ProcessAssumption == JoinWait \in Nat /\ StopWait \in Nat

VARIABLES
    mpc,     \* where the main thread is
    waited,  \* ticks it has waited there
    idle,    \* history: ticks without a cycle, stops at GapCap
    alive    \* threads other than the worker that have not ended

mainVars == <<mpc, waited, idle, alive>>
vars == <<loopVars, relayVars, mainVars>>

(* state.worker_threads, in the order in which init() starts them.         *)
Joins == <<"drain", "worker", "connector">>

ProcessTypeOK ==
    /\ LoopTypeOK /\ RelayTypeOK
    /\ mpc \in {"serving", "wake", "tell", "drain", "worker", "connector",
                "stdin", "relay", "gone"}
    /\ waited \in 0..JoinWait + StopWait /\ idle \in 0..GapCap
    /\ alive \subseteq {"drain", "connector"}

Init ==
    /\ LoopInit /\ RelayInit
    /\ mpc = "serving" /\ waited = 0 /\ idle = 0
    /\ alive = {"drain", "connector"}

MainGoes(from, to) ==
    mpc = from /\ mpc' = to /\ waited' = 0 /\ UNCHANGED <<idle, alive>>

(* run() returns, or raises, or is interrupted, and with it the timer ends. *)
SetStop ==
    /\ MainGoes("serving", "wake")
    /\ stop' = TRUE /\ due' = 0
    /\ UNCHANGED <<signal, gap, wpc, pause, nap, failed, relayVars>>

(* Mutant: nobody wakes the worker.                                        *)
WakeNobody == MainGoes("wake", "tell") /\ UNCHANGED <<loopVars, relayVars>>

(* cycle_pending.set().                                                    *)
WakeWorker ==
    /\ MainGoes("wake", "tell")
    /\ signal' = TRUE
    /\ UNCHANGED <<stop, due, gap, wpc, pause, nap, failed, relayVars>>

(* The sentinel for the drain.                                             *)
TellDrain == MainGoes("tell", "drain") /\ UNCHANGED <<loopVars, relayVars>>

Ended(th) == IF th = "worker" THEN wpc = "exited" ELSE th \notin alive

(* Mutant: t.join() without a timeout.                                     *)
JoinForever(th, next) ==
    Ended(th) /\ MainGoes(th, next) /\ UNCHANGED <<loopVars, relayVars>>

(* t.join(timeout=10), which does not say whether t has ended.             *)
Join(th, next) ==
    /\ Ended(th) \/ waited = JoinWait
    /\ MainGoes(th, next)
    /\ UNCHANGED <<loopVars, relayVars>>

JoinAll == \/ Join("drain", "worker") \/ Join("worker", "connector")
           \/ Join("connector", "stdin")

CloseRelay == MainGoes("stdin", "relay") /\ CloseStdin /\ UNCHANGED loopVars

(* _proc.wait(timeout=10); the end of main takes daemon threads with it.   *)
RelayEnded == ~Running /\ MainGoes("relay", "gone")
              /\ UNCHANGED <<loopVars, relayVars>>
RelayLate  == Running /\ waited = StopWait /\ MainGoes("relay", "gone")
              /\ KillRelay /\ UNCHANGED loopVars

Shutdown == WakeWorker \/ TellDrain \/ JoinAll \/ CloseRelay \/ RelayEnded
            \/ RelayLate

(* The drain at its sentinel, the connector at stop_event.                 *)
ThreadEnds ==
    /\ stop /\ mpc # "gone"
    /\ \E th \in alive :
          /\ th = "drain" => mpc \notin {"wake", "tell"}
          /\ alive' = alive \ {th}
    /\ UNCHANGED <<loopVars, relayVars, mpc, waited, idle>>

Up == mpc # "gone"
Serve == mpc = "serving" /\ Fire /\ UNCHANGED <<relayVars, mainVars>>
Work ==
    /\ Up /\ Worker
    /\ idle' = IF wpc' \in {"run", "exited"} THEN 0 ELSE idle
    /\ UNCHANGED <<relayVars, mpc, waited, alive>>
Warn == Up /\ Emit /\ UNCHANGED <<loopVars, mainVars>>
RelayStep == RelaySteps /\ UNCHANGED <<loopVars, mainVars>>

MainRests ==
    \/ mpc = "serving" /\ due > 0
    \/ \E i \in DOMAIN Joins :
          mpc = Joins[i] /\ ~Ended(mpc) /\ waited < JoinWait
    \/ mpc = "relay" /\ Running /\ waited < StopWait

(* Time passes when every thread waits for something. The timer counts as  *)
(* long as gm.run() polls it.                                              *)
Tick ==
    /\ MainRests /\ LoopTick /\ RelayClock
    /\ due' = IF mpc = "serving" THEN due - 1 ELSE due
    /\ waited' = IF mpc = "serving" THEN 0 ELSE waited + 1
    /\ idle' = IF idle < GapCap /\ wpc \notin {"run", "exited"} THEN idle + 1
               ELSE idle
    /\ UNCHANGED <<mpc, alive>>

Next == SetStop \/ Shutdown \/ ThreadEnds \/ Serve \/ Work \/ Warn
        \/ RelayStep \/ Tick

Spec == Init /\ [][Next]_vars
=============================================================================
