--------------------------- MODULE ProcessProofs ----------------------------
(***************************************************************************)
(* The shutdown, for any intervals and timeouts: a stop that is noticed is *)
(* final, nothing but a running cycle holds up the join of the worker, and *)
(* what the relay must be granted for no warning to be lost. And before    *)
(* it: how long the worker can be without a cycle.                         *)
(***************************************************************************)
EXTENDS ProcessProperties, SequenceTheorems, TLAPS

(* Once main has woken the worker, a worker that waits has a signal to     *)
(* wake up by: the clear() after a cycle comes before the loop's look at   *)
(* stop_event, and that look does not go back to waiting.                  *)
WokenInv ==
    /\ stop \in BOOLEAN
    /\ mpc # "serving" => stop
    /\ mpc \notin {"serving", "wake"} /\ wpc = "wait" => signal

LEMMA InitWoken == Init => WokenInv
BY DEF Init, LoopInit, WokenInv

LEMMA WorkWoken == ASSUME WokenInv, Work PROVE WokenInv'
<1>1. mpc' = mpc /\ stop' = stop
  BY DEF Work, Worker, CheckStop, Leave, Goto, KeepRest, WakeUp, LookAtStop,
         SkipCycle, BeginCycle, CycleReturns, CycleRaises, EndNap, ClearSignal
<1>2. wpc' = "wait" => ~stop
  BY DEF Work, Worker, CheckStop, Leave, Goto, KeepRest, WakeUp, LookAtStop,
         SkipCycle, BeginCycle, CycleReturns, CycleRaises, EndNap, ClearSignal
<1> QED
  BY <1>1, <1>2 DEF WokenInv

LEMMA NextWoken == WokenInv /\ [Next]_vars => WokenInv'
<1> SUFFICES ASSUME WokenInv, [Next]_vars PROVE WokenInv'
  OBVIOUS
<1>1. CASE SetStop \/ WakeWorker
  BY <1>1 DEF SetStop, WakeWorker, MainGoes, WokenInv
<1>2. CASE Shutdown /\ ~WakeWorker
  <2>1. UNCHANGED loopVars /\ mpc \notin {"serving", "wake"}
    BY <1>2 DEF Shutdown, TellDrain, JoinAll, Join, CloseRelay, RelayEnded,
                RelayLate, MainGoes
  <2> QED
    BY <2>1 DEF WokenInv, loopVars
<1>3. CASE ThreadEnds \/ Serve \/ Warn \/ RelayStep \/ Tick \/ UNCHANGED vars
  <2>1. UNCHANGED <<stop, wpc, mpc>> /\ (signal => signal')
    BY <1>3 DEF ThreadEnds, Serve, Fire, Warn, RelayStep, Tick, LoopTick, vars,
                loopVars, mainVars
  <2> QED
    BY <2>1 DEF WokenInv
<1> QED
  BY <1>1, <1>2, <1>3, WorkWoken DEF Next

(* Whatever the intervals, _shutdown waits for the worker only while a     *)
(* cycle is running.                                                       *)
THEOREM JoinIsNotInVain == Spec => JoinWaitsForACycle
<1>1. ASSUME WokenInv, mpc = "worker", Tick PROVE wpc = "run"
  <2>1. wpc # "exited"
    BY <1>1 DEF Tick, MainRests, Joins, Ended
  <2> QED
    BY <1>1, <2>1 DEF Tick, LoopTick, WorkerRests, WokenInv
<1>2. WokenInv /\ [Next]_vars => [mpc = "worker" /\ Tick => wpc = "run"]_vars
  BY <1>1
<1> QED
  BY InitWoken, NextWoken, <1>2, PTL DEF Spec, JoinWaitsForACycle

(* A worker that is told to stop while it waits looks at stop_event before *)
(* it does anything else, and leaves.                                      *)
Leaving == stop /\ wpc \in {"wait", "look", "exited"}

LEMMA LeavingLasts == Leaving /\ [Next]_vars => Leaving'
<1> SUFFICES ASSUME Leaving, [Next]_vars PROVE Leaving'
  OBVIOUS
<1>1. CASE Work
  BY <1>1 DEF Leaving, Work, Worker, CheckStop, Leave, Goto, KeepRest, WakeUp,
     LookAtStop, SkipCycle, BeginCycle, CycleReturns, CycleRaises, EndNap,
     ClearSignal
<1>2. CASE ~Work
  <2>1. wpc' = wpc /\ (stop => stop')
    BY <1>2 DEF Next, SetStop, Shutdown, WakeWorker, TellDrain, JoinAll, Join,
       CloseRelay, RelayEnded, RelayLate, ThreadEnds, Serve, Fire, Warn,
       RelayStep, Tick, LoopTick, vars, loopVars
  <2> QED
    BY <2>1 DEF Leaving
<1> QED
  BY <1>1, <1>2

(* The wake-up of _shutdown is never taken for a tick of the timer.        *)
THEOREM StopStays == Spec => StopIsFinal
<1>1. stop /\ wpc = "wait" => Leaving
  BY DEF Leaving
<1>2. Leaving => wpc # "run"
  BY DEF Leaving
<1> QED
  BY <1>1, <1>2, LeavingLasts, PTL DEF Spec, StopIsFinal

-----------------------------------------------------------------------------
(* The way of a warning: what has been tried, what the round has collected,*)
(* the queue and the pipe are, put together, all warnings in their order.  *)

LEMMA HeadMoves ==
    ASSUME NEW a \in Seq(Nat), NEW b \in Seq(Nat), NEW c \in Seq(Nat), c # <<>>
    PROVE  (a \o Append(b, Head(c))) \o Tail(c) = (a \o b) \o c
<1> DEFINE one == <<Head(c)>>
<1>1. Head(c) \in Nat /\ Tail(c) \in Seq(Nat)
  BY HeadTailProperties
<1>2. one \in Seq(Nat)
  BY <1>1
<1>3. Append(b, Head(c)) = b \o one
  BY <1>1, AppendIsConcat
<1>4. one \o Tail(c) = c
  <2> DEFINE d == one \o Tail(c)
  <2>1. Len(c) \in Nat \ {0} /\ Len(Tail(c)) = Len(c) - 1
        /\ \A i \in 1..Len(c) - 1 : Tail(c)[i] = c[i + 1]
    BY HeadTailProperties, EmptySeq
  <2>2. Len(one) = 1 /\ one[1] = c[1]
    OBVIOUS
  <2>3. d \in Seq(Nat) /\ Len(d) = Len(c)
    BY <1>1, <1>2, <2>1, <2>2, ConcatProperties
  <2>4. ASSUME NEW i \in 1..Len(c) PROVE d[i] = c[i]
    <3>1. d[i] = IF i <= 1 THEN one[i] ELSE Tail(c)[i - 1]
      BY <1>1, <1>2, <2>1, <2>2, ConcatProperties
    <3> QED
      BY <2>1, <2>2, <3>1
  <2> HIDE DEF d
  <2>5. d = c
    BY <2>3, <2>4, SeqEqual
  <2> QED
    BY <2>5 DEF d
<1>5. a \o b \in Seq(Nat)
  BY ConcatProperties
<1>6. (a \o (b \o one)) = (a \o b) \o one
  BY <1>2, ConcatAssociative
<1>7. ((a \o b) \o one) \o Tail(c) = (a \o b) \o (one \o Tail(c))
  BY <1>1, <1>2, <1>5, ConcatAssociative
<1> QED
  BY <1>3, <1>4, <1>6, <1>7

LEMMA AppendMoves ==
    ASSUME NEW a \in Seq(Nat), NEW b \in Seq(Nat), NEW e \in Nat
    PROVE  a \o Append(b, e) = Append(a \o b, e)
<1> DEFINE one == <<e>>
<1>1. one \in Seq(Nat)
  OBVIOUS
<1>2. (a \o b) \o one = a \o (b \o one)
  BY <1>1, ConcatAssociative
<1>3. a \o b \in Seq(Nat)
  BY ConcatProperties
<1> QED
  BY <1>2, <1>3, AppendIsConcat

(* Numbered from 1, without a gap or a repetition.                         *)
Counts(s, n) == s \in Seq(Nat) /\ Len(s) = n /\ \A i \in 1..n : s[i] = i

LEMMA CountsOn ==
    ASSUME NEW n \in Nat, NEW s, Counts(s, n)
    PROVE  Counts(Append(s, n + 1), n + 1)
BY AppendProperties DEF Counts

Held == IF rpc = "post" THEN <<>> ELSE batch

FlowInv ==
    /\ rpc \in {"collect", "post", "exited", "killed"}
    /\ said \in Nat /\ {pipe, q, batch, tried} \subseteq Seq(Nat)
    /\ rpc = "exited" => batch = <<>> /\ q = <<>> /\ pipe = <<>>
    /\ rpc = "killed" => batch = <<>> /\ q = <<>> /\ pipe = <<>>
    /\ eof => pipe = <<>> /\ ~open
    /\ rpc # "killed" => Counts(InFlight, said)
    /\ rpc = "killed" => \A i \in DOMAIN tried : tried[i] = i

LEMMA InitFlow == Init => FlowInv
BY DEF Init, RelayInit, FlowInv, InFlight, Counts

LEMMA EmitKeepsFlow == ASSUME FlowInv, Emit PROVE FlowInv'
<1> USE DEF FlowInv
<1> DEFINE a == (tried \o Held) \o q
<1>1. Held \in Seq(Nat) /\ Held' = Held
  BY DEF Emit, Held
<1>2. a \in Seq(Nat)
  <2>1. tried \o Held \in Seq(Nat)
    BY <1>1, ConcatProperties
  <2> QED
    BY <2>1, ConcatProperties
<1>3. InFlight = a \o pipe /\ InFlight' = a \o Append(pipe, said + 1)
  BY DEF Emit, InFlight, Held
<1> HIDE DEF a
<1>4. InFlight' = Append(InFlight, said + 1)
  <2>1. said + 1 \in Nat /\ pipe \in Seq(Nat)
    OBVIOUS
  <2>2. a \o Append(pipe, said + 1) = Append(a \o pipe, said + 1)
    BY <1>2, <2>1, AppendMoves
  <2> QED
    BY <1>3, <2>2
<1>5. Counts(InFlight, said)
  BY DEF Emit, Running
<1>6. Counts(InFlight, said)'
  <2>1. Counts(Append(InFlight, said + 1), said + 1)
    BY <1>5, CountsOn
  <2>2. said' = said + 1
    BY DEF Emit
  <2> QED
    BY <2>1, <2>2, <1>4 DEF Counts
<1>7. pipe' \in Seq(Nat)
  BY AppendProperties DEF Emit
<1> QED
  BY <1>6, <1>7 DEF Emit, Running

LEMMA ReadKeepsFlow == ASSUME FlowInv, ReadLine PROVE FlowInv'
<1> USE DEF FlowInv
<1> DEFINE a == tried \o Held
<1>1. a \in Seq(Nat)
  <2>1. Held \in Seq(Nat)
    BY DEF Held
  <2> QED
    BY <2>1, ConcatProperties
<1>2. /\ InFlight = (a \o q) \o pipe
      /\ InFlight' = (a \o Append(q, Head(pipe))) \o Tail(pipe)
  BY DEF ReadLine, InFlight, Held
<1> HIDE DEF a
<1>3. InFlight' = InFlight
  BY <1>1, <1>2, HeadMoves DEF ReadLine
<1>4. {pipe', q'} \subseteq Seq(Nat)
  BY HeadTailProperties, AppendProperties DEF ReadLine
<1> QED
  BY <1>3, <1>4 DEF ReadLine, Running, Counts

LEMMA CollectKeepsFlow == ASSUME FlowInv, Collect PROVE FlowInv'
<1> USE DEF FlowInv
<1>1. (tried \o Append(batch, Head(q))) \o Tail(q) = (tried \o batch) \o q
  BY HeadMoves DEF Collect
<1>2. InFlight' = InFlight
  BY <1>1 DEF Collect, InFlight
<1>3. {batch', q'} \subseteq Seq(Nat)
  BY HeadTailProperties, AppendProperties DEF Collect
<1> QED
  BY <1>2, <1>3 DEF Collect, Counts

LEMMA PostKeepsFlow == ASSUME FlowInv, StartPost \/ EndPost PROVE FlowInv'
<1> USE DEF FlowInv
<1>1. CASE StartPost
  <2>1. tried \o batch \in Seq(Nat)
    BY ConcatProperties
  <2>2. (tried \o batch) \o <<>> = tried \o batch
    BY <2>1, ConcatEmptySeq
  <2>3. InFlight' = InFlight
    BY <1>1, <2>2 DEF StartPost, InFlight
  <2> QED
    BY <1>1, <2>1, <2>3 DEF StartPost, Counts
<1>2. CASE EndPost
  <2>1. InFlight' = InFlight
    BY <1>2 DEF EndPost, InFlight
  <2> QED
    BY <1>2, <2>1 DEF EndPost, Counts
<1> QED
  BY <1>1, <1>2

LEMMA FirstPart ==
    ASSUME NEW a \in Seq(Nat), NEW b \in Seq(Nat)
    PROVE  /\ a \o b \in Seq(Nat)
           /\ \A i \in 1..Len(a) : i \in 1..Len(a \o b) /\ (a \o b)[i] = a[i]
<1>1. Len(a) \in Nat /\ Len(b) \in Nat
  BY LenProperties
<1> QED
  BY <1>1, ConcatProperties

(* What has been tried is a first part of what is in flight.               *)
LEMMA KillKeepsFlow ==
    ASSUME FlowInv, Running, KillRelay
    PROVE  FlowInv'
<1> USE DEF FlowInv
<1> DEFINE a == tried \o Held
           b == a \o q
<1>1. Held \in Seq(Nat) /\ InFlight = b \o pipe
  BY DEF Held, InFlight
<1>2. a \in Seq(Nat) /\ \A i \in 1..Len(tried) : i \in 1..Len(a) /\ a[i] = tried[i]
  BY <1>1, FirstPart
<1>3. b \in Seq(Nat) /\ \A i \in 1..Len(a) : i \in 1..Len(b) /\ b[i] = a[i]
  <2> HIDE DEF a
  <2> QED
    BY <1>2, FirstPart
<1>4. \A i \in 1..Len(tried) : i \in 1..Len(InFlight) /\ InFlight[i] = tried[i]
  <2> HIDE DEF a, b
  <2>1. \A i \in 1..Len(b) : i \in 1..Len(b \o pipe) /\ (b \o pipe)[i] = b[i]
    BY <1>3, FirstPart
  <2> QED
    BY <1>1, <1>2, <1>3, <2>1
<1>5. \A i \in DOMAIN tried : tried[i] = i
  <2>1. DOMAIN tried = 1..Len(tried)
    BY LenProperties
  <2>2. Counts(InFlight, said)
    BY DEF Running
  <2> QED
    BY <1>4, <2>1, <2>2 DEF Counts
<1> QED
  BY <1>5 DEF KillRelay

LEMMA NextFlow == FlowInv /\ [Next]_vars => FlowInv'
<1> SUFFICES ASSUME FlowInv, [Next]_vars PROVE FlowInv'
  OBVIOUS
<1>1. CASE Warn
  BY <1>1, EmitKeepsFlow DEF Warn
<1>2. CASE RelayStep
  <2>1. CASE ReadEof
    BY <2>1 DEF ReadEof, FlowInv, InFlight, Counts
  <2> QED
    BY <1>2, <2>1, ReadKeepsFlow, CollectKeepsFlow, PostKeepsFlow
       DEF RelayStep, RelaySteps
<1>3. CASE RelayLate
  BY <1>3, KillKeepsFlow DEF RelayLate
<1>4. CASE CloseRelay
  BY <1>4 DEF CloseRelay, CloseStdin, FlowInv, InFlight, Counts
<1>5. CASE Tick
  BY <1>5 DEF Tick, RelayClock, FlowInv, InFlight, Counts
<1>6. CASE UNCHANGED relayVars
  BY <1>6 DEF relayVars, FlowInv, InFlight, Counts
<1> QED
  BY <1>1, <1>2, <1>3, <1>4, <1>5, <1>6
     DEF Next, SetStop, Shutdown, WakeWorker, TellDrain, JoinAll, Join,
         RelayEnded, ThreadEnds, Serve, Work, vars

(* Whatever timeouts fire, and wherever a kill comes, no warning is posted *)
(* twice or before an earlier one.                                         *)
THEOREM PostedOnceInOrder == Spec => []OnceInOrder
<1>1. FlowInv => OnceInOrder
  <2> SUFFICES ASSUME FlowInv PROVE OnceInOrder
    OBVIOUS
  <2>1. CASE rpc # "killed"
    <3>1. Counts(InFlight, said)
      BY <2>1 DEF FlowInv
    <3>2. DOMAIN InFlight = 1..said
      BY <3>1, LenProperties DEF Counts
    <3> QED
      BY <3>1, <3>2 DEF Counts, OnceInOrder
  <2>2. CASE rpc = "killed"
    <3>1. InFlight = ((tried \o <<>>) \o <<>>) \o <<>> /\ tried \in Seq(Nat)
      BY <2>2 DEF FlowInv, InFlight
    <3>2. InFlight = tried
      BY <3>1, ConcatEmptySeq
    <3>3. \A i \in DOMAIN tried : i \in Nat /\ tried[i] = i
      BY <2>2, <3>1, LenProperties DEF FlowInv
    <3> QED
      BY <3>2, <3>3 DEF OnceInOrder
  <2> QED
    BY <2>1, <2>2
<1> QED
  BY InitFlow, NextFlow, <1>1, PTL DEF Spec

-----------------------------------------------------------------------------
(* The patience that stop() must have. A round that is being posted when   *)
(* stdin is closed may have missed the last lines; they go in the next     *)
(* one, which must collect for a whole RelayTick and post again.           *)

Patience == RelayTick + 2 * PostTime
Drained == pipe = <<>> /\ q = <<>> /\ eof

(* The time the relay still needs, at the most, once stdin is closed.      *)
Remaining ==
    IF rpc = "post"
    THEN IF Drained THEN left ELSE left + RelayTick + PostTime
    ELSE IF Drained \/ left > 0 THEN left + PostTime ELSE Patience

RelayBounds ==
    /\ left \in Nat /\ waited \in Nat /\ open \in BOOLEAN
    /\ rpc \in {"collect", "post", "exited", "killed"}
    /\ rpc = "collect" => left <= RelayTick
    /\ rpc = "post" => left <= PostTime
    /\ open <=> mpc \notin {"relay", "gone"}
    /\ eof => ~open
    /\ rpc = "exited" => eof
    /\ rpc = "killed" => mpc = "gone"
    /\ mpc = "gone" => ~Running

InTime == mpc = "relay" /\ Running => waited + Remaining <= Patience

PatienceInv == RelayBounds /\ InTime

LEMMA InitPatience == Init => PatienceInv
BY RelayAssumption DEF Init, RelayInit, PatienceInv, RelayBounds, InTime

LEMMA RemainingType == RelayBounds => Remaining \in Nat /\ Patience \in Nat
BY RelayAssumption DEF RelayBounds, Remaining, Patience

(* A step of the relay takes no time, so it must not add any.              *)
LEMMA RelayKeepsBounds ==
    ASSUME RelayBounds, RelayStep
    PROVE  RelayBounds' /\ UNCHANGED <<mpc, waited>>
<1>1. UNCHANGED <<mpc, waited, open>>
  BY DEF RelayStep, mainVars, RelaySteps, ReadLine, ReadEof, Collect, StartPost,
         EndPost
<1>2. left' \in Nat
      /\ rpc' \in {"collect", "post", "exited"} /\ Running
      /\ (rpc' = "collect" => left' <= RelayTick)
      /\ (rpc' = "post" => left' <= PostTime)
  BY RelayAssumption
     DEF RelayBounds, RelayStep, RelaySteps, ReadLine, ReadEof, Collect, StartPost,
         EndPost, Running
<1>3. (eof' => ~open) /\ (rpc' = "exited" => eof') /\ (rpc = "exited" => rpc' = rpc)
  BY DEF RelayBounds, RelayStep, RelaySteps, ReadLine, ReadEof, Collect, StartPost,
         EndPost, Running
<1> QED
  BY <1>1, <1>2, <1>3 DEF RelayBounds

LEMMA RelayTakesNoTime ==
    ASSUME RelayTick > 0, RelayBounds, RelayBounds', RelayStep, Running'
    PROVE  Running /\ Remaining' <= Remaining
<1> USE RelayAssumption
<1>1. CASE ReadLine \/ ReadEof \/ Collect
  <2>1. ~Drained /\ UNCHANGED <<rpc, left>>
    BY <1>1 DEF ReadLine, ReadEof, Collect, Drained
  <2>2. Running
    BY <2>1 DEF Running
  <2>3. Remaining' <= Remaining
    <3>1. CASE rpc = "post"
      BY <2>1, <3>1 DEF Remaining, RelayBounds
    <3>2. CASE rpc # "post" /\ left > 0
      BY <2>1, <3>2 DEF Remaining, RelayBounds
    <3>3. CASE rpc # "post" /\ left = 0
      BY <2>1, <3>3 DEF Remaining, RelayBounds, Patience
    <3> QED
      BY <3>1, <3>2, <3>3 DEF RelayBounds
  <2> QED
    BY <2>2, <2>3
<1>2. CASE StartPost
  <2>1. /\ rpc = "collect" /\ left = 0 /\ rpc' = "post" /\ (left' = 0 \/ left' = PostTime)
        /\ Drained' = Drained
    BY <1>2 DEF StartPost, Drained
  <2>2. CASE Drained
    BY <2>1, <2>2 DEF Remaining, Running
  <2>3. CASE ~Drained
    <3>1. Remaining = RelayTick + 2 * PostTime
      BY <2>1, <2>3 DEF Remaining, Patience
    <3>2. Remaining' = left' + RelayTick + PostTime
      BY <2>1, <2>3 DEF Remaining
    <3>3. left' + RelayTick + PostTime <= RelayTick + 2 * PostTime
      BY <2>1
    <3>4. Running
      BY <2>1 DEF Running
    <3> QED
      BY <3>1, <3>2, <3>3, <3>4
  <2> QED
    BY <2>2, <2>3
<1>3. CASE EndPost
  <2>1. /\ rpc = "post" /\ rpc' = "collect" /\ left' = RelayTick /\ ~Drained
    BY <1>3 DEF EndPost, Drained, Running
  <2> QED
    BY <2>1 DEF Remaining, Running, RelayBounds
<1> QED
  BY <1>1, <1>2, <1>3 DEF RelayStep, RelaySteps

LEMMA RelayKeepsPatience ==
    ASSUME RelayTick > 0, PatienceInv, RelayStep
    PROVE  PatienceInv'
<1>1. RelayBounds' /\ UNCHANGED <<mpc, waited>>
  BY RelayKeepsBounds DEF PatienceInv
<1>2. ASSUME mpc = "relay", Running' PROVE waited + Remaining' <= Patience
  <2>1. Running /\ Remaining' <= Remaining
    BY <1>1, <1>2, RelayTakesNoTime DEF PatienceInv
  <2>2. waited + Remaining <= Patience
    BY <1>2, <2>1 DEF PatienceInv, InTime
  <2>3. Remaining' \in Nat
    <3>1. left' \in Nat /\ RelayTick \in Nat /\ PostTime \in Nat /\ Patience' \in Nat
      BY <1>1, RelayAssumption DEF RelayBounds, Patience
    <3>2. \A a, b, c \in Nat : a + b \in Nat /\ a + b + c \in Nat
      OBVIOUS
    <3> QED
      BY <3>1, <3>2 DEF Remaining
  <2>4. Remaining \in Nat /\ Patience \in Nat /\ waited \in Nat
    BY RemainingType DEF PatienceInv, RelayBounds
  <2>5. \A a, b, c, w \in Nat : a <= b /\ w + b <= c => w + a <= c
    OBVIOUS
  <2> QED
    BY <2>1, <2>2, <2>3, <2>4, <2>5
<1>3. Patience' = Patience
  BY DEF Patience
<1> QED
  BY <1>1, <1>2, <1>3 DEF PatienceInv, InTime

(* A tick is spent on a relay that has read everything.                    *)
LEMMA TickKeepsPatience ==
    ASSUME PatienceInv, Tick
    PROVE  PatienceInv'
<1> USE RelayAssumption DEF PatienceInv
<1>1. UNCHANGED <<mpc, open, rpc, eof, pipe, q>> /\ waited' \in {0, waited + 1}
  BY DEF Tick, RelayClock
<1>2. /\ Running => left > 0 /\ left' = left - 1
      /\ ~Running => left' = left
      /\ Running /\ ~open => eof /\ pipe = <<>> /\ (rpc = "collect" => q = <<>>)
  BY DEF Tick, RelayClock, RelayRests, RelayBounds, Running
<1>3. RelayBounds'
  BY <1>1, <1>2 DEF RelayBounds, Running
<1>4. ASSUME mpc = "relay", Running PROVE waited' + Remaining' <= Patience
  <2>1. waited' = waited + 1
    BY <1>4 DEF Tick
  <2>2. Drained' = Drained /\ (rpc = "collect" => Drained)
    BY <1>1, <1>2, <1>4 DEF Drained, RelayBounds
  <2>3. Remaining' = Remaining - 1
    BY <1>1, <1>2, <1>4, <2>2 DEF Remaining, Running, RelayBounds
  <2>4. waited + Remaining <= Patience
    BY <1>4 DEF InTime
  <2>5. Remaining \in Nat /\ Patience \in Nat /\ waited \in Nat
    BY RemainingType DEF RelayBounds
  <2> QED
    BY <2>1, <2>3, <2>4, <2>5
<1>5. Running' = Running /\ Patience' = Patience
  BY <1>1 DEF Running, Patience
<1> QED
  BY <1>1, <1>3, <1>4, <1>5 DEF InTime

(* Main's own steps: a relay that is killed needs no more time.            *)
LEMMA MainKeepsPatience ==
    ASSUME PatienceInv, SetStop \/ Shutdown
    PROVE  PatienceInv'
<1> USE RelayAssumption DEF PatienceInv
<1>1. CASE SetStop \/ WakeWorker \/ TellDrain \/ JoinAll
  <2>1. /\ mpc \notin {"relay", "gone"} /\ mpc' \notin {"relay", "gone"}
        /\ waited' = 0 /\ UNCHANGED <<rpc, left, open, eof>>
    BY <1>1 DEF SetStop, WakeWorker, TellDrain, JoinAll, Join, MainGoes, relayVars
  <2> QED
    BY <2>1 DEF RelayBounds, InTime
<1>2. CASE CloseRelay
  <2>1. /\ mpc = "stdin" /\ mpc' = "relay" /\ waited' = 0
        /\ open' = FALSE /\ UNCHANGED <<rpc, left, eof, pipe, q>>
    BY <1>2 DEF CloseRelay, CloseStdin, MainGoes
  <2>2. RelayBounds'
    BY <2>1 DEF RelayBounds
  <2>3. Running => Remaining <= Patience
    BY DEF Remaining, Patience, Running, RelayBounds
  <2>4. Remaining' = Remaining /\ Running' = Running /\ Patience' = Patience
    BY <2>1 DEF Remaining, Drained, Running, Patience
  <2>5. Remaining \in Nat /\ Patience \in Nat
    BY RemainingType
  <2> QED
    BY <2>1, <2>2, <2>3, <2>4, <2>5 DEF InTime
<1>3. CASE RelayEnded
  <2>1. /\ mpc = "relay" /\ mpc' = "gone" /\ waited' = 0 /\ rpc = "exited"
        /\ UNCHANGED <<rpc, left, open, eof>>
    BY <1>3 DEF RelayEnded, MainGoes, Running, relayVars, RelayBounds
  <2> QED
    BY <2>1 DEF RelayBounds, InTime, Running
<1>4. CASE RelayLate
  <2>1. /\ mpc = "relay" /\ mpc' = "gone" /\ waited' = 0 /\ rpc' = "killed"
        /\ UNCHANGED <<left, open, eof>>
    BY <1>4 DEF RelayLate, MainGoes, KillRelay
  <2> QED
    BY <2>1 DEF RelayBounds, InTime, Running
<1> QED
  BY <1>1, <1>2, <1>3, <1>4 DEF Shutdown

LEMMA NextPatience ==
    ASSUME RelayTick > 0
    PROVE  PatienceInv /\ [Next]_vars => PatienceInv'
<1> SUFFICES ASSUME PatienceInv, [Next]_vars PROVE PatienceInv'
  OBVIOUS
<1>1. CASE ThreadEnds \/ Serve \/ Work \/ UNCHANGED vars
  <2>1. UNCHANGED <<mpc, waited, relayVars>>
    BY <1>1 DEF ThreadEnds, Serve, Work, vars, mainVars
  <2> QED
    BY <2>1 DEF relayVars, PatienceInv, RelayBounds, InTime, Running, Remaining,
                Drained, Patience
<1>2. CASE Warn
  <2>1. open /\ UNCHANGED <<mpc, waited, open, eof, rpc, left>>
    BY <1>2 DEF Warn, Emit, mainVars
  <2> QED
    BY <2>1 DEF PatienceInv, RelayBounds, InTime
<1> QED
  BY <1>1, <1>2, RelayKeepsPatience, TickKeepsPatience, MainKeepsPatience DEF Next

(* A relay that is killed has nothing left but POSTs that are under way.   *)
LEMMA KilledLate ==
    ASSUME PostTime > 0, Patience <= StopWait, FlowInv, PatienceInv, RelayLate
    PROVE  rpc = "post" /\ q = <<>> /\ pipe = <<>>
<1>1. waited = StopWait /\ Running /\ waited + Remaining <= Patience
  BY DEF RelayLate, MainGoes, PatienceInv, InTime
<1>2. Remaining \in Nat /\ Patience \in Nat
  BY RemainingType DEF PatienceInv
<1>3. Remaining = 0
  BY <1>1, <1>2, ProcessAssumption
<1> QED
  BY <1>1, <1>3, RelayAssumption
     DEF Remaining, Drained, Patience, Running, PatienceInv, RelayBounds

(* With nothing in the queue or the pipe, and no batch to be posted, all   *)
(* that was said has been posted.                                          *)
LEMMA NothingHeld ==
    ASSUME FlowInv, rpc # "killed", Held = <<>>, q = <<>>, pipe = <<>>
    PROVE  \A r \in 1..said : \E i \in DOMAIN tried : tried[i] = r
<1>1. tried \in Seq(Nat) /\ InFlight = ((tried \o <<>>) \o <<>>) \o <<>>
  BY DEF FlowInv, InFlight, Held
<1>2. Counts(tried, said)
  BY <1>1, ConcatEmptySeq DEF FlowInv
<1> QED
  BY <1>2, LenProperties DEF Counts

LEMMA NextLastWords ==
    ASSUME PostTime > 0, Patience <= StopWait,
           FlowInv, PatienceInv, LastWords, [Next]_vars
    PROVE  LastWords'
<1>1. CASE RelayEnded
  <2>1. UNCHANGED <<said, tried>> /\ rpc = "exited"
    BY <1>1 DEF RelayEnded, relayVars, Running, FlowInv, PatienceInv, RelayBounds,
                MainGoes
  <2>2. Held = <<>> /\ q = <<>> /\ pipe = <<>>
    BY <2>1 DEF FlowInv, Held
  <2> QED
    BY <2>1, <2>2, NothingHeld DEF LastWords
<1>2. CASE RelayLate
  <2>1. UNCHANGED <<said, tried>>
    BY <1>2 DEF RelayLate, KillRelay
  <2>2. rpc = "post" /\ Held = <<>> /\ q = <<>> /\ pipe = <<>>
    BY <1>2, KilledLate DEF Held
  <2> QED
    BY <2>1, <2>2, NothingHeld DEF LastWords
<1>3. CASE mpc' = "gone" => mpc = "gone" /\ UNCHANGED <<said, tried>>
  BY <1>3 DEF LastWords
<1>4. CASE RelayStep
  <2>1. Running /\ mpc' = mpc
    BY <1>4 DEF RelayStep, mainVars, RelaySteps, ReadLine, ReadEof, Collect,
                StartPost, EndPost, Running
  <2> QED
    BY <2>1, <1>3 DEF PatienceInv, RelayBounds
<1>5. CASE Next /\ ~RelayEnded /\ ~RelayLate /\ ~RelayStep
  <2>1. mpc' = "gone" => mpc = "gone" /\ UNCHANGED <<said, tried>>
    BY <1>5 DEF Next, SetStop, Shutdown, WakeWorker, TellDrain, JoinAll, Join,
                CloseRelay, MainGoes, ThreadEnds, Serve, Work, Up, mainVars,
                Warn, Tick, MainRests, Joins, relayVars
  <2> QED
    BY <2>1, <1>3
<1>6. CASE UNCHANGED vars
  BY <1>6, <1>3 DEF vars, mainVars, relayVars
<1> QED
  BY <1>1, <1>2, <1>4, <1>5, <1>6

(* If stop() waits as long as two rounds of posting and one of collecting  *)
(* take, every warning has been posted when the process is gone, also when *)
(* the relay is killed at the last moment; one tick less loses some.       *)
THEOREM PatienceSuffices ==
    ASSUME RelayTick > 0, PostTime > 0, RelayTick + 2 * PostTime <= StopWait
    PROVE  Spec => []LastWords
<1>1. Patience <= StopWait
  BY DEF Patience
<1>2. Init => LastWords
  BY DEF Init, LastWords
<1> QED
  BY InitFlow, NextFlow, InitPatience, NextPatience, <1>1, <1>2, NextLastWords,
     PTL DEF Spec

-----------------------------------------------------------------------------
(* Types. A backoff is at most BackoffCap ticks' worth, because rounding   *)
(* seconds up to ticks keeps their order.                                  *)

LEMMA DivBounds ==
    ASSUME NEW n \in Nat, NEW s \in Nat \ {0}
    PROVE  n \div s \in Nat
OBVIOUS

LEMMA DivMonotonic ==
    ASSUME NEW m \in Nat, NEW n \in Nat, NEW s \in Nat \ {0}, m <= n
    PROVE  m \div s <= n \div s
OBVIOUS

LEMMA TicksBounded ==
    /\ \A p \in 2..BackoffCap : Ticks(p) \in 0..Ticks(BackoffCap)
    /\ Ticks(BackoffCap) \in Nat /\ GapCap \in Nat
<1> USE LoopAssumption
<1>1. \A p \in 2..60 : p + Seconds - 1 \in Nat /\ p + Seconds - 1 <= 60 + Seconds - 1
  OBVIOUS
<1>2. \A p \in 2..60 : Ticks(p) \in Nat /\ Ticks(p) <= Ticks(60)
  BY <1>1, DivBounds, DivMonotonic DEF Ticks
<1>3. 60 \in 2..60
  OBVIOUS
<1> QED
  BY <1>2, <1>3 DEF BackoffCap, GapCap

LEMMA ZeroInRange ==
    /\ 0 \in 0..GapCap /\ GapCap \in 0..GapCap
    /\ 0 \in 0..Ticks(BackoffCap) /\ 2 \in 2..BackoffCap
<1>1. 2 \in 2..BackoffCap
  BY DEF BackoffCap
<1> QED
  BY <1>1, TicksBounded

LEMMA WorkerKeepsType ==
    ASSUME LoopTypeOK, Worker
    PROVE  LoopTypeOK'
<1> USE TicksBounded, ZeroInRange DEF LoopTypeOK
<1>1. CASE CheckStop \/ LookAtStop
  <2>1. CASE Leave("check") \/ Leave("look")
    BY <2>1 DEF Leave, Goto
  <2>2. CASE KeepRest /\ wpc' \in {"wait", "guard"}
    BY <2>2 DEF KeepRest
  <2> QED
    BY <1>1, <2>1, <2>2 DEF CheckStop, LookAtStop, Goto
<1>2. CASE WakeUp
  BY <1>2 DEF WakeUp, Goto, KeepRest
<1>3. CASE SkipCycle \/ BeginCycle \/ CycleReturns
  BY <1>3 DEF SkipCycle, BeginCycle, CycleReturns, Goto
<1>4. CASE CycleRaises
  <2>1. pause' \in 2..BackoffCap
    BY <1>4 DEF CycleRaises, BackoffCap
  <2> QED
    BY <1>4, <2>1 DEF CycleRaises, Goto
<1>5. CASE EndNap
  BY <1>5 DEF EndNap, Goto
<1>6. CASE ClearSignal
  BY <1>6 DEF ClearSignal, Goto
<1> QED
  BY <1>1, <1>2, <1>3, <1>4, <1>5, <1>6 DEF Worker

LEMMA RelayKeepsType ==
    ASSUME RelayTypeOK,
           RelaySteps \/ Emit \/ CloseStdin \/ KillRelay \/ RelayClock
    PROVE  RelayTypeOK'
<1> USE RelayAssumption DEF RelayTypeOK
<1>1. CASE ReadLine
  <2>1. Head(pipe) \in Record /\ Tail(pipe) \in Seq(Record)
    BY <1>1, HeadTailProperties DEF ReadLine
  <2> QED
    BY <1>1, <2>1, AppendProperties DEF ReadLine
<1>2. CASE Collect
  <2>1. Head(q) \in Record /\ Tail(q) \in Seq(Record)
    BY <1>2, HeadTailProperties DEF Collect
  <2> QED
    BY <1>2, <2>1, AppendProperties DEF Collect
<1>3. CASE StartPost
  <2>1. tried \o batch \in Seq(Record)
    BY ConcatProperties
  <2>2. left' \in 0..RelayTick + PostTime
    BY <1>3 DEF StartPost
  <2> QED
    BY <1>3, <2>1, <2>2 DEF StartPost
<1>4. CASE EndPost
  BY <1>4 DEF EndPost
<1>5. CASE Emit
  <2>1. said + 1 \in Record
    BY <1>5 DEF Emit, Record
  <2> QED
    BY <1>5, <2>1, AppendProperties DEF Emit
<1>6. CASE ReadEof \/ CloseStdin
  BY <1>6 DEF ReadEof, CloseStdin
<1>8. CASE KillRelay
  <2>1. <<>> \in Seq(Record)
    OBVIOUS
  <2> QED
    BY <1>8, <2>1 DEF KillRelay
<1>7. CASE RelayClock
  BY <1>7 DEF RelayClock, RelayRests, Running
<1> QED
  BY <1>1, <1>2, <1>3, <1>4, <1>5, <1>6, <1>7, <1>8 DEF RelaySteps

(* Every variable keeps its type: no wait outlasts its timeout, and no     *)
(* backoff the cap.                                                        *)
THEOREM ProcessTypeCorrect == Spec => []ProcessTypeOK
<1> USE LoopAssumption, RelayAssumption, ProcessAssumption, TicksBounded, ZeroInRange
<1>1. Init => ProcessTypeOK
  <2> SUFFICES ASSUME Init PROVE ProcessTypeOK
    OBVIOUS
  <2>1. LoopTypeOK
    <3>1. due \in 0..Poll /\ gap \in 0..GapCap
      BY DEF Init, LoopInit
    <3>2. pause \in 2..BackoffCap /\ nap \in 0..Ticks(BackoffCap)
      BY DEF Init, LoopInit
    <3> QED
      BY <3>1, <3>2 DEF Init, LoopInit, LoopTypeOK
  <2>2. RelayTypeOK
    <3>1. <<>> \in Seq(Record)
      OBVIOUS
    <3>2. said \in 0..Records /\ left \in 0..RelayTick + PostTime
      BY DEF Init, RelayInit
    <3> QED
      BY <3>1, <3>2 DEF Init, RelayInit, RelayTypeOK
  <2> QED
    BY <2>1, <2>2 DEF Init, ProcessTypeOK
<1>2. ProcessTypeOK /\ [Next]_vars => ProcessTypeOK'
  <2> SUFFICES ASSUME ProcessTypeOK, [Next]_vars PROVE ProcessTypeOK'
    OBVIOUS
  <2> USE DEF ProcessTypeOK
  <2>1. CASE SetStop
    BY <2>1 DEF SetStop, MainGoes, LoopTypeOK, relayVars, RelayTypeOK
  <2>2. CASE WakeWorker
    BY <2>2 DEF WakeWorker, MainGoes, LoopTypeOK, relayVars, RelayTypeOK
  <2>3. CASE TellDrain \/ JoinAll \/ RelayEnded \/ CloseRelay \/ RelayLate
    <3>1. LoopTypeOK'
      BY <2>3 DEF TellDrain, JoinAll, Join, RelayEnded, CloseRelay, RelayLate,
                  loopVars, LoopTypeOK
    <3>2. RelayTypeOK'
      <4>1. CASE CloseRelay \/ RelayLate
        BY <4>1, RelayKeepsType DEF CloseRelay, RelayLate
      <4>2. CASE UNCHANGED relayVars
        BY <4>2 DEF relayVars, RelayTypeOK
      <4> QED
        BY <2>3, <4>1, <4>2 DEF TellDrain, JoinAll, Join, RelayEnded
    <3>3. /\ mpc' \in {"tell", "drain", "worker", "connector", "stdin", "relay", "gone"}
          /\ waited' = 0 /\ UNCHANGED <<idle, alive>>
      BY <2>3 DEF TellDrain, JoinAll, Join, RelayEnded, CloseRelay, RelayLate, MainGoes
    <3> QED
      BY <3>1, <3>2, <3>3
  <2>4. CASE ThreadEnds
    BY <2>4 DEF ThreadEnds, loopVars, LoopTypeOK, relayVars, RelayTypeOK
  <2>5. CASE Serve
    BY <2>5 DEF Serve, Fire, LoopTypeOK, relayVars, RelayTypeOK, mainVars
  <2>6. CASE Work
    <3>1. LoopTypeOK'
      BY <2>6, WorkerKeepsType DEF Work
    <3> QED
      BY <2>6, <3>1 DEF Work, relayVars, RelayTypeOK
  <2>7. CASE Warn \/ RelayStep
    <3>1. RelayTypeOK'
      BY <2>7, RelayKeepsType DEF Warn, RelayStep
    <3> QED
      BY <2>7, <3>1 DEF Warn, RelayStep, loopVars, LoopTypeOK, mainVars
  <2>8. CASE Tick
    <3>1. RelayTypeOK'
      BY <2>8, RelayKeepsType DEF Tick
    <3>2. LoopTypeOK'
      <4>1. due' \in 0..Poll
        BY <2>8 DEF Tick, MainRests, Joins, LoopTypeOK
      <4>2. gap' \in 0..GapCap
        BY <2>8 DEF Tick, LoopTick, LoopTypeOK
      <4>3. nap' \in 0..Ticks(BackoffCap)
        BY <2>8 DEF Tick, LoopTick, WorkerRests, LoopTypeOK
      <4> QED
        BY <2>8, <4>1, <4>2, <4>3 DEF Tick, LoopTick, LoopTypeOK
    <3>3. waited' \in 0..JoinWait + StopWait
      BY <2>8 DEF Tick, MainRests, Joins
    <3>4. idle' \in 0..GapCap
      BY <2>8 DEF Tick
    <3> QED
      BY <2>8, <3>1, <3>2, <3>3, <3>4 DEF Tick
  <2>9. CASE UNCHANGED vars
    BY <2>9 DEF vars, loopVars, LoopTypeOK, relayVars, RelayTypeOK, mainVars
  <2> QED
    BY <2>1, <2>2, <2>3, <2>4, <2>5, <2>6, <2>7, <2>8, <2>9
       DEF Next, Shutdown
<1> QED
  BY <1>1, <1>2, PTL DEF Spec

-----------------------------------------------------------------------------
(* Signals become cycles. While the timer runs, the ticks since the last   *)
(* cycle and those until the next fire are bounded wherever the worker may *)
(* rest: in a backoff by the backoff, and where it waits for a signal by   *)
(* the last moment at which one can have been dropped.                     *)

LongestBackoff == IF failed THEN Ticks(BackoffCap) ELSE 0

SoonInv ==
    /\ idle <= gap \/ wpc = "exited"
    /\ wpc = "exited" => stop
    /\ mpc = "serving" =>
        /\ ~stop
        /\ wpc = "run" => idle = 0
        /\ wpc = "sleep" => failed /\ idle + nap <= Ticks(BackoffCap)
        /\ wpc = "clear" => idle <= Grace + LongestBackoff
        /\ wpc \in {"check", "wait"} /\ ~signal =>
              idle + due <= Grace + Poll + LongestBackoff

LEMMA InitSoon == Init => SoonInv
BY LoopAssumption, TicksBounded DEF Init, LoopInit, SoonInv, LongestBackoff

LEMMA WorkSoon ==
    ASSUME ProcessTypeOK, SoonInv, Work
    PROVE  SoonInv'
<1> USE LoopAssumption, TicksBounded DEF SoonInv, LongestBackoff, Goto
<1>0. /\ idle \in Nat /\ gap \in Nat /\ nap \in Nat /\ due \in 0..Poll
      /\ failed \in BOOLEAN /\ pause \in 2..BackoffCap /\ mpc' = mpc
  BY DEF ProcessTypeOK, LoopTypeOK, Work
<1>1. idle' = IF wpc' \in {"run", "exited"} THEN 0 ELSE idle
  BY DEF Work
<1>2. CASE Leave("check") \/ Leave("look")
  BY <1>0, <1>1, <1>2 DEF Leave
<1>3. CASE KeepRest /\ \/ wpc = "check" /\ wpc' = "wait"
                       \/ wpc = "wait" /\ wpc' = "look"
                       \/ wpc = "look" /\ wpc' = "guard"
  BY <1>0, <1>1, <1>3 DEF KeepRest
<1>4. CASE SkipCycle
  BY <1>0, <1>1, <1>4 DEF SkipCycle
<1>5. CASE BeginCycle
  BY <1>0, <1>1, <1>5 DEF BeginCycle
<1>6. CASE CycleReturns
  BY <1>0, <1>1, <1>6 DEF CycleReturns
<1>7. CASE CycleRaises
  <2>1. nap' \in 0..Ticks(BackoffCap) /\ failed' = TRUE /\ UNCHANGED <<stop, gap>>
    BY <1>0, <1>7 DEF CycleRaises
  <2> QED
    BY <1>0, <1>1, <1>7, <2>1 DEF CycleRaises
<1>8. CASE EndNap
  BY <1>0, <1>1, <1>8 DEF EndNap
<1>9. CASE ClearSignal
  BY <1>0, <1>1, <1>9 DEF ClearSignal
<1> QED
  BY <1>2, <1>3, <1>4, <1>5, <1>6, <1>7, <1>8, <1>9
     DEF Work, Worker, CheckStop, WakeUp, LookAtStop

LEMMA TickSoon ==
    ASSUME ProcessTypeOK, SoonInv, Tick
    PROVE  SoonInv'
<1> USE LoopAssumption, TicksBounded
<1>0. /\ idle \in 0..GapCap /\ gap \in 0..GapCap /\ nap \in Nat /\ due \in 0..Poll
      /\ failed \in BOOLEAN
  BY DEF ProcessTypeOK, LoopTypeOK
<1>1. /\ WorkerRests /\ UNCHANGED <<stop, signal, wpc, failed, mpc>>
      /\ mpc = "serving" => due > 0 /\ due' = due - 1
      /\ nap' = IF wpc = "sleep" THEN nap - 1 ELSE nap
      /\ gap' = IF gap < GapCap /\ wpc \notin {"run", "exited"} THEN gap + 1 ELSE gap
      /\ idle' = IF idle < GapCap /\ wpc \notin {"run", "exited"} THEN idle + 1
                 ELSE idle
  BY DEF Tick, LoopTick, MainRests, Joins
<1>2. idle' <= gap' \/ wpc' = "exited"
  BY <1>0, <1>1 DEF SoonInv
<1>3. wpc \in {"run", "exited", "wait", "sleep"} /\ (wpc = "wait" => ~signal)
      /\ (wpc = "sleep" /\ ~stop => nap > 0)
  BY <1>1 DEF WorkerRests
<1>4. ASSUME mpc = "serving", wpc = "sleep"
      PROVE  idle' + nap' <= Ticks(BackoffCap)
  BY <1>0, <1>1, <1>3, <1>4 DEF SoonInv
<1>5. ASSUME mpc = "serving", wpc = "wait"
      PROVE  idle' + due' <= Grace + Poll + LongestBackoff
  <2> DEFINE bound == Grace + Poll + LongestBackoff
  <2>1. idle + due <= bound
    BY <1>3, <1>5 DEF SoonInv
  <2>2. idle' + due' <= idle + due
    BY <1>0, <1>1, <1>5
  <2>3. LongestBackoff \in Nat
    BY <1>0 DEF LongestBackoff
  <2>4. bound \in Int /\ idle + due \in Int /\ idle' + due' \in Int
    BY <1>0, <1>1, <1>5, <2>3
  <2> HIDE DEF bound
  <2>5. idle' + due' <= bound
    BY <2>1, <2>2, <2>4
  <2> QED
    BY <2>5 DEF bound
<1>6. LongestBackoff' = LongestBackoff
  BY <1>1 DEF LongestBackoff
<1> QED
  BY <1>0, <1>1, <1>2, <1>3, <1>4, <1>5, <1>6 DEF SoonInv

LEMMA NextSoon ==
    ASSUME ProcessTypeOK, SoonInv, [Next]_vars
    PROVE  SoonInv'
<1>1. CASE Work
  BY <1>1, WorkSoon
<1>2. CASE Tick
  BY <1>2, TickSoon
<1>3. CASE SetStop \/ Shutdown
  <2>1. mpc' # "serving" /\ UNCHANGED <<idle, gap, wpc>> /\ (stop => stop')
    BY <1>3 DEF SetStop, Shutdown, WakeWorker, TellDrain, JoinAll, Join, CloseRelay,
                RelayEnded, RelayLate, MainGoes, loopVars
  <2> QED
    BY <2>1 DEF SoonInv
<1>4. CASE Serve
  BY <1>4 DEF Serve, Fire, mainVars, SoonInv, LongestBackoff
<1>5. CASE ThreadEnds \/ Warn \/ RelayStep \/ UNCHANGED vars
  BY <1>5 DEF ThreadEnds, Warn, RelayStep, vars, mainVars, loopVars, SoonInv,
              LongestBackoff
<1> QED
  BY <1>1, <1>2, <1>3, <1>4, <1>5 DEF Next

(* For any intervals, the time without a cycle is bounded, though signals  *)
(* are dropped by the min gap, by clear() and by a backoff.                *)
THEOREM CyclesComeInTime == Spec => CyclesKeepComing
<1>1. ASSUME ProcessTypeOK, SoonInv, mpc = "serving", Tick
      PROVE  \/ wpc = "run"
             \/ idle < Grace + Poll + (IF failed THEN Ticks(BackoffCap) ELSE 0)
  <2> USE LoopAssumption, TicksBounded
  <2>1. idle \in Nat /\ nap \in Nat /\ due \in Nat /\ failed \in BOOLEAN
    BY <1>1 DEF ProcessTypeOK, LoopTypeOK
  <2>2. WorkerRests /\ due > 0 /\ ~stop /\ wpc # "exited"
    BY <1>1 DEF Tick, LoopTick, MainRests, Joins, SoonInv
  <2>3. CASE wpc = "wait" /\ ~signal
    BY <1>1, <2>1, <2>2, <2>3 DEF SoonInv, LongestBackoff
  <2>4. CASE wpc = "sleep"
    BY <1>1, <2>1, <2>2, <2>4 DEF SoonInv, WorkerRests
  <2> QED
    BY <2>2, <2>3, <2>4 DEF WorkerRests
<1>2. ProcessTypeOK /\ SoonInv /\ [Next]_vars =>
        (mpc = "serving" /\ Tick =>
            \/ wpc = "run"
            \/ idle < Grace + Poll + (IF failed THEN Ticks(BackoffCap) ELSE 0))
  BY <1>1
<1> QED
  BY InitSoon, NextSoon, ProcessTypeCorrect, <1>2, PTL DEF Spec, CyclesKeepComing
=============================================================================
