-------------------------------- MODULE Relay --------------------------------
(***************************************************************************)
(* remote_log.py and feishu_relay.py: warnings go as lines through a pipe  *)
(* to a subprocess whose reader thread queues them and whose main thread   *)
(* collects for RelayTick and posts what it has. A record is its number;   *)
(* its text, the size cap and what a webhook answers are left out.         *)
(***************************************************************************)
EXTENDS Naturals, Sequences

CONSTANTS
    RelayTick,   \* GMX_REMOTE_LOG_INTERVAL, in ticks
    PostTime,    \* the longest a round of POSTs takes, in ticks
    Records      \* warnings in a run (a bound)

ASSUME RelayAssumption ==
    RelayTick \in Nat /\ PostTime \in Nat /\ Records \in Nat

VARIABLES
    said,     \* history: records emitted so far
    open,     \* is the relay's stdin open on our side?
    pipe,     \* lines written and not yet read
    eof,      \* the reader has seen the end of stdin
    q,        \* the relay's queue
    rpc,      \* what its main thread does
    left,     \* ticks until the deadline, or until the POST times out
    batch,    \* records of this round
    tried     \* history: records handed to requests.post, in order

relayVars == <<said, open, pipe, eof, q, rpc, left, batch, tried>>

Record == 1..Records

RelayTypeOK ==
    /\ said \in 0..Records /\ open \in BOOLEAN /\ eof \in BOOLEAN
    /\ rpc \in {"collect", "post", "exited", "killed"}
    /\ left \in 0..RelayTick + PostTime
    /\ {pipe, q, batch, tried} \subseteq Seq(Record)

RelayInit ==
    /\ said = 0 /\ open = TRUE /\ eof = FALSE
    /\ rpc = "collect" /\ left = RelayTick
    /\ pipe = <<>> /\ q = <<>> /\ batch = <<>> /\ tried = <<>>

Running == rpc \in {"collect", "post"}

(* FeishuHandler.emit, on any thread of ours; a line for a relay that is   *)
(* gone, or after stop(), is dropped and not counted.                      *)
Emit ==
    /\ open /\ Running /\ said < Records
    /\ said' = said + 1 /\ pipe' = Append(pipe, said + 1)
    /\ UNCHANGED <<open, eof, q, rpc, left, batch, tried>>

(* The reader: one line, or the end of the file.                           *)
ReadLine ==
    /\ Running /\ pipe # <<>>
    /\ pipe' = Tail(pipe) /\ q' = Append(q, Head(pipe))
    /\ UNCHANGED <<said, open, eof, rpc, left, batch, tried>>

ReadEof ==
    /\ Running /\ pipe = <<>> /\ ~open /\ ~eof
    /\ eof' = TRUE
    /\ UNCHANGED <<said, open, pipe, q, rpc, left, batch, tried>>

(* q.get(timeout=wait).                                                    *)
Collect ==
    /\ rpc = "collect" /\ q # <<>>
    /\ q' = Tail(q) /\ batch' = Append(batch, Head(q))
    /\ UNCHANGED <<said, open, pipe, eof, rpc, left, tried>>

(* The deadline has passed. With nothing collected nothing is posted.      *)
StartPost ==
    /\ rpc = "collect" /\ left = 0
    /\ rpc' = "post" /\ left' = IF batch = <<>> THEN 0 ELSE PostTime
    /\ tried' = tried \o batch
    /\ UNCHANGED <<said, open, pipe, eof, q, batch>>

(* Mutants: the records are not forgotten; the end of stdin is enough.     *)
EndPostKeeps ==
    /\ rpc = "post"
    /\ IF eof /\ q = <<>> THEN rpc' = "exited" /\ left' = 0
                          ELSE rpc' = "collect" /\ left' = RelayTick
    /\ UNCHANGED <<said, open, pipe, eof, q, batch, tried>>

EndPostAtEof ==
    /\ rpc = "post"
    /\ batch' = <<>>
    /\ IF eof THEN rpc' = "exited" /\ left' = 0
              ELSE rpc' = "collect" /\ left' = RelayTick
    /\ UNCHANGED <<said, open, pipe, eof, q, tried>>

(* The POSTs have returned or timed out; only now is eof looked at.        *)
EndPost ==
    /\ rpc = "post"
    /\ batch' = <<>>
    /\ IF eof /\ q = <<>> THEN rpc' = "exited" /\ left' = 0
                          ELSE rpc' = "collect" /\ left' = RelayTick
    /\ UNCHANGED <<said, open, pipe, eof, q, tried>>

RelaySteps == ReadLine \/ ReadEof \/ Collect \/ StartPost \/ EndPost

(* stop(): close stdin; when the wait for the relay times out, kill it,    *)
(* and with it goes what it holds.                                         *)
CloseStdin ==
    /\ open' = FALSE
    /\ UNCHANGED <<said, pipe, eof, q, rpc, left, batch, tried>>

KillRelay ==
    /\ rpc' = "killed"
    /\ pipe' = <<>> /\ q' = <<>> /\ batch' = <<>>
    /\ UNCHANGED <<said, open, eof, left, tried>>

(* Nothing to read or to collect, and the deadline is ahead.               *)
RelayRests ==
    ~Running \/ /\ pipe = <<>> /\ (open \/ eof) /\ left > 0
                /\ q = <<>> \/ rpc = "post"

RelayClock ==
    /\ RelayRests
    /\ left' = IF Running THEN left - 1 ELSE left
    /\ UNCHANGED <<said, open, pipe, eof, q, rpc, batch, tried>>
=============================================================================
