# file_executor in TLA+

`src/file_executor` keeps a stock account at the positions that batch files ask
for. A publisher pushes `<batch_id>.json` files to a git repository; a connector
mirrors them into `pending/`; a worker runs a *cycle* every poll: it compares what
the broker holds with what the one active batch wants, orders the difference, and
retires batches that match or expire. This directory models that program, checks it
with TLC on small instances and proves what matters most with TLAPS.

Contents: [inventory](#inventory) · [how the parts interact](#how-the-parts-interact) ·
[hard behaviours](#hard-behaviours) · [modules](#modules) ·
[model and code](#model-and-code) · [faults](#faults) · [runs](#runs) ·
[findings](#findings) · [seen on the way](#seen-on-the-way) · [proofs](#proofs) ·
[limits](#limits) · [not modelled](#not-modelled)

## Inventory

| component | state it keeps | operations | what makes it correct | here |
| --- | --- | --- | --- | --- |
| Reconciliation cycle (`cycle.py`, `models.py`) | none between runs; in a run the snapshot, the parsed batches | `run_cycle`, `_pass_one`, `_has_overlap`, `_reconcile`, `_cap_sell`, `_submit`, `_matched`, `_cancel_alive` | nothing is ordered twice; only the active batch trades; a finished batch holds its targets and has no live order; an expired one was cancelled; every batch closes | `Cycle`, `Windows`, `CycleProperties` |
| Order record and `clord_index` (`order_log.py`) | the four batch directories, the records, the index | sessions, `replay_record`, `move_pair`, `move_invalid`, `rebuild_clord_index` | every recorded order is indexed under its batch, after a restart too, if the records can be read; a record lies beside its batch | `OrderLog`, `EventDrain` |
| Trade channel guard (`callbacks.py`, `state.py`) | `trade_channel_up`, `trade_channel_up_at` | four connection callbacks | no cycle acts on the empty answers of a broken link | `Channel` |
| Connector (`connector.py`) | the git clone | `start`, `_import_pass`, `_sync_repo`, `_peek_batch`, `_is_terminal`, `_atomic_copy` | `pending/` follows the clone; a bad file harms no other; a push arrives; a closed batch never comes back | `Connector`; `MirrorFile` in `Cycle` |
| Batch schema (`schema.py`) | none | `parse_and_validate`, `_parse_order` | nothing malformed trades | `Schema` |
| Event callbacks and drain (`callbacks.py`) | `_event_queue` | `on_order_status`, `on_execution_report`, `_drain_loop`, `_process_drained`, `stop` | an event of an own order reaches the right record, once, in order | `EventDrain` |
| Cycle worker and timer (`worker.py`) | `cycle_pending`, `stop_event`, the failure count | `on_timer`, `cycle_worker` | ticks become cycles; failures back off; stop is noticed | `WorkerLoop` |
| Start-up and shutdown (`main.py`) | thread list | `init`, `_shutdown` | what is needed is ready before it is read; the wake-up is not lost; shutdown ends | `Process`, partly; `Restart` of `Cycle`, `InitProcess` of `EventDrain`, `EndPass` of `Connector` |
| Close report (`report.py`, `notify.py`) | none | `build`, `_reason`, `emit_and_notify` | what it says of a symbol is true when it is sent, though its snapshot is a cycle old | `Report` |
| Remote log relay (`remote_log.py`, `feishu_relay.py`) | pipe, queue | `emit`, reader, collecting and posting loop, `stop` | a warning is posted once, in order, and at shutdown too | `Relay` |
| Broker SDK (`gm.api`, not in the repository) | positions, orders | queries, `order_volume`, `order_cancel` | – | `Broker`, external |
| Local log, benchmark, deployment | files, timings | – | – | not modelled: no state another part reads |

## How the parts interact

* **Lock.** `batch_state_lock` serialises the worker (a whole cycle), the connector
  (one file) and the drain (one pass). The connection callbacks do not take it.
* **Calls.** Only the worker calls the broker. The broker changes at any time:
  fills, rejections and the link are concurrent with everything, the lock included.
* **Files.** The connector writes only `pending/<id>.json`. The worker moves
  documents and records between directories and appends to records through one
  buffered session per cycle.
* **Memory.** The index is written by the worker; it is lost in a crash and rebuilt
  from the submit lines on disk. The channel flag and its stamp are written by the
  SDK's threads and read without a lock.
* **Signals.** The SDK's timer sets `cycle_pending`, the worker waits for it and
  clears it after the cycle; `_shutdown` sets `stop_event` and the same signal.
  Warnings of every thread go through a pipe into the relay's process.

## Hard behaviours

Two queries make one snapshot, and a fill may fall between them. The snapshot is as
old as the cycle when the last order is judged by it, and when the report is made.
The channel may drop after the flag was read, and an empty answer looks like an empty
account. `order_volume` may place an order and not say so. Submit lines sit in a
buffer until the session closes. `move_pair` moves two files. An edit may arrive
between any two cycles, and a file may name another file's batch. A human trades on
the same account. Signals are dropped by `clear()`, by the min gap and by a backoff.
Every wait of the shutdown has a timeout, and none says whether it was met.
`PROJECT.json` lists each of these as a hazard at its line, with the properties that
would show it going wrong.

## Modules

```
Domain ── Broker ──┐
      ├── OrderLog ├── Cycle ── Report ── CycleProperties ── MCCycle
      ├── Channel ─┤                            │
      Windows ─────┘            BatchLifecycle ─┤ (refined by Cycle)
      └── WindowsProofs                         │
             CycleProofs ── LifecycleProofs ── RecordProofs ── ReportProofs

EventDrain ── EventDrainProperties ── MCEventDrain, EventDrainProofs

Schema ── Connector ── ConnectorProperties ── MCConnector, ConnectorProofs

WorkerLoop ──┐
Relay ───────┴── Process ── ProcessProperties ── MCProcess, ProcessProofs
```

| module | what it holds |
| --- | --- |
| `Domain` | constants, the shape of a document, the faults, and the assumptions on them |
| `Broker` | `held` and `book`; placing, cancelling, filling, ending an order, and a manual order |
| `OrderLog` | where documents and records lie, lines on disk, the open session's buffer, the index |
| `Channel` | the link, what the callbacks have told the program, the flag and the age of its stamp |
| `Windows` | the overlap check, as the code runs it and as the cycle needs it |
| `Cycle` | the composition: the worker's steps, the connector's mirror, broker, channel, clock, crash |
| `Report` | the close report as operators on the state of `Cycle` at the moment it is sent |
| `BatchLifecycle` | what the executor promises about batches and open orders, without cycles or files |
| `CycleProperties` | the properties, the fairness, the refinement mapping |
| `MCCycle` | documents for TLC |
| `EventDrain` | the event queue, the drain loop, the records as sequences of lines, and as much of the worker as the drain can see |
| `EventDrainProperties`, `MCEventDrain` | its properties and fairness; symmetry for TLC |
| `Schema` | which JSON values `parse_and_validate` accepts, and which the connector can peek at |
| `Connector` | publisher, clone, passes file by file, `pending/`, a cycle in one step, clock, crash |
| `ConnectorProperties`, `MCConnector` | its properties and fairness; a repository for TLC |
| `WorkerLoop` | timer, signal, min gap, backoff, the loop of `cycle_worker` |
| `Relay` | the handler, the pipe, the reader, the loop that collects and posts, the kill |
| `Process` | the two composed under one clock with `main`'s shutdown |
| `ProcessProperties`, `MCProcess` | their properties and fairness; the instance for TLC |
| the `...Proofs` | theorems |

## Model and code

**The worker in a cycle** is the program counter `pc` of `Cycle`. One step is one
stretch of `run_cycle` between two points where another actor's step can matter:

| `pc` | next in the code | actions |
| --- | --- | --- |
| `idle` | the guards, `cycle.py:65-82` | `PassGuards` |
| `guarded` | lock, clock, `get_position` | `ReadPositions`, `QueryRaises` |
| `unfinished` | `get_unfinished_orders`, glob of `pending/` | `ReadUnfinished`, `QueryRaises` |
| `pass_one` | one file after the other in sorted order | `PassOneInvalid`, `PassOneExpired`, `PassOneKeep`, then `StopAfterPassOne` or `StartReconcile` |
| `cancel_log` | the cancel lines of an expired batch | `LogCancels`, `DiskRaises` |
| `move_doc`, `move_record` | the report, then `move_pair`, one file each | `MoveDocument`, `MoveRecord`, `DiskRaises` |
| `reconcile` | one order of the batch after the other | `LeaveOrder`, `CapToNothing`, `SubmitOrder`, `SubmitUnanswered`, `AppendRaises`, `SpillBuffer`, `CloseSession`, `DiskRaises` |
| `matched` | `_matched` | `NotMatched`, `FinishBatch` |
| `down` | after a crash | `Restart` |

`batch_state_lock` has no variable of its own: it is free exactly where `pc` is in
`LockFree`, and the connector's `MirrorFile` is enabled only there. `EndCycle` is the
`finally` block. An exception that leaves `run_cycle` ends the cycle the same way;
what the code catches inside (`order_cancel`, one order of `_reconcile`, the parse of
one file, a read of the record) continues as in the code.

**The close report** reads the snapshot, the record and the document and writes
nothing, and `emit_and_notify` swallows what it raises. So `Report` has no variables:
`Reporting` is `pc = "move_doc"`, where the report is sent, and `Reason(s, avail)`
is `_reason` in that state. A row's `available` is any number up to its volume, as
for the cap.

**The drain** (`EventDrain`) is the loop of `_drain_loop` by its `dpc`: `get` blocks for
one event (`GetEvent`), `collect` takes the rest without waiting (`Collect`, one
`get_nowait` per step, so that the SDK may put in between), `wait` takes the lock
(`TakeLock`), `resolve` moves one event after the other to its group in `byBatch`, the
code's `by_batch`, or drops it as foreign (`ResolveEvent`), `write` and `close` are one
`drain_session` per batch (`NoRecord`, `WriteGroup`, `CloseGroup`, `GroupRaises`), in any
order of the batches, then `EndPass`. `down` and `unstarted` are the process without a
drain; `Connect` and `InitProcess` are `gm.run` and `init`, in that order, with the
broker's replay in between. An event is its order and its number in the order's life; a line is the same, and the submit line has number 0. The
records are sequences here, because their order is the point, and each directory has its
own, because a record in two places is what could go wrong. The worker of this module is
the part of `run_cycle` that the drain can see: the lock, `order_volume`, the index, the
submit line, `move_pair`. Its cancel and cap lines are left out.

**The connector** (`Connector`) is a loop `pull` – `scan` – `rest` by its `cpc`. `Pull` and
`PullFails` are `_sync_repo` with the glob and the clock of the pass that follows; one
`MirrorOne` or `CopyFails` is one file under the lock; `EndPass` ends a pass, and the
first one, inside `init()`, sets the timer (`serving`). A file's content is a parsed JSON
value: its kind and its value, an object being a function on its keys. That is enough to
tell what `_peek_batch` reads from what `parse_and_validate` demands, which is where the
two differ. A cycle is one step, `RunCycle`, because the lock makes it one for the
connector; it applies the schema, expiry, overlap and the window and remembers in `traded`
by which contents it traded. What it does with the broker is the business of `Cycle`,
which in turn has `_import_pass` for one file, between any two steps of its worker that
hold no lock.

**Worker, relay and shutdown** (`Process`) share one clock of ticks. A step of a thread
that does not wait takes no time, and time passes (`Tick`) when every thread waits for
something or a cycle runs. `wpc` follows `cycle_worker`: `check`, `wait`, `look` (the
second test of `stop_event`), `guard` (the min gap of `run_cycle`), `run`, `sleep` (the
backoff), `clear`. `gap` is the age of `last_cycle_end_at`; because a cycle ends between
two ticks, a gap of just `Grace` ticks may be a little less than `Grace` or not, and both
`SkipCycle` and `BeginCycle` are enabled there. `mpc` is the main thread, from `serving`
through the joins, in the order of `state.worker_threads`, to `gone`. The drain and the
connector are threads that end after the stop or do not. `rpc` is the relay's main thread,
its reader a step of its own; a warning is its number.

**Data.** A batch id in `Cycle` is a number, so that `sorted(glob)` has an order. A
document is its window, whether `parse_and_validate` accepts it, its symbols and its
targets. Of a record line only the kind and the order or symbol is kept. Prices, order
types and sides' constants decide nothing in the cycle and are left out. The cap's
`available` is any number up to the snapshot's volume, chosen when it is used instead of
in the snapshot, because it is used nowhere else before the report. The orders of a
document are visited in any order, a superset of the list order in the file.

**Time** in `Cycle` and `Connector` is a tick count that stops at `MaxTime`, after every
window, and then stands for every later moment. Each stamp that is compared with
`CYCLE_GRACE_SECONDS` is an age that stops at its bound. `0.0`, "no event yet", is an age
at its bound: both let the cycle run.

**History.** `owner`, `tgt`, `asked` and the status of an order in `book`, `missed` and
`traded` in `Connector`, `idle`, `failed`, `said` and `tried` in `Process` are the model's
own memory, and no guard of the program reads them.

## Faults

What the environment may do wrong is a constant, so that a property says under which
faults it holds. A name that is in `Faults` allows, and does not force:

| fault | allows |
| --- | --- |
| `torn` | an order to fill or end between the two queries |
| `drop` | the link to go down while no query is under way, its callbacks being prompt |
| `late` | the worker to look at the channel between the two statements of `on_trade_data_connected` |
| `gap` | the link to go down at any time and its callbacks to come late |
| `manual` | a human to place orders of one share |
| `ack` | `order_volume` to raise or to return nothing, the order placed or not |
| `cancel`, `query` | `order_cancel`, and a query, to raise |
| `disk` | opening, closing, reading or moving a file to fail; reading a record at a restart too, from its start or half way, which `_scan_submits` swallows |
| `crash` | the process to die at any step and to start again |
| `pull`, `copy` (`Connector`) | git, or `_atomic_copy`, to fail |
| `stop` (`EventDrain`) | `_shutdown` to be called |

Fills (partial ones too), rejections, cancellations and edits by the publisher happen
in every run and need no name. In `Process` a cycle takes any time and raises or
returns, a thread ends or hangs, and POSTs take up to `PostTime`, in every run.

`torn`, `late` and `gap` are named because the code does not survive them: the runs `torn`
and `gap` show it, and the properties about double submission are checked, and proved,
without them. `late` is the smallest part of `gap`, one moment: with
`Faults = {"late", "drop"}` in `gap.cfg` TLC finds that moment, the flag of
`callbacks.py:300` set and the stamp of the next line still old. In `cycle_live` it is
among what the batches survive. `NeverPastTarget` excludes `manual` too: an order cannot know
that a human will buy the same share a moment later.

## Runs

| run | instance | question | states |
| --- | --- | --- | --- |
| `cycle_core` | 1 symbol, 2 orders, `KillDocs`, crash ack disk query cancel | is nothing ordered twice, whatever fails? | 2.1 M |
| `cycle_pair` | 2 symbols, 3 orders, `PairDocs`, ack disk | does a failure on one symbol leave the other alone, and does a batch finish only when both are held? Does the cycle implement `BatchLifecycle`? | 1.3 M |
| `cycle_tidy` | 1 symbol, 2 orders, `EditDocs`, torn manual drop | do book, records, cancels and reports stay right among foreign orders and edits? | 1.6 M |
| `cycle_live` | 1 symbol, 1 order, `ClashDocs`, drop late ack cancel crash | does every batch close, and does the index know every order on record after every crash? | 191 k |
| `drain_core` | 2 batches, 2 orders of 1 event, 1 replay or restart, all faults of `EventDrain` | do lines go to the one right record and stay there, and does a group that cannot be written leave the others alone? | 1.5 M |
| `drain_live` | 2 batches, 1 order of 2 events, ack crash stop | does the record tell the story in order, without a gap and to the end, the last pass included, is nothing recorded dropped, and does the sentinel get through? | 71 k |
| `connector` | 3 files (one unreadable, or another batch's), 2 edits, pull copy crash | does `pending/` follow the clone, does a push arrive, does nothing malformed trade? | 63 k |
| `process` | ticks of 3 s, poll, gap and relay interval of 2 ticks, 2 warnings, waits of 4 | do signals become cycles, does the shutdown end without waiting in vain, is every warning posted once? | 297 k |
| `torn`, `gap`, `last_words`, `backoff` | one fault each; the last two with the default intervals in ticks of 5 s | see findings | – |

The properties of the cycle, stated in `CycleProperties`:

* **`NeverPastTarget`** – a live order may fill completely and the holding still does
  not pass the target. Two submissions for one difference break it.
* **`OneOrderPerSymbol`** – at most one own order is live per symbol, across batches,
  crashes and orders nobody has an id for.
* **`PositionIsCurrent`, `BookIsCurrent`** – why that works: the snapshot is old when
  it is used, but where it shows no order on a symbol nothing has moved since.
* **`FinishMeansHeld`, `FinishedIsSettled`** – at the moment a batch moves to
  `finished/` its targets are held, and none of its orders is on the book.
* **`ExpiredWasCancelled`, `CancelsOnlyExpired`** – expiry asks to cancel each order of the
  batch that it leaves behind and that has a submit line, and no other order is ever
  cancelled. `cycle_tidy` checks the former without crashes, the theorem has them. An order without a line, after a lost answer or a crash before
  the flush, is foreign to the program.
* **`SubmitOnlyInWindow`** – only the one pending batch whose window holds the
  cycle's clock trades, and on no overlap.
* **`RecordedIsIndexed`, `RecordBesideBatch`** – the index agrees with the records
  whenever the program runs; a record lies beside its batch. The first is not true where
  `disk` and `crash` come together: a record that cannot be read while the index is rebuilt
  is logged and left out, and expiry will not find its orders (`order_log.py:236`).
  `cycle_live` has every crash, `cycle_core` crashes and every disk error; what is checked
  there holds with an index that is too small.
* **`ForeignIsForeign`, `ResidualIsTerminal`, `SilentIsSettled`** – what the close
  report says is true when it is sent: "foreign" is never the batch's own order, a
  row that blames nothing has no live order of the program, and a close that raises
  no warning leaves no order of the batch live.
* **`PendingEventuallyCloses`** – liveness: a cycle that never came to its end would
  break it too.
* **`ImplementsLifecycle`** – refinement of `BatchLifecycle`, with `phase <- at` and
  `open` the symbols on which the broker has an order of the batch.

Of the drain, stated in `EventDrainProperties`:

* **`RecordIsFaithful`** – in a record each order begins with its submit line and goes
  on with its events in the order they were sent, without a gap, a replay starting
  again from the first. `RetoldOnlyByReplay` ties the latter to replays: the first event is
  in the record no more often than the broker has sent it. It is `FLOW.md`'s "no event for our own orders is ever lost".
* **`NothingIsMissing`** – the other half of it: when the drain has nothing left to do,
  the record of an order ends with the last event the broker has sent.
* **`RecordsOnlyGrow`** – what is on disk is never written over or lost, also where a
  record is moved or opened again for a late event.
* **`LastPassIsWritten`** – the pass in which the sentinel is found is written before the
  loop ends: then only events behind the sentinel are missing.
* **`GroupsStandAlone`** – a write that raises takes no other batch's group with it.
* **`OneRecordPerBatch`, `LinesAreAtHome`** – a batch has one record, and lines are in
  the record of the batch their order was placed for.
* **`DroppedIsUnrecorded`** – what is dropped as foreign, or for want of a record,
  belongs to an order no record knows, after a restart too, if the records could be read
  there: it is checked in `drain_live`, without `disk`.
* **`RecordCatchesUp`, `StopEndsDrain`** – liveness.

Of the connector, stated in `ConnectorProperties`:

* **`MirrorIsCurrent`** – whenever cycles run, `pending/` holds what the clone says of
  each batch, as far as the pass has got. The first cycle after a restart is the hard
  case: the pass of `init()` must be over before it.
* **`TradesWellFormed`** – the connector lets through what it can peek at; no cycle
  trades by a file that orders a symbol twice or has no window.
* **`PushedArrives`** – a valid version that is pushed and left alone reaches
  `pending/`, or finds its batch closed or itself expired, whatever other files there
  are and however often pulls and copies fail. Liveness.

And of the process, stated in `ProcessProperties`:

* **`CyclesKeepComing`** – signals are dropped in three ways, yet the time without a
  cycle is bounded by min gap, poll and, after a failure, the longest backoff.
* **`JoinWaitsForACycle`, `StopIsFinal`** – `_shutdown`'s wake-up is the same signal as
  the timer's and may be cleared by the loop; no join waits for a worker that sleeps,
  and the wake-up is never taken for a tick.
* **`ShutdownEnds`** – liveness, whatever hangs.
* **`OnceInOrder`, `LastWords`** – a warning is posted at most once and in order, and
  at the end every one has been posted, if the wait is long enough for the interval.

**Bounds.** Two batches are the fewest that can overlap, follow each other on a
symbol, or be mistaken for one another; `KillDocs` and `PairDocs` make the second sell
what the first bought. Two targets' worth of shares make partial fills different from
full ones and caps different from nothing. `OrdId` bounds the orders ever placed: two
are enough for every double submission, three for buying two symbols and selling one.
`MaxTime` is the first moment after every window. `Grace = Settle = 1` makes the guard
exactly as long as the settling it is for; with `Settle` above `Grace` the assumption
of the guard itself is false, which `GraceAssumption` excludes. Order ids are
symmetric in the runs without liveness properties. In `drain_core` one event per order is
enough, since what is mixed up is whose event it is; `drain_live` has the two events that
a gap or a swap needs. `MaxEpoch = 1` allows one replay or one restart. `Edits = 2` allows
a push and its kill, or two files that come to name one batch; the third file comes first
in the listing, so that a pass that stopped at it would reach no other. In `process` two
warnings are the fewest that can be swapped, and `Poll = Grace` is the ratio of the
defaults, at which the min gap bites. `Poll`, `Grace` and the relay's interval are the
code's times only in `last_words` and `backoff`; in `process` `StopWait` is just
`RelayTick + 2 * PostTime`, the least that `PatienceSuffices` demands, so that the wait may
time out and kill the relay at the last moment; with one tick less TLC finds `LastWords`
violated.

**Deadlock** is checked in every run of `Cycle` and in `connector`. In `EventDrain` the
broker runs out of events and every batch may be closed: then the drain blocks in `get`
for good, as it should. `Process` ends when the process is gone. There deadlock is not
checked. When time has stopped the clock's step still is a stutter, so a blocked worker
would not show as a deadlock: that is what
`PendingEventuallyCloses` is for. The lock has no variable in `Cycle`, so that a cycle
which ended without giving it back cannot be expressed there; in the code it is a `with`.

**Fairness.** For the cycle `FairSpec` assumes weak fairness of the worker (a thread that
`on_timer` wakes every poll, and that survives exceptions; `CyclesKeepComing` is what
makes that of the timer's signals), of the clock, of the restart (the service manager's),
and of the callbacks that report a change of the link (SDK). Nothing is assumed of the
broker, the publisher, or of the link except where the property says so:
`PendingEventuallyCloses` has as its hypothesis that link and process stay up from some
moment on. The worker's fairness is for
the thread, not per action: which of its alternatives happens, an exception or a success,
is never forced.

For the drain `EventDrainProperties!FairSpec` assumes that both threads are scheduled
while they have something to do, and strong fairness of taking the lock: the worker
rests for `CYCLE_GRACE_SECONDS` after each cycle, so a thread that waits for the lock
finds it free again and again, and long enough (`state.last_cycle_end_at`'s comment
gives that as the gap's purpose).

For the connector its thread and the restart are weakly fair. Strong fairness of `Pull`
and of `MirrorOne` for each file says that git and the disk do not fail for ever:
`PushedArrives` cannot hold without it, and the code retries both on every pass. The
process has weak fairness of the main thread's shutdown, the timer, the clock, the relay
and the worker outside a cycle. Nothing is assumed of a running cycle, of the drain and of
the connector's thread: `ShutdownEnds` holds though they hang.

## Findings

Each is a run that TLC refutes, and a line of the repository that says otherwise.

1. **`torn`** – `_broker_snapshot` asks for positions first and unfinished orders
   second. An order that fills in between is in neither, and its volume is ordered
   again (`docs/SCHEMA.md:3`: a target, not a delta). With the queries the other way
   round the fill would be seen twice, as an order to wait for and as a holding, and
   the cycle would just wait.
2. **`gap`** – the channel guard is a check before the act. A link that drops after
   it, late callbacks (between `callbacks.py:300` and `301` the flag is up and the stamp is
   old), `State_LOGGEDIN` setting the flag without the stamp, and the
   optimistic flag after a restart all let a cycle reconcile against an empty answer
   (`GM_SDK.md:162`).
3. **`last_words`** – `remote_log.stop()` waits 10 seconds for a relay that collects for
   `GMX_REMOTE_LOG_INTERVAL`, 30 by default, before it looks at EOF: it is killed with the
   warnings of its last tick (`feishu_relay.py:4`: "EOF (parent closed stdin) ⇒ final
   flush + exit"). `PatienceSuffices` gives the wait that is long enough.
4. **`backoff`** – after a cycle that raised, the next signal falls into the min gap,
   `run_cycle` returns at once, and that return resets `consecutive_failures`: with the
   default intervals the pause never grows past two seconds (`worker.py:4`: "exponential
   backoff capped at 60 s on repeated failures").

## Seen on the way

Smaller disagreements between the code and its documentation, or surprises of it, that
the modelling met and that have no run:

* A failing `order_cancel` is logged, the batch is moved to `expired/` all the same, and
  nothing tries again (`cycle.py:339`; `docs/ORDER_RECORD.md:14`: "cancelled before the
  move"). That is why `ExpiredWasCancelled` is checked and proved without `cancel`.
* An edit that damages a trading batch moves it to `failed/` with orders live and a record
  left in `pending/` (`order_log.py:201`: "No record exists yet"). `RecordBesideBatch`
  therefore says nothing of `failed/`.
* An edit that sets `expires_at` at or below `valid_at`, which is how a batch that has not
  begun would be killed, is refused as malformed: the old version stays and will trade
  (`connector.py:128`). `MirrorIsCurrent` excludes refused edits.
* An edit that drops a symbol lets the batch finish with an order live on that symbol.
  The proofs about finishing state the contract against it as `SteadyDocs`.
* With `GMX_POLL_SECONDS = GMX_CYCLE_GRACE_SECONDS` about every second fire is skipped
  (`docs/FLOW.md:3`: "each fire is one cycle"): `SkipCycle`.
* Two files that name one batch overwrite each other in `pending/` on every pass, the last
  in the listing winning: the copy is named by the id, so that the cycle cannot see that
  the file in the repository had another name (`connector.py:133`). `MirrorIsCurrent`
  speaks of batches that one file names.
* `_scan_submits` swallows a read error (`order_log.py:236`): until the next restart the
  orders of that record are foreign to expiry and to the drain.
* The reason `foreign-order` is also given for a live order of another batch of the
  program, left behind by an expiry whose cancel has not taken effect. `ForeignIsForeign`
  says only what is true, that it is not this batch's own.
* `report.py`'s "consecutive batches never share a snapshot" does not hold for batches that
  expire in the same cycle.
* `json.loads` reads `NaN`, and a limit price of `NaN` passes the test `<= 0`
  (`schema.py:117`): `PriceOK`.
* The report goes out before the move, so a move that fails reports the batch again.

## Proofs

All theorems hold for every value of the constants that satisfies the named
assumptions of `Domain`, `EventDrain`, `Connector`, `WorkerLoop`, `Relay` and `Process`;
TLC evaluates those assumptions in every run. Where a theorem needs more, it says so in
its own `ASSUME`.

| theorem | of | under |
| --- | --- | --- |
| `WindowsProofs!AdjacentCheckSuffices`, `AtMostOneActive` | the overlap check | – |
| `CycleProofs!TypeCorrect` | `TypeOK` | all faults |
| `CycleProofs!OneOrderAtATime`, `BookStaysCurrent` | `OneOrderPerSymbol`, `BookIsCurrent` | `LinkBehaves`: no `gap`, `late` |
| `CycleProofs!TargetNotDelta`, `PositionStaysCurrent` | `NeverPastTarget`, `PositionIsCurrent` | `Undisturbed`: no `gap`, `late`, `torn`, `manual` |
| `LifecycleProofs!FinishedStaysSettled`, `FinishesOnHeldPositions` | `FinishedIsSettled`, `FinishMeansHeld` | `Undisturbed`, `SteadyDocs` |
| `LifecycleProofs!CycleImplementsLifecycle` | `ImplementsLifecycle` | `Undisturbed`, `SteadyDocs` |
| `RecordProofs!CancelsOnlyTheExpired` | `CancelsOnlyExpired` | all faults |
| `RecordProofs!RecordedStaysIndexed` | `RecordedIsIndexed` | `WholeIndex`: not `disk` and `crash` together |
| `RecordProofs!ExpiredIsCancelled` | `ExpiredWasCancelled` | `Obeyed`: `WholeIndex`, no `gap`, `late`, `cancel` |
| `RecordProofs!SubmitsInWindow` | `SubmitOnlyInWindow` | no `disk` |
| `ReportProofs!RecordStaysBeside`, `ForeignIsNotOwn` | `RecordBesideBatch`, `ForeignIsForeign` | `NothingLost`: no `ack`, `disk`, `crash` |
| `ReportProofs!ResidualIsFinal` | `ResidualIsTerminal` | `LinkBehaves` |
| `ReportProofs!SilenceIsSettled` | `SilentIsSettled` | `Undisturbed`, `SteadyDocs` |
| `EventDrainProofs!DrainTypeCorrect` | `DrainTypeOK` | all faults |
| `EventDrainProofs!OneRecord`, `AtHome`, `RecordsGrow` | `OneRecordPerBatch`, `LinesAreAtHome`, `RecordsOnlyGrow` | all faults |
| `EventDrainProofs!GroupsKeepApart`, `SentinelStays` | `GroupsStandAlone`, `SentinelIsKept` (no run of its own) | all faults |
| `EventDrainProofs!DropsNothingRecorded` | `DroppedIsUnrecorded` | no `disk` |
| `EventDrainProofs!FaithfulRecord`, `RestIsComplete`, `LastPassIsComplete` | `RecordIsFaithful`, `NothingIsMissing`, `LastPassIsWritten` | no `disk` |
| `ConnectorProofs!ConnectorTypeCorrect`, `MirrorStaysCurrent`, `OnlyWellFormedTrades` | `ConnectorTypeOK`, `MirrorIsCurrent`, `TradesWellFormed` | all faults |
| `ProcessProofs!ProcessTypeCorrect`, `JoinIsNotInVain`, `StopStays`, `PostedOnceInOrder` | `ProcessTypeOK`, `JoinWaitsForACycle`, `StopIsFinal`, `OnceInOrder` | any intervals |
| `ProcessProofs!CyclesComeInTime` | `CyclesKeepComing` | any intervals |
| `ProcessProofs!PatienceSuffices` | `LastWords` | `RelayTick > 0`, `PostTime > 0`, `RelayTick + 2 * PostTime <= StopWait` |

How they go:

* **Windows.** `_has_overlap`'s docstring claims that comparing neighbours is enough; the
  proof takes, for an overlapping pair, the neighbour of the earlier one, which starts no
  later than the other. This is why `Cycle` may speak of sets. `AtMostOneActive` is why
  the code may take `active[0]`.
* **One order, target not delta.** Neither is inductive: a submission is safe because the
  snapshot shows no order on the symbol and none has been placed *since*. `OneOrderInv`
  adds `BookIsCurrent` (an own order on a symbol the worker has not decided yet is in the
  snapshot), that queries answer in full while they are being made, and bookkeeping of
  which symbols are still to be visited. `TargetInv` adds `PositionIsCurrent`: a holding
  can move only through a live order, and where the snapshot shows none, none is live. So
  the difference that is ordered is the difference now, and later fills move quantity
  from `left` to `held` and keep their sum.
* **Finishing and the refinement.** `SettledInv` is `TargetInv` with: the worker handles a
  pending batch until it moves it (`HandlesPending`); a live order carries the target of its
  batch's document (`OrdersAsAsked`, which needs `SteadyDocs`); the position in the snapshot
  is on the near side of the target of every live order, so that one that equals the
  target shows that no order is left (`SnapshotBound`); no finished batch has a live order
  (`NoneLeft`); and where the snapshot shows the target and no order, the target is held
  until the batch is moved (`MatchIsCurrent`). The refinement follows step by step: an
  action of `Cycle` is at most one of `BatchLifecycle`'s.
* **Records.** `RecordInv` says that the submit lines of a record, those in the open
  session's buffer and the entries of the index are of orders placed for that batch, and
  that what has a line is indexed, unless a record could not be read; after a crash the index is
  rebuilt from exactly the lines that are left. `ExpiryInv` adds that until the worker
  trades the snapshot shows every live order of the program, and that from the sweep of
  `_cancel_alive` on, each live order of the expired batch that has a submit line has been
  asked to be cancelled: it is indexed and in the snapshot, so the sweep found it. `WindowInv` says that the pending batches
  are those seen or still to be scanned, that what has been seen is readable and not
  expired, and, while orders are placed, that there is no overlap among them.
* **Reports.** `Logged` says that an order placed for a batch has its submit line on disk
  or in the buffer, `Beside` that a record is beside its batch except between the two moves
  of `move_pair`, `MatchSeen` what `_matched` has seen when it closes. The rest are
  consequences of the cycle's invariants at `pc = "move_doc"`.
* **The drain.** The worker appends in `pending/` without looking, so `EventDrainProofs`
  keeps that a pending batch has no record elsewhere and that the worker's batch is pending
  until it moves it; the drain appends where `locate_record` found one, so it adds none.
  That is also why a move finds no record in its way (`RecordsGrow`). `LockInv` says what is
  empty while nobody is at work on it: a session is open only for the one who holds the lock,
  the groups are empty outside a pass. `HomeInv` follows an order's batch through all the
  places that name it: index, groups, session and records agree with the batch the order was
  placed for, and, where records can be read, a running process knows every order whose
  submit line is written, the buffered ones included, which is what `DropsNothingRecorded`
  needs. A group leaves `byBatch` only whole (`GroupsKeepApart`, from types alone).
* **The records' story.** `RecordIsFaithful` is not inductive: an event that is dropped leaves
  no trace in the record until the next one arrives. `Account(s, o, k0, k)` says that the
  lines of `s` take order `o` from number `k0` to `k`; accounts join and split, and moving the
  first of one sequence to the end of the other keeps them (`AccountMoves`). `FaithInv` says
  that for an order the index knows, record, open session, its batch's group, the pass and the
  queue are one account, up to what the broker sent last (`KnownGoesOn`). An order that is not
  registered yet has no line (`UnknownHasNoLine`), and all its events are still in pass and
  queue, from the first on (`StillAhead`): while the worker is between `order_volume` and the
  index it holds the lock, so nothing is resolved, and before `init` nothing is taken from the
  queue. After a crash only the records' accounts are left; the new process's queue starts from
  1, which follows any of them (`AccountResumes`), and a record that has a line of an order has
  its submit line, by which the index is rebuilt (`OpensWithSubmit`, by the least position). At
  rest every part but the record is empty: `RestIsComplete`; so are they after the last pass,
  but for what came behind the sentinel: `LastPassIsComplete`.
* **The connector.** `MirrorInv` adds to `MirrorIsCurrent` what it needs while no cycle
  runs: it holds in every pass from its first file on, because then nothing has been gone
  over yet, and a cycle only takes batches out of `pending/`. `OnlyWellFormedTrades` needs
  no invariant beyond types: the cycle reads the schema of what it is about to trade.
  `ConnectorTypeCorrect` says more than types, that a batch has bytes exactly if it has been
  seen: every close is of a pending batch.
* **The timer.** `SoonInv` bounds the ticks since the last cycle wherever the worker may
  rest: in a backoff, with those still to sleep, by the longest backoff; where it waits and no
  signal is set, with those until the next fire, by the last moment at which a signal can have
  been dropped, plus a poll. It needs that `Ticks`, seconds rounded up to ticks, is monotonic.
* **Shutdown.** `WokenInv`: after `_shutdown`'s `set()`, a worker that waits finds the signal
  set, because between a `clear()` and the next wait it looks at `stop_event`. `FlowInv`:
  tried, batch, queue and pipe, in this order, are the numbers `1..said`, each once.
  `PatienceInv`: once stdin is closed, the ticks already waited and those the relay can still
  need (`Remaining`, by what it is doing and whether it has seen the end) never exceed one
  collecting and two posting rounds: one that has just missed the last lines, and the one that
  takes them. A relay that is killed after so long has nothing left but POSTs under way.

The assumptions on the faults are the ones that the runs show to be needed (`torn` and
`gap`, of which `late` is a part, refute `NeverPastTarget`), or that [seen on the way](#seen-on-the-way) explains
(`cancel`, `SteadyDocs`, `WholeIndex`); the others mark what the code does not promise:
after a lost answer or a crash before the flush it has no id of the order and cannot cancel
or record it.

Only model-checked: the liveness properties `PendingEventuallyCloses`,
`RecordCatchesUp`, `StopEndsDrain`, `PushedArrives` and `ShutdownEnds` (fairness and
ENABLED are out of the prover's reach). Of the drain's two the safety halves are proved:
`NothingIsMissing` and `SentinelIsKept`. Every other invariant and action
property that a passing run checks has a theorem, but `RetoldOnlyByReplay`, which counts
lines through the queue, the pass and the record and is left to TLC.

## Limits

* One worker, one connector, one process per orders directory, as the documentation
  demands.
* The parts are composed where they decide something for each other. The drain is not
  composed with the full cycle: its lines are read by no decision of a cycle, and it
  changes neither the index nor the directories. The connector meets the whole cycle for
  one file in `Cycle`, and many files with a cycle of one step in `Connector`. `Process`
  has a cycle only as a span of time.
* A file operation either happens or raises. A power cut that loses closed files is
  not modelled.
* Lines reach a record whole. `_Session.append` writes a line in one call, and CPython's
  text and buffered layers hand such writes to the OS undivided, so a process that dies
  leaves whole lines. A full disk, or a power cut, can cut a line in two, and the next line
  is then appended to the rest of it; every reader skips what it cannot parse. That is a
  failing write, `disk`, under which no property says that a line is there.
* After a read error at a restart `Scans` of `OrderLog` takes any part of a record's submit
  lines, more than the code can leave, because the lines are a set in that module;
  `Scans` of `EventDrain` takes a prefix, as the code does.
* In the runs of `Cycle` every version of a document keeps its symbols.
* A symbol that is never tradable, prices and cash are the broker's business: an order
  may always be rejected.
* In `Schema` texts are members of `GoodId` and `GoodSymbol` or not; the two regular
  expressions are not interpreted. Bytes that are not JSON are not a value of `Schema`.
* The relay's pipe never blocks: a write is a step, and so `emit` never waits.

## Not modelled

* `bench.py`, `local_log.py` and `deploy/`: a timing loop, logging set-up and a VM
  provisioning script. They keep no state that another component reads.
* `_format`'s size cap and the retry-free answers of the webhooks in `feishu_relay.py`: they
  change the text of a message, and a failed POST is not tried again.
* In `main.py` and `config.py`: the reading of environment variables, the exit on a
  missing token, `gm.stop()`. In `connector.py`: the clean-up of `GIT_LOCAL_DIR` before a
  first clone, and the redacting of URLs.
* The stuck-order warning of `_handle_unfinished` and other log lines.
