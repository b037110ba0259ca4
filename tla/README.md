# A verification of ironflow-js

This directory is a TLA+ development of the Ironflow JavaScript SDK: models of
the parts of the SDK that keep state across asynchronous steps, TLC
configurations that check them on small instances, and theorems that TLAPS
proves of them for every size. Paths below are relative to the repository.

## 1. The system

Ironflow is an event-driven engine; this repository is its client side. The
packages share types and wire formats (`packages/core`) and otherwise meet only
at the engine. Everything is JavaScript: one callback runs at a time, so all
interleaving happens at an `await`, a timer, a message of another tab, or an
answer of the engine.

| Component | State it keeps | Operations | What is hard | What must hold |
|---|---|---|---|---|
| Offline write queue (`browser/src/queue/*`, used by `browser/src/offline.ts`) | two IndexedDB stores shared by the tabs of an origin; per tab: drain loop, counters, timers, identity; one Web Lock | `enqueue`, drain loop, `flush`, `retry`, `discard`, `start`, `stop`, `watch`, refresh on `BroadcastChannel` | tabs drain one store; crash after a send; stale counters; a login prompt that times out; records of a newer build | in order, at most one effect, never lost, caps hold, never sent as somebody else, every write resolved |
| Projection runner (`node/src/projection-runner.ts`) | lease, in-memory projection state, stream position, pending batch, flush chain | lease acquire/renew/release, stream loop, micro-batches, poll loop, bounded stop | a save whose answer is lost; a lease lost in the middle of a batch; reconnects | each event folded once, in order; the cursor never passes an unfolded event |
| Pull worker (`node/src/worker.ts`) | running jobs, fences, checkpoint offsets, heartbeat timers | poll, execute, checkpoint, complete or fail, drain | duplicate assignments, lost checkpoint answers, stale fences | no step reported twice, capacity held, drain ends |
| Streaming worker (`node/src/worker-streaming.ts`) | one bidirectional stream, running jobs, outbound queue | assignments, cancels, acknowledgements, reconnect | results computed on one stream and sent on the next | results reach the engine once, capacity held |
| Drain on signal (`node/src/internal/drain-on-signal.ts`) | process-wide set of drains | register, unregister, signal | a second signal, a drain that hangs | every drain runs, the process exits once |
| Step engine (`node/src/step.ts`, `node/src/internal/context.ts`) | memoised steps of a run, step counter, branch stack | `run`, `sleep`, `waitForEvent`, `parallel`, `map`, `invoke`, compensation | identifiers must agree between replays, whatever ran first | a step runs once per run; compensations run in reverse |
| Push handler (`node/src/serve.ts`) | none between requests | one request, one execution | errors and yields become HTTP answers | an answer says what happened |
| Command deduplication (`node/src/command-dedup.ts`) | a key in a KV bucket per command | claim, finalize, release | a request whose error hides that it was applied; a release between a loser's create and its read-back | one runner, none once there is a result; every caller gets it |
| Node subscriptions (`node/src/subscribe.ts`) | one WebSocket, active and pending subscriptions, canceled resubscriptions, resume cursors | connect, subscribe, unsubscribe, reconnect, resubscribe, close | the server's answers name a pattern only, a generic error nothing at all; resubscription while the application unsubscribes | client and server agree when nothing is on its way; a subscribe() settles |
| Consumer groups (`node/src/consumer-group-stream*.ts`) | stream, queue of deliveries, pending acks, delivered counts | join, deliver, ack, nak, term, reconnect, unsubscribe | copies of one event on two streams; results that come late; leaving while a handler awaits its ack | an ack that resolved was applied; what the server waits for can be settled |
| Browser transports (`browser/src/transport/*`, `browser/src/subscription.ts`) | WebSocket: one socket, reconnect timer, entries and the requests sent of each pattern; ConnectRPC: one server stream per subscription, cursors | connect, pause, resume, disconnect, subscribe, unsubscribe | results matched by order across sockets; three ways to restart a stream | client and server have the same subscriptions, each once, and nothing published is missed |
| Facades (`client.ts`, `kv.ts`, `files.ts`, `secrets.ts`, `config-client.ts` of both packages) | none | one request per method | none | none beyond their types |
| Core helpers (`core/src/upcaster.ts`, `core/src/utils.ts`, `core/src/run-events.ts`) | registries, cursors | upcast, backoff, filter | chains with gaps, overflow of delays | order of versions, bounds |
| LangGraph saver (`langgraph/src/saver.ts`) | none: one append-only stream per thread, read page by page and materialized after the last tombstone; `put` has an idempotency key, `putWrites` none | put, putWrites, getTuple, list, deleteThread | appends between two pages; calls made again | a read is the thread as it was at one moment |
| Agent package (`agent/src/*`) | sessions, turns, permission prompts, a bridge process per connection | load, prompt, cancel, close, dispose | an answer to a prompt after its cancel; a load that ends after its connection left; two calls that start one bridge | no grant after a cancel; a turn keeps its session; one bridge, none after dispose |

`PROJECT.json` lists every component with its sources, what is modelled of it
and why the rest is not, and under `hazards` what can go wrong in each at which
line.

## 2. Modules

| Module | Models | State ↔ code |
|---|---|---|
| `OfflineQueue` | `queue.ts`, `db.ts`, `lock.ts`, and the parts of `offline.ts` that the queue calls | see below |
| `WriteOutbox` | what an application is promised: one line of writes | abstract, no code |
| `OfflineOutbox` | `OfflineQueue` with the refinement mapping to `WriteOutbox` | |
| `MCOfflineQueue`, `MCOfflineOutbox` | instances for TLC | |
| `OfflineQueueProofs` | theorems: types, one drainer at a time, nothing lost, effects in order, the owner's credential, the records of a newer build; a lone tab's counter and cap, the dead letters of any tabs; the counters at rest, one place, and the refinement of `WriteOutbox` | |
| `WriteWatch` | `watch()` of `queue.ts` and the three ways a watcher is told | one write; `store` is where it is, `watcher` what each callback awaits |
| `ProjectionRunner` | `projection-runner.ts`, and the engine's log, cursor and lease as the runner uses them; the refinement mapping to `ProjectionFold` | see below |
| `ProjectionFold` | what a projection is: the fold of the log up to a cursor | abstract, no code |
| `ProjectionRunnerProofs` | theorems: leases, what may be under way when, types; where every event is; the runners implement `ProjectionFold` | |
| `MCProjectionRunner` | instances for TLC | |
| `JobWorker` | `worker.ts` with its checkpointer, and the engine's executions and step rows as the worker uses them | see below |
| `MCJobWorker` | instances for TLC | |
| `JobWorkerProofs` | theorems: stop, capacity, abort, one start, drain; step rows, completed runs, reports, types | |
| `StreamingWorker` | `worker-streaming.ts` | `main`, `drain`, `job` are its coroutines, `outq` the outgoing queue, `stream` the stream in hand |
| `StreamingWorkerProofs` | theorems: what runs is active, lost streams are silent, drains deliver, types | |
| `DrainOnSignal` | `internal/drain-on-signal.ts` | `drains` is the registry, `ours` the listeners it has installed |
| `StepEngine`, `StepHandlers` | `step.ts`, `internal/context.ts`, `internal/errors.ts`, `serve.ts`; the handlers to run it with | a handler is a program; `scope` has the step client of each branch, `rows` what the engine has |
| `StepEngineProofs` | theorems: steps run once and get their own output, types | |
| `CommandDedup` | `command-dedup.ts` | `entry` is the key in the bucket, `pc` where each caller is |
| `ConsumerGroup` | `consumer-group-stream.ts`, `consumer-group-stream-conn.ts` | reader, pump and handlers; `outbox`, `inbox` the stream's two directions |
| `ConsumerGroupProofs` | theorems: acknowledgements are honest, a group is left, types | |
| `NodeSubscriptions` | `subscribe.ts` | the fields of `SubscriptionClient` under their names; `sockets` what is under way |
| `BrowserSubscriptions` | `subscription.ts`, `transport/websocket.ts` | the manager's handles, the transport's `entries` and `patterns`, the sockets |
| `ConnectRPCSubscriptions` | `transport/connectrpc.ts` | `sub` and `controller` per subscription, `streams` of the server |
| `AgentServer` | `server.ts`, `permissions.ts` of the agent | sessions, turns and permission requests of each connection, its bridge's `chain` and `child` |
| `AgentServerProofs` | theorems: sessions, grants and children, types | |
| `CheckpointSaver` | `saver.ts` | `stream` is the thread's events, `thread` what the calls mean, `reader` a paged read |
| `RunFilter` | `run-events.ts`, whole | `highest` is its map, in the order of its entries |
| `Components` | the components with theorems of their own, side by side | see below |
| `ComponentsProofs` | theorems: what `Components` promises; the drain at a signal, the claim of a command, ConnectRPC subscriptions and watchers | |
| `MCComponents` | `Components` with the runner, the WebSocket subscriptions, saver and filter, for TLC | see below |
| `MCSteps` | `StepEngine` with the handlers, for TLC | |

### OfflineQueue

*Actors.* Every tab of `Tabs` runs its own queue on one database (`outbox`,
`dead`, `nextSeq`). A tab has one drain loop (`pc`: where it awaits), any number
of `enqueue()` calls (`adding` before, `added` after the commit), one `retry()`
or `discard()` call (`op`), one refresh pass (`rf`), one backoff timer (`armed`).
An action is what one tab does between two awaits, or one IndexedDB transaction,
so TLC explores every interleaving JavaScript and several tabs allow. The database answers the calls of one tab in the
order it serves them, as one IndexedDB connection does: a tab that has put a write
back hears of it before it hears of a head it read afterwards (`ReadHead`'s guard on
`op`).

*The engine* is external: it deduplicates on the idempotency key (`applied`
holds the effects in order), answers with a permanent error for `Rejected`
writes, with 401 when the credential has expired, or not at all; a request whose
sender no longer waits (a timeout, a dead page) stays in `late` and may arrive
at any later moment.

*Drain loop.* `DrainCall` is `drain()` up to its first await, with
`drainRequested`; `AcquireLock` and `LockBusy` are `withFlushLock`; `ReadHead`
to `HeadSend` are `drainSession()`'s reading and judging of the head; `Engine*`
and `SendFails` are `classifyFailure()` and its branches; `RemoveCommit` and
`RemoveDone`, `RetireCommit` to `RetireDone` the two ways a record leaves the
outbox, split at every await; `SessionEnds` is the tail of `drain()`;
`Reauth*` and `LateLogin` are `reauthenticate()` racing `authTimeoutMs`.

*Counters.* `pending` and `deadCount` are the tab's own; `Mark`, `Bump` and
`CounterRaced` are `counterMark()`, `counterEpoch` and `counterRaced()`.

*Data left out.* Bodies, byte sizes (the byte counters move with the item
counters, at the same lines), backoff lengths and display statistics. Time is a
choice: a record of `Expirable` may be found expired whenever it is examined.
`watch()` and its reconciliation are in `WriteWatch`.

### WriteOutbox

One line of writes in order of tickets; `Accept`, `TakeEffect` (at most once, and
only the first in line or a write that was set aside, which may have been on its
way), `Complete`, `SetAside`, `PutBack`, `Drop`. `OfflineOutbox` maps the outbox
store to the line, the dead letters to the writes set aside and the engine's
effects to the effects.

### ProjectionRunner

*Actors.* Several processes run one projection (`run[r]`, whose fields carry the
names of the class's fields). In a process the main coroutine (`pc`), the flush
chain (`queued`, `batch`), the flush timer, the renew and `finishStop()` (`work`)
interleave at every `await`.

*Main coroutine.* `Register`, `Acquire` and its variants and `LoadState` are
`runStreaming()` up to the stream; `ReloadState` to `CoolDown` one iteration of
`streamLoop()`: `OpenStream`, the frames (`Receive`, `Heartbeat`), the four ways
a read ends, the last flush, and the catch (`Caught`), whose branches are ordered
as in the code; `FallBack` and `Poll` the poll loop; `DropGrant` what a lost
lease leaves behind.

*A batch* goes through `load`, `handle` and `commit`: `LoadPartitions`, `Reduce`
or `Handle`, and the save with the lease it carries (`as`). Its outcome goes to
whoever flushed it (`by`): the chain, the end of an iteration, a poll or
`stop()`, which treat a failure differently (`BatchFails`).

*The engine* is external: it grants one lease at a time, each under a new epoch,
delivers from the position or the cursor, whichever is higher, and refuses what
does not carry the current lease. The runner sends no lease at all once it has
released it; that the engine refuses such a save too is assumed, from what
`projection-runner.ts:1115-1116` says of the final batch.

*A late save.* A save of which the runner hears no answer has landed by then or
never does. Were it to land later, under the same lease, the engine could not
tell; the hazard is listed without a property.

*Data left out.* What events and states contain (a state is the sequence of
events folded into it, so a fold that is repeated or out of order shows), backoff
lengths, log levels and the old servers' error texts. An error that no retry
fixes is one kind (`Fatal`), wherever the code raises it.

### ProjectionFold

`Fold(to)` moves the cursor and appends to every partition exactly its events in
between. `ProjectionRunner` maps the engine's cursor and states to it; of an
external projection, which has no state, the events that its handler has
processed stand for it.

### JobWorker

*Actors.* The main coroutine (`main`) is `start()`: `Connect` to
`WorkerRegistered` register, `Poll` to `ProcessJobs` are `pollForJobs()` and the
loop over its response. `Stop`, `Drain`, `DrainDeadline` and `DrainStops` are
`stop()` and `drain()`, called at any moment. Each assignment runs in a coroutine
of its own, `job[e].pc`: `Ack` to `AckFails` are `ackJob()` and what follows it,
`RunStep`, `StepFails`, `HandlerEnds` and `Compensate` the handler and what the
worker makes of its end, `Reported` and `ReportFails` the terminal update. Next to
it runs its checkpointer: the debounce `timer`, the send in flight (`sending`)
and the flushes chained behind it (`queued`), with `cursor` the steps the engine
has confirmed and `off` a checkpointer that is cancelled, finished or refused.

*The engine* is external. It assigns a run as an execution under a fence and
queues it again, as the next execution, when the lease expires or the run yields
or fails; the new execution is numbered after every row the run has. It refuses
what a superseded execution sends and acknowledges an assignment once. An
assignment without a fence, which older engines send, is left out, and so is what
a worker does that has only projections.

*A superseded execution* learns of it from the answer to a checkpoint, an
acknowledgement or a report; the model lets each of them bring it, at any time.
Its handler goes on until its next step identifier, and keeps its slot until then.

*Data left out.* A function is the steps `1 .. Steps`, a sleep it may take between
them and one compensation; what a step returns is left out, except that JSON may
be unable to encode it (`"bad"`), which ends a checkpoint's prefix early. Backoffs,
tracing and the answers' texts are left out.

### StreamingWorker and DrainOnSignal

The worker's main coroutine registers, opens the stream and reads it; `drain()` and
`stop()` come at any moment; every assignment runs in a coroutine of its own.
What the worker sends waits in `outq` until the engine has read it and is gone with
the stream, which is why what a job computed for a lost stream must
not be sent on the next. Some executions carry no fence (`Unfenced`), as older
engines send. `DrainOnSignal` has the registry of drains that the workers of one
process share, the listeners it installs for the two signals, and Node's rule that
a signal nobody listens for ends the process.

### StepEngine and StepHandlers

One run of a function, invocation by invocation. A handler is a program of
`StepHandlers`: a sequence of operations, one of which may fan out to branches,
each a program with the step client of its scope. An action is one operation up to
its next await; branches interleave. `HandlerEnds` and `AllUndone` make what
`executeHandler` answers, with the steps it carries; the engine keeps them (`EngineHears`), and invokes again after a yield, a retryable
failure, or when no response came (`ResponseLost`). Histories: `took` and `began` say
which row an operation was given and how often each ran, `swallowed` whether a
handler caught a yield, `owed` which effects are still to be rolled back.

### ConsumerGroup

The reader, the pump of a MANUAL group and the handlers interleave at every await;
acks go out on `outbox`, their results come in on `inbox` and are matched to
`pending`. The server keeps, per stream, the copies it has out (`held`) and takes
them all back when the stream ends; a copy may be sent again when its ack was
waited for too long.

### CommandDedup

One key and several callers, each between `tryClaim` and `finalize` or `release`.
A request that fails may have been applied (`CreateFails`, the second disjunct of
`Finalize` and of `Release`), which is what the owner token is for.

### Subscriptions

`BrowserSubscriptions` has the manager's handles above the WebSocket transport:
the server's results name a pattern, so the transport matches them by order, and
a socket replaced in between must not leave a request behind.
`ConnectRPCSubscriptions` has one stream per subscription that three parties
restart: the stream itself after it fell behind, the timer after a failure, and
`resume()`. `NodeSubscriptions` is the Node.js client over one socket, with the
requests that a reconnect sends again (`resubscribing`) and those given up
meanwhile (`canceled`). In all three the server is external: it works off the
requests of a socket in order and forgets its subscriptions when it closes. They
are modelled with a resume cursor, which is where nothing may be missed.

### WriteWatch, RunFilter, AgentServer, CheckpointSaver

`WriteWatch`: a watcher is told after its own tab's delivery, by the read `watch()`
makes, or by the refresh pass a sibling's announcement sets off; the three
interleave at every await, and exactly one may tell. `RunFilter` is the filter of
`createRunVersionFilter()`, fed with frames out of order and again. `AgentServer` has the connections of one process on one session:
loads, turns, the permission gate with its pending requests, and the chain of
`bridgeFor` calls that share a child process. `CheckpointSaver` compares what a
paged read of a thread yields, while others append, with what the calls mean.

### Components and MCComponents

The components share no state, so one of them (`part`) moves in a behaviour and
the others stay where they start: the state spaces add up instead of multiplying.
A property says for each `part` what the component's own property
says, and `Fair` is the fairness of the one that moves. `Components` has those whose
properties are proved, as instances of their modules of proofs where they have one, so
that `ComponentsProofs` can cite their theorems. `MCComponents` extends it with the others
and gives the constants their values.

## 3. Runs

| Run | Question |
|---|---|
| `queue_order` | Through crashes, stops, late logins, refusals and faults, with two tabs: types, order, one drainer, no write in two places, and does the queue implement `WriteOutbox`? |
| `queue_caps` | Does the cap hold, and does the counter behind it ever under-count, with every call of one tab overlapping? |
| `queue_restarts` | Two users, expiring credentials, login prompts and restarts, without Web Locks: is every write sent as its owner, is none lost, and is every write resolved? |
| `queue_newer_build` | Are the records of a newer build left alone, and are the counters right at rest? |
| `queue_late_login` | violated: a late login (finding 1) |
| `queue_counters` | violated: a dropped announcement (finding 2) |
| `projection_safety` | Is the projection the fold of its events, through a lost answer, a failed batch, a takeover, reconnects and polls; is what was taken in saved at a stop, and the lease handed on? |
| `worker_jobs` | Two executions of one run overlap in a worker, with lost requests and answers: are step rows numbered once and without gap, is nothing reported twice, is a completed run whole, does an aborted job keep silent, does anything escape `stop()`, does a draining worker take work? |
| `worker_heartbeat` | violated: a draining worker without heartbeat (finding 3) |
| `steps_rollback` | violated: a branch that is not entered again does not register its compensation (finding 4) |
| `components_safety` | Of each of the other components, and of the pull worker again with one slot: is what it believes what the other side was told, was sent or holds? |
| `components_liveness` | Under the fairness of each: do drains end and processes exit, is what happened heard, do calls return? |

*Bounds of the queue.* Two tabs are the fewest that race for the lock, the store and
the channel; the code treats all siblings alike and talks to them only through
these. Two writes are the fewest whose order can go wrong; `queue_caps` has three
for a cap of one and one dead letter, and one tab, whose calls overlap. `MaxFaults`
bounds the faults of a behaviour (a lost or late request, a failed transaction, a
failed login, an expiring credential), `MaxStarts` the crashes and stops,
`MaxCalls` the calls to `flush()`, `retry()` and `discard()`, which only `queue_caps`
and `queue_newer_build` make: that `retry()` and `discard()` are steps of
`WriteOutbox` rests on the theorem `ImplementsOutbox`, and that order holds without
Web Locks on `EffectsInOrder`. `Keys` in `queue_order` are the keys its writes
reach; a key beyond them would violate `OutboxSpec`.

*Bounds of the runner.* `projection_safety` has two runners, the fewest that take a
lease from each other, three events in two partitions with batches of two (a batch
with two saves, a second batch, and two events of one partition, without which a
stale state goes unnoticed), and a fourth event of another projection, so that a
watermark lies past the last frame. A behaviour has one mishap (`MaxMishaps`): a
fault (`MaxFaults`: failed requests, lost answers, failed handlers, expiries of a
lease that is being renewed) or an end (`MaxEnds`: a runner that stops, crashes or
ends on an error). A fault and an end together are in `components_liveness`, with one
event of a managed projection, and in the theorems, which bound neither.

*Bounds of the pull worker.* `worker_jobs` has one run in two executions (`MaxSeq`),
the fewest of which one can supersede the other, and two slots, so that both run in
one process at once; two steps, a sleep and a compensation, with checkpoints of one
step (`Batch`), make a tail longer than a checkpoint, a send chained behind another,
and a row of an earlier execution above the last completed step. Runs share nothing
but the slots, so a second run adds states and no new case. The one slot that a
superseded execution still takes when the next is assigned is in `components_safety`.
No fault is bounded: every request may fail at any time, as failures leave no
counter behind.

*Bounds of the components.* Two of whatever can interfere: two jobs of a streaming worker
with one slot, two drains and two signals, two events of a group on two streams, two
callers of a command, two handles and two sockets of a client, two callbacks of a
watcher, two agent connections, two runs of a filter that remembers two. Faults are
bounded by one to three per behaviour (`MCComponents` has the numbers).
`components_liveness` has fewer: one job, one event, one fault.

*Fairness.* Of the queue: weak fairness of a tab's own steps: callbacks,
transactions and timers of a live page do run, and a request or a login prompt
is answered or times out (the code races both against a timer). A page that died
is opened again, and a newer build drains its own records: both are stated in the
hazards as assumptions, the first because the code says a write waits for the
next start otherwise. Nothing is assumed of the faults, which may happen or not.

Of the projection runner: its coroutines, its flushes and its timers go on,
which includes that an HTTP request ends and that a stream delivers what is
published, and the lease of a holder that does not renew it expires.

Of the workers: timers fire (the debounce, the backoff, the deadline of
`drain()`) and a request rejects once it is aborted; no answer need come and no
handler need end, which is what `DrainsEnd` is about.

Of the others: callbacks run, timers of reconnects and backoffs fire, a socket or
stream that is opened opens or fails, and the server works off what it was sent.
That a handler of a consumer group ends and that a caller of a command comes back
is fair too, since neither property could hold otherwise; that a permission request
is answered is not.

*Deadlock* is checked where a system may not stop: the queue rests only when nothing
is left to deliver (`Rest`), the runners only when every published event is
processed or none of them runs. A worker that was stopped, a run that ended and a
component that has come to its end rest, so their runs do not check it;
`queue_restarts` does not either, as its liveness property is about what must come.

*Why the properties are not by construction.* Each has a mutation of the code in
`PROJECT.json` that breaks it: a lock freed by whoever leaves, a head read
backwards, a cap off by one, a timeout taken for an acknowledgement, a create that
overwrites, a reset that is forgotten, and so on.

## 4. Findings

1. `queue_late_login`: the callback that `offline.ts:448` gives the queue calls
   `setAuth()` whenever the application's `onAuthRequired` settles, also after
   the queue has given up waiting (`queue.ts:838`). The identity it settles with
   is then read by nobody: the queue keeps the previous identity and sends the
   previous user's writes with the new credential, which
   `packages/browser/README.md:536-539` excludes. With `LateLogins = FALSE` the
   property holds (`queue_restarts`).
2. `queue_counters`: an announcement that arrives while a pass is under way is
   dropped (`queue.ts:299`), although the pass may have read the store already;
   the counters then stay wrong at rest, which `queue.ts:294-295` and
   `packages/browser/README.md:604-605` exclude. They are right in every tab
   that dropped none (`CountersInSyncUnlessMissed`).
3. `worker_heartbeat`: a poll answered with 404 makes the worker register again,
   with its jobs running. `connect()` clears the heartbeat first (`worker.ts:303`);
   when `drain()` is called while it registers, it returns without starting one,
   and the jobs drain with none, although `worker.ts:412-414` keeps it "while
   draining too". A `drain()` before the 404 keeps it (`DrainHoldsOn`).
4. `steps_rollback`: with a concurrency limit and `failFast`, `executeParallel()`
   starts no branch after one has failed (`step.ts:565`, `531`). A branch that
   completed in an earlier attempt is then not entered in the last one, so it does
   not register its compensation again and its effect stays, although
   `packages/core/src/types.ts:644-647` promises that a failing workflow rolls all
   back.

Seen while modelling, without a property that a document promises:

- A job of the streaming worker that had been cancelled before its stream ended keeps
  that reason when the stream aborts it (`worker-streaming.ts:503`), and one in its
  last compensation does not look again (`830`; `796` does): both report on the next
  stream, which the comment at `78-81` excludes. `NoStaleFence` states what the comment
  says and is not checked; `LostStreamIsSilent` is what holds.
- Step identifiers fall back to an older form when a row has it (`context.ts:185-206`).
  The comment there says that a new run has no such rows, but with colons it can: the
  older form of a root step `p:0:a` is the identifier of step `a` in the first branch of a
  parallel `p`, whose output the root step then takes for its own. `StepsRunOnce` excludes
  colons (`NoColons`), and a second parallel in one scope, as two of one name share their
  branches' identifiers. `tool`, `llm` and `memory` of the agent helpers number their calls in
  the order they arrive, so parallel branches may be numbered differently in a replay.
- `subscription.ts:389-391` opens a socket when a handle subscribes during a backoff, so
  two sockets can be alive; `MCComponents` checks the behaviours without overlap.
- The Node.js client takes a generic `error` frame for the answer of whatever is
  pending: a subscription that lives on the server may be dropped, or one that does not
  may be kept (`misread`; the properties exclude that client). A `subscribe()` pending
  at a clean close settles only at the next `connect()`.
- Over ConnectRPC a stream that ends without an error is neither restarted nor
  reported.
- The saver deduplicates writes by index, but not those with a negative one
  (`saver.ts:17-21`, `303`); a `put` made again after `deleteThread` is taken for the
  first and appends nothing.

## 5. Proofs

TLC checks an instance, TLAPS every instance. The theorems hold for any sets of tabs,
writes, principals, runs, callers and runners, any caps and any number of faults,
from the assumptions that the modules name: the types of their parameters. What a
theorem assumes beyond them is in its statement and listed here.

**The queue** (`QueueAssumption`, `NoRecordAssumption`). `OfflineQueueProofs`:

- `TypeCorrectness`: `Spec => []TypeOK`. `TypeOK` alone is not inductive: what a
  transaction writes is the record the loop holds in `cur`, so `Handles` says
  where the loop holds a whole record, and the counts of a store are numbers
  only while it is finite (`FiniteStores`). One lemma per part of `Next`, one
  case per action; `Frames` disposes of the groups an action leaves alone.
- `MutualExclusion`: `Spec => []SingleDrainer`, from `MutexInv` (who is in a
  session holds the lock). Every step of a tab keeps a discipline, `SessionStep`:
  it leaves the others' loops alone, enters a session only by taking the lock,
  keeps it while the session lasts and frees it only as its holder.
- `NothingLost`: `Spec => []NoWriteLost`, with Web Locks or without, as are all that
  follow. A removal names a key, not a write, so
  `KeysInv` says that a key names one record for as long as a loop remembers it,
  whatever a sibling removed, requeued or stored meanwhile; and `RemoveInv` that a
  loop removes as delivered only what has taken effect. `HoldStep` is the
  discipline of the records that the loops hold, as `SessionStep` is of the lock.
- `EffectsInOrder`: `Spec => []StrictFifo`. The property speaks of what has taken
  effect; `ReadyInv` adds what may: whatever a loop holds, has sent or has given
  up waiting for comes after everything stored before it has taken effect or was
  dead-lettered. That is true of the head when it is read (`HeadIsReady`): what was
  stored before it is no longer stored, and a write leaves its place only as
  delivered or dead-lettered (`WhereInv`). `IdsInv` and `StoredInv` keep a
  `localId` to one record, under the key it was given or a later one.
- `OwnersCredential`: `Spec => []NoForeignSend` where `LateLogins = FALSE`, which is the
  hypothesis that finding 1 is about. A record keeps the identity it was stored under
  through a retirement and a requeue, and `OwnerInv` says so of the stores, the calls
  and what the loops hold; `CredInv` ties the client's credential to the identity the
  loop compares with. The two part only in a login that yields an identity and no
  credential, and then the credential is an expired one, with which nothing is sent
  that the engine takes: this is why `CredInv` speaks of the two places in `drain()`
  that a 401 leads to.
- `NewerBuildsRecords`: `Spec => NewerUntouched`, an action property. `ReadableInv` says
  what a loop may be about to take out, and a `retry()` to put back: only what passed
  the test of its kind. A removal by key then cannot meet a newer build's record,
  because of `KeysInv`.

and of the counts:

- `CounterCovers`: `Spec => []NeverUnderCounts`, and `CapIsKept`: `Spec => []CapHolds`,
  for a lone tab (`LoneTab`: one tab, and no newer build). Siblings learn of each other's
  writes by announcement only, so two of them may both admit the last one. Stops,
  crashes, faults and all overlapping calls are in. The counter is set from three reads,
  at `start()`, at an empty head and in a refresh pass, and each of them may be stale
  when it is used. `EmptyInv` and
  `SeenInv` say of the last two that the value is right or the read is marked as raced;
  `RaceStep` is the discipline that makes it so: whatever changes the outbox is, after
  its step, either still under way (`Mutating`) or has raced the reads it met.
  `CountInv` then counts what a loop took out and has not counted down yet (`Owed`), and
  `HeldInv` that it is there to be taken out. `RequeuedInv` is why an empty head cannot
  reset the counter between the commit of a `retry()` and its count, and it rests on
  the database answering a tab's calls in order.
- `DeadLettersBounded`: `Spec => []DeadLetterBound`, for any finite, nonempty set of tabs.
  The property is far from inductive: it speaks of the states between two retirements
  only, and a tab that crashes, or whose siblings refill the store, may evict nothing
  for long. `DeadInv` is an account instead. A tab is `Counted` when it will evict, or
  count what there is, before it retires another write unseen; each tab is counted once,
  once more while it is about to evict, and a fault, a crash or a stop pays for one entry
  that nobody will evict. `WeightStep` says that no step of a tab lowers its share
  without having evicted down to the cap (`EvictionEnough`) or having seen that there
  is room; `AccountSteps` sums that over the tabs.

and with Web Locks:

- `WritesInOnePlace`: `Spec => []OnePlace`, from `PlaceInv`: what a loop is working
  on is still the head, since only the holder of the lock removes records, and a
  `localId` names one record of a store.
- `CountersAgree`: `Spec /\ [][Undisturbed]_vars => []CountersInSyncUnlessMissed`, with
  BroadcastChannel too, for any tabs and beside a newer build. `Undisturbed` excludes
  what no later step repairs: a page that stops or dies, and a storage error between a
  commit and its count. Every other fault is in, lost requests and failed reads among
  them; and where there are neither faults nor stops (`FaultlessCountersAgree`, which is
  what the run checks) nothing is excluded. The property speaks of rest alone;
  `NewsInv` says of every other state why rest will find it true. A tab that dropped
  nothing has something to hear (`WillHear`: mail, a pass that has yet to read, or a
  sibling that `Owes` an announcement), or is about to commit a read that is right or was
  raced, or its counters are exact, less what it has under way itself (`Exact`, which is
  `CountInv` with an equation). `NewsStep` is the discipline of a step: whoever changes a
  store owes news until the others have mail, and nobody forgets what he heard but by
  dropping it. Without Web Locks this is false, as TLC shows with two tabs: both take out
  one record, and the one that removes nothing counts it down as well, after it has
  heard the other. `PlaceInv` is what rules that out.
- `ImplementsOutbox`: `Spec => OutboxSpec`, where `Keys` is all of `Nat`. Each
  transaction maps to one step of `WriteOutbox` and each effect at the engine to
  `TakeEffect`; `PlaceInv` says of a request whose sender gave it up that its write
  is still first in line, has taken effect, or was set aside.

**The projection runner** (`RunnerAssumption`, `BatchAssumption`): any runners, log,
partitions, batch size, faults and ends. Four invariants, each inductive given those
before it, in `ProjectionRunnerProofs`:

- `LeaseInv` says what a runner knows of its lease, and adds to `LostIsFenced` the
  answers that are still on their way: the refusal of a renew is of a fenced lease, a
  save carries the held lease or none, and a runner in standby has neither a batch
  nor a flush left. An epoch is never granted twice, so what is fenced stays fenced:
  `LostLeasesAreFenced`.
- `ShapeInv` says which of the coroutine, the chain, the timer and `stop()` may be
  under way in each phase, and who holds the lease when: `StoppedRunnersRelease`.
- `TypeInv` types it all: `RunnersAreTyped`. What a delivery, a run of a batch and
  `UpTo` yield is defined by recursion; the lemmas about them argue from the least
  element of a set of counterexamples, which needs no operator as a parameter.
- `FlowInv` follows an event from its delivery to its save. Of a runner whose lease
  the engine accepts, every event up to its mark is saved, pending or in the batch
  under way, in the order of the log; the states a batch works on are the engine's,
  followed by the run it is about to save. Of a fenced runner nothing of the kind
  holds, which is why the invariant needs the first two. From it: `NoEventIsSkipped`,
  `StopsAreSafe`, `PositionsAreCovered`.

`EventsAreFoldedOnce` (`Spec => []EventsFoldedOnce`) says that a saved state is the
fold of the log up to the cursor, and `ImplementsProjection` (`Spec => FoldSpec`) that
every step of the runners folds the next events, all of them, once and in order, or
leaves the projection as it is, for both kinds of projection.

**The pull worker**: any finite set of runs and any numbers of executions, steps, slots
and steps of a checkpoint. Each step of a job is shown to keep a discipline, `Keeps`: it
undoes neither the job's abort, with which its checkpointer is cancelled, nor its end.
From that, lemma by lemma over the checkpointer's operators, in `JobWorkerProofs`:

- `StopIsFinal`: `Spec => []NothingOutlivesStop`. `StopInv` adds that a job that is
  not over is one of `activeJobs`, where `stop()` finds it, or was aborted before.
- `CapacityNeverExceeded`: `Spec => []CapacityKept`. `SlotInv` counts the handlers
  that run rather than `activeJobs`, which `stop()` empties, and bounds what the
  poll in flight and the response being read may add.
- `AbortSilences`: `Spec => AbortedIsSilent`, an action property: of every step of a
  job that was aborted, `Silent` says that it starts no send and no report.
- `EnteredOnce`: `Spec => []StartedOnce`. `OnceInv` ties the engine's phase of an
  execution to the job: only an acknowledgement that the engine took enters a handler.
- `DrainTakesNothing`: `Spec => DrainHoldsOn`, an action property over every step of
  the worker, whichever response it is reading.
- `NumberedOnce`, `CompletedHasAll`, `ReportedOnce`: `StepsInv` says that the rows of a
  run are those its current execution found, and then the first `w` of the steps it
  has recorded, for some `w` not below its cursor: between the two lie the checkpoints
  that were stored and whose answer was lost. It is the ledger between the two sides;
  the three properties alone say nothing of what is in the checkpointer's hands.
- `JobWorkerTypes`: `Spec => []TypeOK`.

**Command deduplication**, in `ComponentsProofs`: of any callers, rounds and lost
answers, `DedupTypes`, `OneRunner` and `ResultsAreFinal`, from `ClaimInv`: who runs,
finalizes or is about to release has its own claim in the bucket, so that what it
removes is its own. `TypeOK` needs `RoundsInv`, that a caller in `tryClaim()` has a
round left.

**Consumer groups** (`GroupAssumption`): any events, numbers of streams and copies, and
faults. From the invariant `GroupIInv`:

- `AcksHonest`: `Spec => []AcksAreHonest`. That an acknowledgement which resolved was
  applied (`OkMeansSettled`) is about numbers: `IdsInv` says that none on its way is beyond
  the counter and that what it stands for does not change, and `ResultInv` that a result
  of success, on its way to an ack that waits, is the truth. `BackedInv` ties the events
  on their way to what the server has out or is done with. That no copy is refused as
  stale (`HeldCanBeSettled`) is about counting: the client counts a copy when it reads
  it, and one less, but never below 0, when it reads a result of success that an ack waits
  for. `CountInv` says what the count will be once all that is on its way was read: because
  of the floor at 0 it is a maximum, over the suffixes of the inbox, and the server has
  never more copies out than that.
- `GroupIsLeft`: `Spec => GroupLeaves`, an action property and an invariant: `TornInv` says
  that only the last stream is not reset, and only while it is joined or read.
- `GroupTypes`: `Spec => []TypeOK`.

In the model the filter of the queue (`OfOthers`) is written with an index for each
kept element, as the library has no facts about `SelectSeq`.

**The agent's server** (`AgentAssumption`): any finite set of connections, and any loads,
requests, turns, stops and children. `SessionsHold` (`Spec => []AgentSessionsHold`) and
`AgentTypes`, from `AgentIInv`, whose parts say of the interleavings of `setup()`,
`prompt()`, `cancel()`, `closeSession()`, `dispose()` and `bridgeFor()`:

- `TurnInv`: a session that its connection is about to release (in `closeSession()` or
  `dispose()`) has a turn only if that turn is cancelled. The release is two steps after
  the cancel, and between them no prompt begins; a load that ends takes the id only while
  no turn of its connection is live and nobody else has it.
- `GateInv`: a request that a cancel found open is denied or answered for good, and a
  standing grant came from a request that was answered while it was open.
- `CallsInv`: who waits in a chain waits for that chain, and once: the child that comes up is
  given to the call that asked for it.
- `ChildInv`: of a connection's children only the one that starts and the last can be there,
  and not both: one starts only when the last is gone. `ProbesInv` says that a call which
  probes has a child that had started, so that what a probe stops is never the child that
  is starting meanwhile. Once `dispose()` is over the chain is empty, hence nothing starts.

**The streaming worker** (`StreamingAssumption`): any runs, numbers of executions,
streams, steps, compensations, slots and faults. `StreamInv` is inductive: `LinkInv`
ties the worker's coroutine, the stream and what is queued on it, `ActiveInv` says that
`activeJobs` is what runs for the stream in hand, and `JobInv` that whatever else still
runs was aborted. From it `StreamingTypes`, `ActiveJobsRun`, `LostStreamsAreSilent`,
`DrainsDeliver` (a drain that nothing disturbed closes a stream of which the engine has
read all), and `DrainsStayDraining`, an action property.

**The drain at a signal**, in `ComponentsProofs`: any workers and signals. A pending drain
waits for whoever was registered when its signal came; `Waiting` adds that whoever runs is
registered, and that who is waited for by nobody has stopped or came later (`SignalInv`).

**ConnectRPC subscriptions** (`ConnectRPCAssumption`), in `ComponentsProofs`: any
subscriptions, events, pauses and faults. `HeardOnce`: `Spec => []OneStreamEach`, which
lacks only what a timer may do that is about to restart a stream: `BehindInv` says that
either the controller it remembers was replaced, or the subscription has no stream and
nobody else is about to give it one. `connect()` finds no stream to duplicate, since
whatever disconnects has aborted them all (`ConnectedAll`, `AbortedEach`). `RpcTypes`.

**The watchers of a write** (`WatchAssumption`), in `ComponentsProofs`: any tabs, callbacks
and retries. `ToldTrue`: `Spec => []ToldTheTruth`. What a tab has yet to tell, or a pass
has read, may be outdated when it is told; `WatchInv` says of each that it was true once,
and what has happened stays so (`Happened`). `WatchTypes`.

**The step engine** (`StepAssumption`): any handlers with at most one fan-out of the root,
any number of branches, concurrency limit, attempts and lost responses. `Numerals` are the
decimal numerals, of which the assumption says only that they differ and that there are
enough; `NoColons` is a hypothesis, for the reason given in section 4.

- `StepsRunOnce`: `Spec => []MemoIsOwn /\ []EffectsOnce`. Both say that a row is the
  operation's own, whatever branch was first in this invocation or the one that stored
  it. An operation has an identifier `IdOf` that does not depend on the order: its scope,
  its name, and how many of that name come before it in the program (`Nth`). `IdsDiffer`:
  no two share one. `TypeInv` says that rows, steps and responses hold an operation under
  its own identifier only (`GoodPair`). `CountInv` is why the identifier that the code
  generates is that one: a scope in which nothing was swallowed has counted exactly what
  came before it. A scope that swallowed a yield may have skipped operations without
  counting them, which is harmless because no operation starts there (`Clear`).
  `YieldInv` and `AwaitInv` follow a yield from its operation through its branch, the
  root and the response to the row that answers it.
- `StepsEndAsTold`: `Spec => []SwallowedFails /\ []UndoneIffFailed`. `SwallowInv`: a
  swallowed yield is a mark that stays until the handler ends, on a guard that is still to
  be asked (that of its branch, or of the root), or on the invocation's `failed`, so that
  the response cannot be another. `UndoInv`: rows whose identifiers have three parts are
  compensations, and there are some only of a response that fails for good, undone from
  the last registered on.
- `StepTypes`: `Spec => []TypeOK`.

In the model the steps of a response keep the positions they have among all steps
(`Reported`), and `Undone` is a cardinality, as the library has no facts about
`SelectSeq`.

**Side by side.** `ComponentsProofs` states the properties that `components_safety`
checks. Each component of `Components` moves as its own specification says or not at all
(`PullRuns`, `StreamingRuns`, ...), so that `Spec` implies the specification of each, and
the theorems above give `WorkersKnowTheirJobs`, `DrainsStayWhole`, `StepsAreOnce`,
`RunsEndAsTold`, `AcksStayHonest`, `GroupsAreLeft`, `ClaimsAreExclusive`,
`AgentsHoldSessions` and `ToldIsTrue`.

*Only proved.* `EventsFoldedOnce` (which `FoldSpec` entails step by step), the types of
the runners and `ResultIsFinal`: no run is spent on them, as what would break them
breaks a property that is checked.

*Only model-checked.* Liveness (`EveryWriteResolved`, `DrainsEnd`, `EventsAreHeard`,
`CallsReturn`), which rests on fairness and `ENABLED` and is out of the prover's reach.
`ClientsAgree`, of the components of `MCComponents` that `Components` does not have: the
WebSocket clients of browser and Node.js, the filter and the saver. The state of the
browser client, the filter and the saver is kept in sequences that `SelectSeq` and the
like filter, of which the library states no facts, and whose definitions are recursive,
so that none can be proved; the Node.js client needs an invariant over all that is on its
way on the socket (section 6). And the types of all
the components together (`TypeOK` of `MCComponents`), which the theorems state component
by component.

## 6. Plan

What is worth adding, in this order:

1. *WebSocket subscriptions.* One invariant for both clients: the requests on their
   way, applied in order to what the server has, give what the client believes. It needs
   the entries as functions of their places instead of filtered sequences.
2. *The filter of runs.* Its map as ranks instead of a sequence; then that the entries
   are those shown last (`DropsTheOutdated`).

One module of proofs per component; modules that prove about one component are merged
where they share most of their lemmas.

## 7. Not modelled

Generated protobuf code, validation schemas, type declarations and the request
facades: they keep no state between calls. They are also most of the repository:
the two `client.ts`, `types.ts` and the generated code alone are some 18,000 of its
51,471 lines, which is why the modelled lines are a small share of the whole.
Text matching (the agent's shell policy), paths (its sandbox) and cryptography are
outside what these models tell apart. What is left out within a modelled component
is listed with it in `PROJECT.json`: `after` of the projection runner, heartbeats of
the streaming worker, step timeouts, the expiry of a deduplication key, results with
`retrying = false` and other patterns of the browser client, `list()` of the saver,
and the order of an agent's transcript updates.
