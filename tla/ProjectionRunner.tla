-------------------------- MODULE ProjectionRunner --------------------------
(***************************************************************************)
(* The projection runner of @ironflow/node (projection-runner.ts): several *)
(* processes run one projection, one at a time, under a lease the engine   *)
(* grants, and fold the engine's event log into saved state.               *)
(*                                                                         *)
(* A runner has one main coroutine (pc), which acquires the lease, loads   *)
(* the state, reads a stream of events or polls for them, and reconnects; a*)
(* chain of flushes (queued, batch), which runs the handler over a batch   *)
(* and saves it; a renew; and, once stop() was called, the work of         *)
(* finishStop() (work).  They interleave at every await.  An action is what*)
(* a coroutine does between two awaits, or a request and its answer where  *)
(* nothing the request depends on can change in between.                   *)
(*                                                                         *)
(* The engine is external: the log of published events, the cursor and the *)
(* state of each partition, and the lease with its epoch.  It refuses a    *)
(* poll, a stream, a save or an acknowledgement whose lease is not the     *)
(* current one.                                                            *)
(*                                                                         *)
(* Abstracted: an event is its sequence number, a partition's state is the *)
(* sequence of events folded into it, backoff lengths and logging.  A save *)
(* of which the runner has heard no answer has reached the engine by then, *)
(* or never will.                                                          *)
(***************************************************************************)
EXTENDS Integers, Sequences, FiniteSets

CONSTANTS
  Runners,     \* processes that run the projection
  N,           \* bound: events published
  Backlog,     \* events published before the runners start
  Matching,    \* sequence numbers of the events the projection subscribes to
  Part,        \* their partition
  Global,      \* "__global__"
  BatchSize,   \* projection.config.batchSize
  Modes,       \* projection.config.mode: managed, external
  Transports,  \* what the engine supports: stream, poll
  MaxFaults,   \* bound: failed requests, lost answers, failed handlers, expiries
  MaxEnds,     \* bound: stops, crashes and errors no retry can fix
  MaxMishaps,  \* bound: those and the faults together
  NoRunner, NoBatch

ASSUME RunnerAssumption ==
  /\ N \in Nat /\ Backlog \in 0 .. N /\ Matching \subseteq 1 .. N
  /\ BatchSize \in Nat \ {0}
  /\ Modes \subseteq {"managed", "external"}
  /\ Transports \subseteq {"stream", "poll"}
  /\ {MaxFaults, MaxEnds, MaxMishaps} \subseteq Nat
  /\ NoRunner \notin Runners

Parts == {Global} \cup {Part[e] : e \in Matching}

\* The batches that flushPending() and poll() may start, and what becomes of
\* them (see Batch).
Batches ==
  [by : {"chain", "end", "poll", "stop"}, todo : Seq(Matching), mark : 0 .. N,
   at : {"load", "handle", "commit"}, st : [Parts -> Seq(Matching)],
   pk : Parts, last : 0 .. N, as : Nat]

ASSUME BatchAssumption == NoBatch \notin Batches

VARIABLES
  published,  \* the log: events 1 .. published
  cursor,     \* how far the projection is saved
  state,      \* the saved state of each partition
  epoch,      \* the epoch of the last grant
  holder,     \* whom it was granted to, until it is released or expires
  mode,       \* of the projection
  transport,  \* of the engine
  run,        \* the runners
  handled,    \* history: events an external handler has processed
  orphaned,   \* history: grants whose answer or whose release was lost
  faults,     \* faults so far
  ends        \* runners ended so far

log    == <<published, cursor, state>>
lease  == <<epoch, holder>>
config == <<mode, transport>>
bounds == <<faults, ends>>

vars == <<log, lease, config, run, handled, orphaned, bounds>>

-----------------------------------------------------------------------------

\* A ProjectionRunner as it is constructed.
Fresh ==
  [pc       |-> "register", \* where the main coroutine is
   how      |-> "clean",    \* how the stream ended: clean, error, fatal
   stop     |-> FALSE,      \* intakeSignal.aborted
   work     |-> "none",     \* finishStop(): none, wait, flush, done, rejected
    late     |-> FALSE,      \* stopTimeoutMs is over
   released |-> FALSE,      \* stop() has released the lease
   polling  |-> FALSE,      \* polling
   lease    |-> 0,          \* lease: its epoch, or 0
   lost     |-> FALSE,      \* leaseLost.signal.aborted
   fenced   |-> 0,          \* a renew of this grant was refused; answer on its way
   mem      |-> <<>>,       \* managedState
   reload   |-> FALSE,      \* reloadState
   failed   |-> FALSE,      \* flushFailed
   pending  |-> <<>>,       \* pendingEvents
   mark     |-> 0,          \* pendingMark
   timer    |-> FALSE,      \* flushTimer is set
   queued   |-> FALSE,      \* a flush is queued on flushChain
   position |-> 0,          \* position
   streamed |-> 0,          \* how far the open stream has got
   cut      |-> FALSE,      \* streamAbort.signal.aborted
   got      |-> 0,          \* history: the last frame taken in and not dropped
   batch    |-> NoBatch]    \* the batch being processed

Set(r, f) == run' = [run EXCEPT ![r] = f]

Managed == mode = "managed"

Higher(a, b) == IF a < b THEN b ELSE a

\* The engine accepts this lease.
Current(l) == l # 0 /\ l = epoch /\ holder # NoRunner

Fault == faults < MaxFaults /\ faults + ends < MaxMishaps /\ faults' = faults + 1

End == ends < MaxEnds /\ faults + ends < MaxMishaps /\ ends' = ends + 1

\* flushChain has settled.
Quiet(f) == f.batch = NoBatch /\ ~f.queued

\* The renew of the held grant runs: stop() aborts it.
Renews(f) ==
  f.lease # 0 /\ ~f.lost /\ ~f.stop
  /\ f.pc \in {"load", "open", "reading", "final", "finishing", "cool", "poll",
               "polled"}

-----------------------------------------------------------------------------
(* The initial state: processes that have just started on an unread log.   *)

Init ==
  /\ published = Backlog /\ cursor = 0
  /\ state = [p \in Parts |-> <<>>]
  /\ epoch = 0 /\ holder = NoRunner
  /\ mode \in Modes /\ transport \in Transports
  /\ run = [r \in Runners |-> Fresh]
  /\ handled = {} /\ orphaned = {}
  /\ faults = 0 /\ ends = 0

-----------------------------------------------------------------------------
(* The engine                                                              *)

Publish ==
  /\ published < N
  /\ published' = published + 1
  /\ UNCHANGED <<cursor, state, lease, config, run, handled, orphaned, bounds>>

\* The lease of a holder that no longer renews it expires ...
ExpireAbandoned ==
  /\ holder # NoRunner
  /\ ~ \E r \in Runners : run[r].lease = epoch /\ Renews(run[r])
  /\ holder' = NoRunner
  /\ UNCHANGED <<log, epoch, config, run, handled, orphaned, bounds>>

\* ... and so may the lease of one whose renews are late.
ExpireLate ==
  /\ holder # NoRunner
  /\ Fault
  /\ holder' = NoRunner
  /\ UNCHANGED <<log, epoch, config, run, handled, orphaned, ends>>

\* The first event after c that the projection subscribes to and is published.
NextAfter(c) == {e \in Matching : /\ c < e /\ e <= published
                                  /\ \A d \in Matching : c < d => e <= d}

\* The first k such events, in order.
Delivery(c, k) ==
  LET f[i \in 0 .. k] ==
        IF i = 0 THEN <<>>
        ELSE LET s    == f[i - 1]
                 last == IF s = <<>> THEN c ELSE s[Len(s)]
             IN  IF NextAfter(last) = {} THEN s
                 ELSE Append(s, CHOOSE e \in NextAfter(last) : TRUE)
  IN  f[k]

-----------------------------------------------------------------------------
(* lost(), dropGrant(), and what the catch of streamLoop() decides         *)

\* streamAbort.abort(); a request for a stream is left by LeaveLoop.
Cut(f) == [f EXCEPT !.cut = f.pc = "reading"]

LoseLease(f) == IF f.lease = 0 THEN f ELSE Cut([f EXCEPT !.lost = TRUE])

\* The order matters: a stop ends the loop, a lost lease goes to standby, an
\* error that no retry fixes ends the run, and any other goes down the ladder.
Caught(f, fatal) ==
  [f EXCEPT !.how = "clean",
            !.pc = IF f.stop THEN "ended"
                   ELSE IF f.lost THEN "drop"
                   ELSE IF fatal THEN "release"
                   ELSE "cool"]

\* What dropGrant() forgets.
Dropped(f) ==
  [f EXCEPT !.pending = <<>>, !.mark = 0, !.timer = FALSE, !.position = 0,
            !.failed = FALSE, !.reload = FALSE, !.mem = <<>>, !.lease = 0,
            !.lost = FALSE, !.got = 0]

\* Mutant of DropGrant: it does not wait for the chain.
DropGrantAtOnce(r) ==
  /\ run[r].pc = "drop"
  /\ Set(r, [Dropped(run[r]) EXCEPT !.pc = "standby"])
  /\ UNCHANGED <<log, lease, config, handled, orphaned, bounds>>

\* It waits for the chain: a batch of the lost grant must not be saved with the
\* next one's lease.
DropGrant(r) ==
  /\ run[r].pc = "drop"
  /\ Quiet(run[r])
  /\ Set(r, [Dropped(run[r]) EXCEPT !.pc = "standby"])
  /\ UNCHANGED <<log, lease, config, handled, orphaned, bounds>>

-----------------------------------------------------------------------------
(* run(), start(): register, acquireLease(), loadExistingState()           *)

Register(r) ==
  /\ run[r].pc = "register"
  /\ Set(r, [run[r] EXCEPT !.pc = IF run[r].stop THEN "ended" ELSE "standby"])
  /\ UNCHANGED <<log, lease, config, handled, orphaned, bounds>>

\* Mutant of Granted: a runner that is stopping does not take note of the lease.
GrantedUnnoticed(f, e) ==
  IF f.stop THEN [f EXCEPT !.pc = "ended"]
  ELSE [f EXCEPT !.lease = e, !.position = 0,
                 !.pc = IF f.polling THEN "poll" ELSE "load"]

\* Granted under epoch e: the delivery position starts again.
Granted(f, e) ==
  [f EXCEPT !.lease = e, !.position = 0,
            !.pc = IF f.stop THEN "ended"
                   ELSE IF f.polling THEN "poll" ELSE "load"]

\* Also once stop() was called, as an Acquire under way is not aborted at once:
\* finishStop() then finds the lease and releases it.
Acquire(r) ==
  /\ run[r].pc = "standby" /\ ~run[r].released
  /\ holder = NoRunner
  /\ holder' = r /\ epoch' = epoch + 1
  /\ Set(r, Granted(run[r], epoch + 1))
  /\ UNCHANGED <<log, config, handled, orphaned, bounds>>

\* The answer is lost, or the stop's bound aborts the request: the engine has
\* granted a lease nobody knows of.
AcquireUnheard(r) ==
  /\ run[r].pc = "standby" /\ ~run[r].released
  /\ Fault
  /\ holder = NoRunner
  /\ holder' = r /\ epoch' = epoch + 1
  /\ orphaned' = orphaned \cup {epoch + 1}
  /\ UNCHANGED <<log, config, run, handled, ends>>

StandbyStops(r) ==
  /\ run[r].pc = "standby" /\ run[r].stop
  /\ Set(r, [run[r] EXCEPT !.pc = "ended"])
  /\ UNCHANGED <<log, lease, config, handled, orphaned, bounds>>

\* After the grant: a state read before the standby wait is stale.
LoadState(r) ==
  /\ run[r].pc = "load" /\ ~run[r].stop /\ ~run[r].lost
  /\ Set(r, [run[r] EXCEPT !.pc = "open",
                           !.mem = IF Managed THEN state[Global] ELSE @])
  /\ UNCHANGED <<log, lease, config, handled, orphaned, bounds>>

\* The checks of retryUntilStopped(), of the two loops and of sleep().
LeaveLoop(r) ==
  /\ run[r].pc \in {"load", "open", "poll"} /\ (run[r].stop \/ run[r].lost)
  /\ Set(r, [run[r] EXCEPT !.pc = IF run[r].stop THEN "ended" ELSE "drop"])
  /\ UNCHANGED <<log, lease, config, handled, orphaned, bounds>>

-----------------------------------------------------------------------------
(* streamLoop()                                                            *)

\* Mutant of ReloadState: the flag is not reset.
ReloadStateAgain(r) ==
  /\ run[r].pc = "open" /\ ~run[r].stop /\ ~run[r].lost
  /\ run[r].reload
  /\ Set(r, [run[r] EXCEPT !.mem = IF Managed THEN state[Global] ELSE @])
  /\ UNCHANGED <<log, lease, config, handled, orphaned, bounds>>

\* The state must be the engine's before a stream replays from its cursor.
ReloadState(r) ==
  /\ run[r].pc = "open" /\ ~run[r].stop /\ ~run[r].lost
  /\ run[r].reload
  /\ Set(r, [run[r] EXCEPT !.reload = FALSE,
                           !.mem = IF Managed THEN state[Global] ELSE @])
  /\ UNCHANGED <<log, lease, config, handled, orphaned, bounds>>

\* The engine delivers from the position or its cursor, whichever is higher.
OpenStream(r) ==
  /\ run[r].pc = "open" /\ ~run[r].stop /\ ~run[r].lost /\ ~run[r].reload
  /\ transport = "stream" /\ Current(run[r].lease)
  /\ Set(r, [run[r] EXCEPT !.pc = "reading",
                           !.streamed = Higher(run[r].position, cursor)])
  /\ UNCHANGED <<log, lease, config, handled, orphaned, bounds>>

\* A reload, a stream request or a poll meets a lease that is not current.
RequestFenced(r) ==
  /\ \/ run[r].pc = "open" /\ ~run[r].reload /\ transport = "stream"
     \/ run[r].pc = "poll"
  /\ ~run[r].stop /\ ~run[r].lost /\ ~Current(run[r].lease)
  /\ Set(r, Caught(LoseLease(run[r]), FALSE))
  /\ UNCHANGED <<log, lease, config, handled, orphaned, bounds>>

\* The engine cannot stream: the same lease serves the poll loop.
FallBack(r) ==
  /\ run[r].pc = "open" /\ ~run[r].stop /\ ~run[r].lost /\ ~run[r].reload
  /\ transport = "poll"
  /\ Set(r, [run[r] EXCEPT !.pc = "poll", !.polling = TRUE])
  /\ UNCHANGED <<log, lease, config, handled, orphaned, bounds>>

\* A reload or a stream request fails.
OpenFails(r) ==
  /\ run[r].pc = "open"
  /\ Fault
  /\ Set(r, Caught(run[r], FALSE))
  /\ UNCHANGED <<log, lease, config, handled, orphaned, ends>>

\* enqueueEvent(), and the reader's wait when it is two batches ahead.  Frames
\* that are buffered when the stream is cut or intake stops are still taken in.
Receive(r) ==
  LET f == run[r] IN
  /\ f.pc = "reading"
  /\ Len(f.pending) < 2 * BatchSize \/ Quiet(f)
  /\ \E e \in NextAfter(f.streamed) :
       LET full == Len(f.pending) + 1 >= BatchSize IN
       Set(r, [f EXCEPT !.pending = Append(@, e), !.streamed = e, !.got = e,
                        !.mark = Higher(@, e),
                        !.queued = @ \/ full, !.timer = @ \/ ~full])
  /\ UNCHANGED <<log, lease, config, handled, orphaned, bounds>>

\* Mutant of Heartbeat: the position rises at once.
HeartbeatRaises(r) ==
  LET f == run[r] IN
  /\ f.pc = "reading"
  /\ f.streamed < published /\ NextAfter(f.streamed) = {}
  /\ Set(r, [f EXCEPT !.streamed = published, !.timer = TRUE,
                      !.position = Higher(@, published)])
  /\ UNCHANGED <<log, lease, config, handled, orphaned, bounds>>

\* enqueueMark(): the engine has sent all there was up to this watermark.
Heartbeat(r) ==
  LET f == run[r] IN
  /\ f.pc = "reading"
  /\ f.streamed < published /\ NextAfter(f.streamed) = {}
  /\ Set(r, [f EXCEPT !.streamed = published, !.timer = TRUE,
                      !.mark = Higher(@, published)])
  /\ UNCHANGED <<log, lease, config, handled, orphaned, bounds>>

\* The read is over.  After a stop the frames are left to finishStop(), after a
\* lost lease they are dropped, and else a last flush follows.
Ended(f, how) ==
  LET g == [f EXCEPT !.streamed = 0, !.cut = FALSE] IN
  IF f.stop \/ f.lost
    THEN [g EXCEPT !.pc = IF f.stop THEN "ended" ELSE "drop"]
    ELSE [g EXCEPT !.pc = "final", !.how = how]

StreamCut(r) ==
  /\ run[r].pc = "reading" /\ run[r].cut
  /\ Set(r, Ended(run[r], "error"))
  /\ UNCHANGED <<log, lease, config, handled, orphaned, bounds>>

\* The engine ends a stream whose lease is not current with Aborted.
StreamFenced(r) ==
  /\ run[r].pc = "reading" /\ ~Current(run[r].lease)
  /\ Set(r, Ended(LoseLease(run[r]), "error"))
  /\ UNCHANGED <<log, lease, config, handled, orphaned, bounds>>

StreamEnds(r) ==
  /\ run[r].pc = "reading"
  /\ \/ \E how \in {"clean", "error"} :
          Fault /\ Set(r, Ended(run[r], how)) /\ UNCHANGED ends
     \/ End /\ Set(r, Ended(run[r], "fatal")) /\ UNCHANGED faults
  /\ UNCHANGED <<log, lease, config, handled, orphaned>>

\* The end of an iteration whose stream ended cleanly, or with an error.
NextIteration(f) ==
  IF f.how # "clean" THEN Caught(f, f.how = "fatal")
  ELSE IF f.stop THEN [f EXCEPT !.pc = "ended"]
  ELSE IF f.failed THEN Caught(f, FALSE)
  ELSE [f EXCEPT !.pc = "open", !.pending = <<>>, !.mark = 0, !.got = 0]

\* Mutant of CoolDown: a save that failed is taken to have changed nothing.
CoolDownOnly(r) ==
  /\ run[r].pc = "cool" /\ Quiet(run[r])
  /\ Set(r, [run[r] EXCEPT !.pc = "open", !.pending = <<>>, !.mark = 0,
                           !.got = 0, !.failed = FALSE])
  /\ UNCHANGED <<log, lease, config, handled, orphaned, bounds>>

\* The rest of the catch, and the backoff.
CoolDown(r) ==
  /\ run[r].pc = "cool" /\ Quiet(run[r])
  /\ Set(r, [run[r] EXCEPT !.pc = "open", !.pending = <<>>, !.mark = 0,
                           !.got = 0, !.reload = @ \/ run[r].failed,
                           !.failed = FALSE])
  /\ UNCHANGED <<log, lease, config, handled, orphaned, bounds>>

-----------------------------------------------------------------------------
(* flushPending(), called by the chain, by the end of an iteration and by  *)
(* finishStop(); and the batch it processes                                *)

\* A batch that `by` wants processed.  The frames arrive in order, so sorting
\* them changes nothing.
Batch(by, events, mark, global) ==
  [by   |-> by,       \* chain, end, poll, stop: whom its outcome goes to
   todo |-> events,   \* what is left of it
   mark |-> mark,     \* what the position rises to once it is committed
   at   |-> IF Managed THEN "load" ELSE "handle",
   st   |-> [p \in Parts |-> IF p = Global THEN global ELSE <<>>],
   pk   |-> Global,   \* of the run being saved: its partition,
   last |-> 0,        \* its last event,
   as   |-> 0]        \* and the lease the request carries

\* Mutant of Flushed: what comes in after a failed batch is flushed.
FlushedPast(f, by) ==
  LET g == [f EXCEPT !.timer = FALSE, !.pending = <<>>, !.mark = 0] IN
  IF f.pending = <<>> THEN [g EXCEPT !.position = Higher(@, f.mark)]
  ELSE [g EXCEPT !.batch = Batch(by, f.pending, f.mark, f.mem)]

\* flushPending() after a failed batch, with nothing pending, or with a batch.
Flushed(f, by) ==
  LET g == [f EXCEPT !.timer = FALSE, !.pending = <<>>, !.mark = 0] IN
  IF f.failed THEN g
  ELSE IF f.pending = <<>> THEN [g EXCEPT !.position = Higher(@, f.mark)]
  ELSE [g EXCEPT !.batch = Batch(by, f.pending, f.mark, f.mem)]

TimerFires(r) ==
  /\ run[r].timer /\ run[r].pc # "drop"
  /\ Set(r, [run[r] EXCEPT !.timer = FALSE, !.queued = TRUE])
  /\ UNCHANGED <<log, lease, config, handled, orphaned, bounds>>

\* Two flushes in the queue are one: the second finds what came in meanwhile,
\* for which the timer is set as well.
ChainFlush(r) ==
  /\ run[r].queued /\ run[r].batch = NoBatch
  /\ Set(r, Flushed([run[r] EXCEPT !.queued = FALSE], "chain"))
  /\ UNCHANGED <<log, lease, config, handled, orphaned, bounds>>

FinalFlush(r) ==
  /\ run[r].pc = "final" /\ Quiet(run[r])
  /\ LET f == Flushed(run[r], "end") IN
     Set(r, IF f.batch = NoBatch THEN NextIteration(f)
            ELSE [f EXCEPT !.pc = "finishing"])
  /\ UNCHANGED <<log, lease, config, handled, orphaned, bounds>>

\* The batch is committed: only now may the position rise.
BatchDone(f) ==
  LET g == [f EXCEPT !.batch = NoBatch,
                     !.position = Higher(@, f.batch.mark)] IN
  CASE f.batch.by = "chain" -> g
    [] f.batch.by = "end"   -> NextIteration(g)
    [] f.batch.by = "poll"  -> [g EXCEPT !.pc = "poll"]
    [] f.batch.by = "stop"  -> [g EXCEPT !.work = "done"]

\* It failed.  The chain cuts the stream to replay it; the end of an iteration
\* lets the stream's own error win; stop() rejects.
BatchFails(f) ==
  LET g == [f EXCEPT !.batch = NoBatch] IN
  CASE f.batch.by = "chain" ->
         Cut([g EXCEPT !.failed = TRUE, !.pending = <<>>, !.mark = 0])
    [] f.batch.by = "end"   ->
         Caught([g EXCEPT !.failed = TRUE], f.how = "fatal")
    [] f.batch.by = "poll"  ->
         [g EXCEPT !.pc = IF f.stop THEN "ended" ELSE IF f.lost THEN "drop"
                          ELSE "poll"]
    [] f.batch.by = "stop"  -> [g EXCEPT !.work = "rejected"]

\* Every partition of the batch is loaded before the first save.
LoadPartitions(r) ==
  LET b == run[r].batch IN
  /\ b # NoBatch /\ b.at = "load"
  /\ Set(r, [run[r] EXCEPT !.batch.at = "handle",
       !.batch.st = [p \in Parts |->
          IF p # Global /\ \E i \in 1 .. Len(b.todo) : Part[b.todo[i]] = p
          THEN state[p] ELSE b.st[p]]])
  /\ UNCHANGED <<log, lease, config, handled, orphaned, bounds>>

\* How many of the events to come are consecutive ones of one partition.
RunLength(s) ==
  CHOOSE n \in 1 .. Len(s) :
    /\ \A i \in 1 .. n : Part[s[i]] = Part[s[1]]
    /\ n < Len(s) => Part[s[n + 1]] # Part[s[1]]

\* The reducer runs over one run of events, and its save is sent.
Reduce(r) ==
  LET b  == run[r].batch
      n  == RunLength(b.todo)
      pk == Part[b.todo[1]]
  IN
  /\ b # NoBatch /\ Managed /\ b.at = "handle" /\ ~run[r].lost
  /\ Set(r, [run[r] EXCEPT !.batch =
       [b EXCEPT !.at = "commit", !.as = run[r].lease, !.pk = pk,
                 !.last = b.todo[n],
                 !.st[pk] = @ \o SubSeq(b.todo, 1, n),
                 !.todo = SubSeq(b.todo, n + 1, Len(b.todo))]])
  /\ UNCHANGED <<log, lease, config, handled, orphaned, bounds>>

\* The external handler has processed one event.
Handle(r) ==
  LET b == run[r].batch IN
  /\ b # NoBatch /\ ~Managed /\ b.at = "handle" /\ ~run[r].lost
  /\ b.todo # <<>>
  /\ handled' = handled \cup {Head(b.todo)}
  /\ Set(r, [run[r] EXCEPT !.batch =
       [b EXCEPT !.todo = Tail(@), !.last = Head(b.todo)]])
  /\ UNCHANGED <<log, lease, config, orphaned, bounds>>

\* It has processed them all: the acknowledgement is sent.
Acknowledge(r) ==
  LET b == run[r].batch IN
  /\ b # NoBatch /\ ~Managed /\ b.at = "handle" /\ ~run[r].lost
  /\ b.todo = <<>>
  /\ Set(r, [run[r] EXCEPT !.batch.at = "commit",
                           !.batch.as = run[r].lease])
  /\ UNCHANGED <<log, lease, config, handled, orphaned, bounds>>

\* checkLease()
BatchStops(r) ==
  /\ run[r].batch # NoBatch /\ run[r].batch.at = "handle" /\ run[r].lost
  /\ Set(r, BatchFails(run[r]))
  /\ UNCHANGED <<log, lease, config, handled, orphaned, bounds>>

\* SaveProjectionState or AckProjectionEvents at the engine.
Landed(b) ==
  /\ cursor' = b.last
  /\ state' = IF Managed THEN [state EXCEPT ![b.pk] = b.st[b.pk]] ELSE state

Saved(r) ==
  LET f == run[r]
      b == f.batch
      g == IF Managed /\ b.pk = Global THEN [f EXCEPT !.mem = b.st[Global]]
           ELSE f
  IN
  /\ b # NoBatch /\ b.at = "commit" /\ Current(b.as)
  /\ Landed(b)
  /\ Set(r, IF b.todo = <<>> THEN BatchDone(g)
            ELSE [g EXCEPT !.batch.at = "handle", !.batch.pk = Global,
                           !.batch.as = 0])
  /\ UNCHANGED <<published, lease, config, handled, orphaned, bounds>>

\* Refused: Aborted means the lease is lost, no lease at all is no such error.
SaveRefused(r) ==
  LET f == run[r] IN
  /\ f.batch # NoBatch /\ f.batch.at = "commit" /\ ~Current(f.batch.as)
  /\ Set(r, BatchFails(IF f.batch.as = 0 THEN f ELSE LoseLease(f)))
  /\ UNCHANGED <<log, lease, config, handled, orphaned, bounds>>

\* A load, the handler or the save fails.  A save may have landed all the same.
BatchFault(r) ==
  LET b == run[r].batch IN
  /\ b # NoBatch
  /\ Fault
  /\ \/ UNCHANGED <<cursor, state>>
     \/ b.at = "commit" /\ Current(b.as) /\ Landed(b)
  /\ Set(r, BatchFails(run[r]))
  /\ UNCHANGED <<published, lease, config, handled, orphaned, ends>>

-----------------------------------------------------------------------------
(* pollLoop() and poll()                                                   *)

\* Up to a batch of events, the global state as of then, and a watermark.
Poll(r) ==
  LET f      == run[r]
      events == Delivery(Higher(f.position, cursor), BatchSize)
      mark   == IF Len(events) < BatchSize THEN published
                ELSE events[Len(events)]
  IN
  /\ f.pc = "poll" /\ ~f.stop /\ ~f.lost /\ Current(f.lease)
  /\ events # <<>> \/ f.position < mark
  /\ Set(r, IF events = <<>> THEN [f EXCEPT !.position = mark]
            ELSE [f EXCEPT !.pc = "polled",
                   !.batch = Batch("poll", events, mark, state[Global])])
  /\ UNCHANGED <<log, lease, config, handled, orphaned, bounds>>

-----------------------------------------------------------------------------
(* startRenew()                                                            *)

\* The engine answers a renew with Aborted ...
RenewRefused(r) ==
  /\ Renews(run[r]) /\ ~Current(run[r].lease) /\ run[r].fenced = 0
  /\ Set(r, [run[r] EXCEPT !.fenced = run[r].lease])
  /\ UNCHANGED <<log, lease, config, handled, orphaned, bounds>>

\* Mutant of RenewHeard: whatever the answer was for, the held lease is lost.
RenewHeardLate(r) ==
  /\ run[r].fenced # 0
  /\ Set(r, LoseLease([run[r] EXCEPT !.fenced = 0]))
  /\ UNCHANGED <<log, lease, config, handled, orphaned, bounds>>

\* ... and the answer arrives: late, it must not touch the next grant.
RenewHeard(r) ==
  LET f == [run[r] EXCEPT !.fenced = 0] IN
  /\ run[r].fenced # 0
  /\ Set(r, IF Renews(f) /\ run[r].fenced = f.lease THEN LoseLease(f) ELSE f)
  /\ UNCHANGED <<log, lease, config, handled, orphaned, bounds>>

-----------------------------------------------------------------------------
(* stop(), finishStop() and the other ends of a runner                     *)

Stop(r) ==
  /\ run[r].pc # "dead" /\ ~run[r].stop
  /\ End
  /\ Set(r, Cut([run[r] EXCEPT !.stop = TRUE, !.timer = FALSE,
                               !.work = "wait"]))
  /\ UNCHANGED <<log, lease, config, handled, orphaned, faults>>

\* Mutant of FinishWork: what has come in is not flushed.
FinishWorkAtOnce(r) ==
  /\ run[r].work = "wait" /\ run[r].pc = "ended" /\ Quiet(run[r])
  /\ Set(r, [run[r] EXCEPT !.work = "done"])
  /\ UNCHANGED <<log, lease, config, handled, orphaned, bounds>>

\* The run and the chain have ended: the final save, unless the lease is lost.
FinishWork(r) ==
  LET f == Flushed(run[r], "stop") IN
  /\ run[r].work = "wait" /\ run[r].pc = "ended" /\ Quiet(run[r])
  /\ Set(r, IF run[r].lost THEN [Dropped(run[r]) EXCEPT !.work = "done"]
            ELSE IF f.batch = NoBatch THEN [f EXCEPT !.work = "done"]
            ELSE [f EXCEPT !.work = "flush"])
  /\ UNCHANGED <<log, lease, config, handled, orphaned, bounds>>

\* releaseLease(): the lease is forgotten, and freed unless the request is lost.
Release(r, g) ==
  /\ Set(r, [g EXCEPT !.lease = 0])
  /\ \/ /\ holder' = IF Current(run[r].lease) THEN NoRunner ELSE holder
        /\ UNCHANGED <<orphaned, faults>>
     \/ /\ Fault /\ run[r].lease # 0
        /\ orphaned' = orphaned \cup {run[r].lease}
        /\ UNCHANGED holder
  /\ UNCHANGED <<log, epoch, config, handled, ends>>

\* After the final save, which a Release first would fence, or under it once
\* the bound has passed.
StopReleases(r) ==
  /\ run[r].work \in {"done", "rejected"} \/ run[r].late
  /\ run[r].stop /\ ~run[r].released
  /\ Release(r, [run[r] EXCEPT !.released = TRUE])

\* The bound: the final batch is abandoned.  (An Acquire under way has been
\* aborted by then.)
StopTimesOut(r) ==
  /\ run[r].work \in {"wait", "flush"} /\ ~run[r].late
  /\ run[r].pc # "standby"
  /\ Set(r, [run[r] EXCEPT !.late = TRUE])
  /\ UNCHANGED <<log, lease, config, handled, orphaned, bounds>>

\* An error that no retry fixes, outside a stream: the credential, the server's
\* version, the projection's configuration, a refused delivery.
Fatal(r) ==
  /\ run[r].pc \in {"register", "standby", "load", "open", "poll"}
  /\ ~run[r].stop /\ ~run[r].lost
  /\ End
  /\ Set(r, [run[r] EXCEPT !.pc = "release"])
  /\ UNCHANGED <<log, lease, config, handled, orphaned, faults>>

\* runLeased()'s finally: stop() releases after its own final save.
RunEnds(r) ==
  /\ run[r].pc = "release"
  /\ LET f == [run[r] EXCEPT !.pc = "ended"] IN
     \/ ~run[r].stop /\ Release(r, f)
     \/ /\ run[r].stop /\ Set(r, f)
        /\ UNCHANGED <<log, lease, config, handled, orphaned, bounds>>

\* The process dies; a save it has sent has landed before, or never does.
Crash(r) ==
  /\ run[r].pc # "dead"
  /\ End
  /\ Set(r, [Fresh EXCEPT !.pc = "dead"])
  /\ UNCHANGED <<log, lease, config, handled, orphaned, faults>>

-----------------------------------------------------------------------------

\* The main coroutine.
Main(r) ==
  \/ Register(r) \/ Acquire(r) \/ StandbyStops(r) \/ LoadState(r)
  \/ LeaveLoop(r) \/ ReloadState(r) \/ OpenStream(r) \/ RequestFenced(r)
  \/ FallBack(r) \/ Receive(r) \/ Heartbeat(r) \/ StreamCut(r)
  \/ StreamFenced(r) \/ FinalFlush(r) \/ CoolDown(r) \/ Poll(r) \/ DropGrant(r)
  \/ RunEnds(r)

\* A flush.
Flush(r) ==
  \/ ChainFlush(r) \/ LoadPartitions(r) \/ Reduce(r) \/ Handle(r)
  \/ Acknowledge(r) \/ BatchStops(r) \/ Saved(r) \/ SaveRefused(r)

Renew(r) == RenewRefused(r) \/ RenewHeard(r)

StopWork(r) == FinishWork(r) \/ StopReleases(r)

\* What may happen to a runner.
Misfortune(r) ==
  \/ AcquireUnheard(r) \/ OpenFails(r) \/ StreamEnds(r) \/ BatchFault(r)
  \/ Stop(r) \/ StopTimesOut(r) \/ Fatal(r) \/ Crash(r)

\* All may rest once everything published is saved and nobody holds a lease it
\* does not renew.
Rest ==
  /\ NextAfter(cursor) = {} \/ \A r \in Runners : run[r].pc \in {"ended", "dead"}
  /\ UNCHANGED vars

Next ==
  \/ \E r \in Runners : Main(r) \/ Flush(r) \/ TimerFires(r) \/ Renew(r)
                        \/ StopWork(r) \/ Misfortune(r)
  \/ Publish \/ ExpireAbandoned \/ ExpireLate
  \/ Rest

Spec == Init /\ [][Next]_vars

-----------------------------------------------------------------------------
(* Fairness.  Requests are answered, timers fire and streams deliver; the  *)
(* lease of a holder that no longer renews it expires.                     *)

Fair(k, r) ==
  CASE k = 1 -> Main(r)        [] k = 2 -> Flush(r)
    [] k = 3 -> TimerFires(r)  [] k = 4 -> Renew(r)
    [] k = 5 -> StopWork(r)    [] k = 6 -> ExpireAbandoned
    [] OTHER -> FALSE

Fairness == \A k \in 1 .. 6, r \in Runners : WF_vars(Fair(k, r))

FairSpec == Spec /\ Fairness

-----------------------------------------------------------------------------
(* Properties                                                              *)

Phases == {"register", "standby", "load", "open", "reading", "final",
           "finishing", "cool", "poll", "polled", "drop", "release", "ended",
           "dead"}

RunnerTypes(f) ==
  /\ f.pc \in Phases /\ f.how \in {"clean", "error", "fatal"}
  /\ f.work \in {"none", "wait", "flush", "done", "rejected"}
  /\ {f.stop, f.late, f.released, f.polling, f.lost, f.reload, f.failed, f.timer,
      f.queued, f.cut} \subseteq BOOLEAN
  /\ {f.lease, f.fenced} \subseteq 0 .. epoch
  /\ f.mem \in Seq(Matching) /\ f.pending \in Seq(Matching)
  /\ \A i \in 1 .. Len(f.pending) - 1 : f.pending[i] < f.pending[i + 1]
  /\ {f.mark, f.position, f.streamed, f.got} \subseteq 0 .. N
  /\ f.batch # NoBatch => f.batch \in Batches /\ f.batch.as <= epoch

\* Every variable keeps to its type, and frames are pending in order.
TypeOK ==
  /\ published \in 0 .. N /\ cursor \in 0 .. N
  /\ state \in [Parts -> Seq(Matching)]
  /\ epoch \in Nat /\ holder \in Runners \cup {NoRunner}
  /\ mode \in Modes /\ transport \in Transports
  /\ \A r \in Runners : RunnerTypes(run[r])
  /\ handled \subseteq Matching /\ orphaned \subseteq 0 .. epoch
  /\ faults \in 0 .. MaxFaults /\ ends \in 0 .. MaxEnds

\* The events of S up to c that are in partition p, in order.
UpTo(S, p, c) ==
  LET f[n \in 0 .. c] ==
        IF n = 0 THEN <<>>
        ELSE IF n \in S /\ Part[n] = p THEN Append(f[n - 1], n)
        ELSE f[n - 1]
  IN  f[c]

\* Managed: whatever was lost, retried or taken over, the saved state of every
\* partition is the events up to the cursor, each folded once and in order.
EventsFoldedOnce ==
  Managed => \A p \in Parts : state[p] = UpTo(Matching, p, cursor)

\* A projection: what is folded into its partitions, and how far.  An external
\* one has no state; it counts as folded what is handled.
Fold == INSTANCE ProjectionFold WITH
  state <- IF Managed THEN state
           ELSE [p \in Parts |-> UpTo(handled, p, cursor)]

\* Whatever is lost, late or taken over, the runners do what a projection does:
\* they fold each event once and in order, and move the cursor no further.
FoldSpec == Fold!Spec

\* External: the cursor never passes an event that no handler has processed.
NothingSkipped == ~Managed => \A e \in Matching : e <= cursor => e \in handled

\* The delivery position of whoever holds the lease, from which the engine will
\* deliver, never passes an event that is not saved.
PositionCovered ==
  \A r \in Runners : Current(run[r].lease) =>
    \A e \in Matching : e <= run[r].position => e <= cursor

\* stop() "waits for accepted events to finish saving": when its work is done,
\* without a failed batch, every frame taken in is saved.
StopSaves ==
  \A r \in Runners :
    run[r].work = "done" /\ ~run[r].failed /\ ~run[r].lost =>
      run[r].got <= cursor

\* A runner that stop() has stopped keeps no lease from the standbys, unless
\* the answer to its Acquire or the request to release was lost.
StoppedReleases ==
  \A r \in Runners :
    run[r].released => run[r].lease = 0 /\ (holder = r => epoch \in orphaned)

\* A runner takes only a lease for lost that the engine has fenced: no answer to
\* a renew or a save of an earlier grant ends a later one.
LostIsFenced ==
  \A r \in Runners : run[r].lost => ~Current(run[r].lease)

\* Someone runs on.
Survivor == \E r \in Runners : run[r].pc \notin {"release", "ended", "dead"}
                               /\ ~run[r].stop

\* While some runner runs on, every event published is folded or handled.
Processed(e) == published >= e /\ Survivor => cursor >= e

EveryEventProcessed == \A e \in Matching : []<>Processed(e)

=============================================================================
