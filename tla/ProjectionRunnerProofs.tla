----------------------- MODULE ProjectionRunnerProofs -----------------------
(***************************************************************************)
(* What TLAPS proves of ProjectionRunner for any runners, log, partitions, *)
(* batch size, faults and ends, in four parts:                             *)
(*                                                                         *)
(*  - LeaseInv, what a runner knows of its lease: it takes for lost only a *)
(*    lease that the engine has fenced;                                    *)
(*  - ShapeInv, what may be under way in each phase, and who holds the     *)
(*    lease: a runner that has stopped keeps it from nobody;               *)
(*  - TypeInv, the types of all it keeps, which needs what a delivery, a   *)
(*    run of a batch and the recursion that defines them return;           *)
(*  - FlowInv, where the events of the log are, from their delivery to     *)
(*    their save.                                                          *)
(*                                                                         *)
(* Each is inductive given those before it.                                *)
(***************************************************************************)
EXTENDS ProjectionRunner, TLAPS,
        SequenceTheorems, WellFoundedInduction, NaturalsInduction

\* The fields of a runner and of a batch.
Fields == {"pc", "how", "stop", "work", "late", "released", "polling", "lease",
           "lost", "fenced", "mem", "reload", "failed", "pending", "mark",
           "timer", "queued", "position", "streamed", "cut", "got", "batch"}

BatchFields == {"by", "todo", "mark", "at", "st", "pk", "last", "as"}

\* Under the last epoch e, held by h, the engine refuses the lease l.
Fenced(l, e, h) == ~(l # 0 /\ l = e /\ h # NoRunner)

\* A batch under way carries the lease l of its runner, or the runner has let
\* go of it since: never the lease of another grant.
BatchInv(b, l, e) ==
  /\ DOMAIN b = BatchFields
  /\ b.by \in {"chain", "end", "poll", "stop"}
  /\ b.as \in 0 .. e
  /\ b.as # 0 => l \in {0, b.as}

\* A refusal that is on its way to the runner is of a fenced lease, and so is the
\* lease it has lost.  In standby it has none, and no flush is left that could
\* carry an old one into the next grant.
RunnerInv(f, e, h) ==
  /\ DOMAIN f = Fields
  /\ f.lease \in 0 .. e /\ f.fenced \in 0 .. e
  /\ f.fenced # 0 => Fenced(f.fenced, e, h)
  /\ f.lost => Fenced(f.lease, e, h)
  /\ f.batch # NoBatch => BatchInv(f.batch, f.lease, e)
  /\ f.pc \in {"register", "standby"} =>
       f.lease = 0 /\ ~f.lost /\ Quiet(f) /\ ~f.timer

\* The inductive strengthening of LostIsFenced.
LeaseInv ==
  /\ epoch \in Nat
  /\ DOMAIN run = Runners
  /\ \A r \in Runners : RunnerInv(run[r], epoch, holder)

\* A step of one runner that at most frees the lease: what is fenced stays so.
LEMMA StepOfOne ==
  ASSUME LeaseInv, NEW r \in Runners, NEW g, Set(r, g),
         epoch' = epoch, holder' \in {holder, NoRunner},
         RunnerInv(g, epoch, holder)
  PROVE  LeaseInv'
<1>1. epoch' \in Nat /\ DOMAIN run' = Runners
  BY DEF LeaseInv, Set
<1>2. ASSUME NEW q \in Runners PROVE RunnerInv(run'[q], epoch', holder')
  <2>1. RunnerInv(run'[q], epoch, holder)
    BY DEF LeaseInv, Set
  <2>2. ASSUME NEW f, RunnerInv(f, epoch, holder)
        PROVE  RunnerInv(f, epoch', holder')
    BY <2>2 DEF RunnerInv, Fenced
  <2> QED BY <2>1, <2>2
<1> QED BY <1>1, <1>2 DEF LeaseInv

\* lost()
LEMMA LosesLease ==
  ASSUME NEW e \in Nat, NEW h, NEW f, RunnerInv(f, e, h), Fenced(f.lease, e, h)
  PROVE  RunnerInv(LoseLease(f), e, h)
BY DEF RunnerInv, LoseLease, Cut, Quiet, Fields

\* The catch of streamLoop() changes only where the runner goes.
LEMMA CaughtInv ==
  ASSUME NEW e \in Nat, NEW h, NEW f, RunnerInv(f, e, h), NEW x
  PROVE  RunnerInv(Caught(f, x), e, h)
BY DEF RunnerInv, Caught, Quiet, Fields

\* The end of a read changes only the stream.
LEMMA EndedInv ==
  ASSUME NEW e \in Nat, NEW h, NEW f, RunnerInv(f, e, h), NEW how
  PROVE  RunnerInv(Ended(f, how), e, h)
BY DEF RunnerInv, Ended, Quiet, Fields

\* The end of an iteration.
LEMMA NextIterationInv ==
  ASSUME NEW e \in Nat, NEW h, NEW f, RunnerInv(f, e, h)
  PROVE  RunnerInv(NextIteration(f), e, h)
<1>1. CASE f.how # "clean"
  BY <1>1, CaughtInv DEF NextIteration
<1>2. CASE f.how = "clean" /\ f.stop
  BY <1>2 DEF NextIteration, RunnerInv, Quiet, Fields
<1>3. CASE f.how = "clean" /\ ~f.stop /\ f.failed
  BY <1>3, CaughtInv DEF NextIteration
<1>4. CASE f.how = "clean" /\ ~f.stop /\ ~f.failed
  BY <1>4 DEF NextIteration, RunnerInv, Quiet, Fields
<1> QED BY <1>1, <1>2, <1>3, <1>4

\* A failed batch is forgotten, whoever flushed it.
LEMMA BatchFailsInv ==
  ASSUME NEW e \in Nat, NEW h, NEW f, RunnerInv(f, e, h), f.batch # NoBatch
  PROVE  RunnerInv(BatchFails(f), e, h)
<1> DEFINE g == [f EXCEPT !.batch = NoBatch]
<1>1. RunnerInv(g, e, h) /\ g.pc \notin {"register", "standby"}
  BY DEF RunnerInv, Quiet, Fields
<1>2. CASE f.batch.by = "chain"
  <2>1. BatchFails(f) = Cut([g EXCEPT !.failed = TRUE, !.pending = <<>>, !.mark = 0])
    BY <1>2 DEF BatchFails
  <2> QED BY <1>1, <2>1 DEF RunnerInv, Cut, Quiet, Fields
<1>3. CASE f.batch.by = "end"
  <2>1. BatchFails(f) = Caught([g EXCEPT !.failed = TRUE], f.how = "fatal")
    BY <1>3 DEF BatchFails
  <2>2. RunnerInv([g EXCEPT !.failed = TRUE], e, h)
    BY <1>1 DEF RunnerInv, Quiet, Fields
  <2> QED BY <2>1, <2>2, CaughtInv
<1>4. CASE f.batch.by = "poll"
  BY <1>1, <1>4 DEF BatchFails, RunnerInv, Quiet, Fields
<1>5. CASE f.batch.by = "stop"
  BY <1>1, <1>5 DEF BatchFails, RunnerInv, Quiet, Fields
<1> QED BY <1>2, <1>3, <1>4, <1>5 DEF RunnerInv, BatchInv

\* A batch that is started carries no lease yet.
LEMMA FlushedInv ==
  ASSUME NEW e \in Nat, NEW h, NEW f, RunnerInv(f, e, h),
         f.pc \notin {"register", "standby"},
         NEW by \in {"chain", "end", "poll", "stop"}
  PROVE  RunnerInv(Flushed(f, by), e, h)
<1> DEFINE g == [f EXCEPT !.timer = FALSE, !.pending = <<>>, !.mark = 0]
<1>1. RunnerInv(g, e, h) /\ g.pc = f.pc
  BY DEF RunnerInv, Quiet, Fields
<1>2. CASE f.failed
  BY <1>1, <1>2 DEF Flushed
<1>3. CASE ~f.failed /\ f.pending = <<>>
  <2>1. Flushed(f, by) = [g EXCEPT !.position = Higher(@, f.mark)]
    BY <1>3 DEF Flushed
  <2> QED BY <1>1, <2>1 DEF RunnerInv, Quiet, Fields
<1>4. CASE ~f.failed /\ f.pending # <<>>
  <2> DEFINE b == Batch(by, f.pending, f.mark, f.mem)
  <2>1. BatchInv(b, f.lease, e)
    BY DEF Batch, BatchInv, BatchFields
  <2>2. Flushed(f, by) = [g EXCEPT !.batch = b]
    BY <1>4 DEF Flushed
  <2> HIDE DEF b
  <2> QED BY <1>1, <2>1, <2>2 DEF RunnerInv, Quiet, Fields
<1> QED BY <1>2, <1>3, <1>4

\* A committed batch is forgotten, whoever flushed it.
LEMMA BatchDoneInv ==
  ASSUME NEW e \in Nat, NEW h, NEW f, RunnerInv(f, e, h), f.batch # NoBatch
  PROVE  RunnerInv(BatchDone(f), e, h)
<1> DEFINE g == [f EXCEPT !.batch = NoBatch,
                          !.position = Higher(@, f.batch.mark)]
<1>1. RunnerInv(g, e, h) /\ g.pc \notin {"register", "standby"}
  BY DEF RunnerInv, Quiet, Fields
<1>2. CASE f.batch.by = "chain"
  BY <1>1, <1>2 DEF BatchDone
<1>3. CASE f.batch.by = "end"
  <2>1. BatchDone(f) = NextIteration(g)
    BY <1>3 DEF BatchDone
  <2> QED BY <1>1, <2>1, NextIterationInv
<1>4. CASE f.batch.by = "poll"
  <2>1. BatchDone(f) = [g EXCEPT !.pc = "poll"]
    BY <1>4 DEF BatchDone
  <2> QED BY <1>1, <2>1 DEF RunnerInv, Quiet, Fields
<1>5. CASE f.batch.by = "stop"
  <2>1. BatchDone(f) = [g EXCEPT !.work = "done"]
    BY <1>5 DEF BatchDone
  <2> QED BY <1>1, <2>1 DEF RunnerInv, Quiet, Fields
<1> QED BY <1>2, <1>3, <1>4, <1>5 DEF RunnerInv, BatchInv

\* dropGrant() once the chain is quiet: nothing of the grant is left.
LEMMA DroppedInv ==
  ASSUME NEW e \in Nat, NEW h, NEW f, RunnerInv(f, e, h), Quiet(f)
  PROVE  /\ RunnerInv(Dropped(f), e, h)
         /\ RunnerInv([Dropped(f) EXCEPT !.pc = "standby"], e, h)
         /\ RunnerInv([Dropped(f) EXCEPT !.work = "done"], e, h)
<1> DEFINE g == Dropped(f)
<1>1. /\ DOMAIN g = Fields /\ g.lease = 0 /\ ~g.lost /\ ~g.timer
      /\ g.fenced = f.fenced /\ g.batch = f.batch /\ g.queued = f.queued
      /\ g.pc = f.pc
  BY DEF RunnerInv, Dropped, Fields
<1> HIDE DEF g
<1>2. RunnerInv(g, e, h)
  BY <1>1 DEF RunnerInv, Quiet, Fields
<1>3. RunnerInv([g EXCEPT !.pc = "standby"], e, h)
  BY <1>1, <1>2 DEF RunnerInv, Quiet, Fields
<1>4. RunnerInv([g EXCEPT !.work = "done"], e, h)
  BY <1>2 DEF RunnerInv, Quiet, Fields
<1> QED BY <1>2, <1>3, <1>4 DEF g

\* A new epoch fences every earlier lease, whether its grant is heard or not.
LEMMA GrantInv ==
  ASSUME LeaseInv, NEW r \in Runners, run[r].pc = "standby",
         epoch' = epoch + 1,
         \/ Set(r, Granted(run[r], epoch + 1))
         \/ UNCHANGED run
  PROVE  LeaseInv'
<1>1. epoch' \in Nat /\ DOMAIN run' = Runners
  BY DEF LeaseInv, Set
<1>2. ASSUME NEW q \in Runners PROVE RunnerInv(run'[q], epoch', holder')
  <2>1. RunnerInv(run[q], epoch', holder')
    BY DEF LeaseInv, RunnerInv, Fenced, BatchInv
  <2>2. CASE run'[q] = run[q]
    BY <2>1, <2>2
  <2>3. CASE q = r /\ run'[q] = Granted(run[r], epoch + 1)
    <3>1. epoch' # 0 /\ epoch' \in Nat
      BY DEF LeaseInv
    <3> QED BY <2>1, <2>3, <3>1 DEF RunnerInv, Granted, Quiet, Fields, Fenced
  <2> QED BY <2>2, <2>3 DEF Set, LeaseInv
<1> QED BY <1>1, <1>2 DEF LeaseInv

\* Every step of the main coroutine keeps the invariant.
LEMMA MainKeeps ==
  ASSUME LeaseInv, NEW r \in Runners, Main(r)
  PROVE  LeaseInv'
<1> DEFINE f == run[r]
<1>f. RunnerInv(f, epoch, holder) /\ epoch \in Nat
  BY DEF LeaseInv
<1> USE DEF lease
<1>1. CASE Register(r)
  <2> DEFINE g == [f EXCEPT !.pc = IF f.stop THEN "ended" ELSE "standby"]
  <2>1. RunnerInv(g, epoch, holder)
    BY <1>f, <1>1 DEF Register, RunnerInv, Quiet, Fields
  <2>2. Set(r, g) /\ UNCHANGED lease
    BY <1>1 DEF Register
  <2> QED BY <2>1, <2>2, StepOfOne
<1>2. CASE Acquire(r)
  BY <1>2, GrantInv DEF Acquire
<1>3. CASE StandbyStops(r)
  <2> DEFINE g == [f EXCEPT !.pc = "ended"]
  <2>1. RunnerInv(g, epoch, holder)
    BY <1>f DEF RunnerInv, Quiet, Fields
  <2>2. Set(r, g) /\ UNCHANGED lease
    BY <1>3 DEF StandbyStops
  <2> QED BY <2>1, <2>2, StepOfOne
<1>4. CASE LoadState(r)
  <2> DEFINE g == [f EXCEPT !.pc = "open",
                            !.mem = IF Managed THEN state[Global] ELSE @]
  <2>1. RunnerInv(g, epoch, holder)
    BY <1>f DEF RunnerInv, Quiet, Fields
  <2>2. Set(r, g) /\ UNCHANGED lease
    BY <1>4 DEF LoadState
  <2> QED BY <2>1, <2>2, StepOfOne
<1>5. CASE LeaveLoop(r)
  <2> DEFINE g == [f EXCEPT !.pc = IF f.stop THEN "ended" ELSE "drop"]
  <2>1. RunnerInv(g, epoch, holder)
    BY <1>f DEF RunnerInv, Quiet, Fields
  <2>2. Set(r, g) /\ UNCHANGED lease
    BY <1>5 DEF LeaveLoop
  <2> QED BY <2>1, <2>2, StepOfOne
<1>6. CASE ReloadState(r)
  <2> DEFINE g == [f EXCEPT !.reload = FALSE,
                            !.mem = IF Managed THEN state[Global] ELSE @]
  <2>1. RunnerInv(g, epoch, holder)
    BY <1>f DEF RunnerInv, Quiet, Fields
  <2>2. Set(r, g) /\ UNCHANGED lease
    BY <1>6 DEF ReloadState
  <2> QED BY <2>1, <2>2, StepOfOne
<1>7. CASE OpenStream(r)
  <2> DEFINE g == [f EXCEPT !.pc = "reading",
                            !.streamed = Higher(f.position, cursor)]
  <2>1. RunnerInv(g, epoch, holder)
    BY <1>f DEF RunnerInv, Quiet, Fields
  <2>2. Set(r, g) /\ UNCHANGED lease
    BY <1>7 DEF OpenStream
  <2> QED BY <2>1, <2>2, StepOfOne
<1>8. CASE RequestFenced(r)
  <2>1. Fenced(f.lease, epoch, holder)
    BY <1>8 DEF RequestFenced, Current, Fenced
  <2>2. RunnerInv(Caught(LoseLease(f), FALSE), epoch, holder)
    BY <1>f, <2>1, LosesLease, CaughtInv
  <2>3. Set(r, Caught(LoseLease(f), FALSE)) /\ UNCHANGED lease
    BY <1>8 DEF RequestFenced
  <2> QED BY <2>2, <2>3, StepOfOne
<1>9. CASE FallBack(r)
  <2> DEFINE g == [f EXCEPT !.pc = "poll", !.polling = TRUE]
  <2>1. RunnerInv(g, epoch, holder)
    BY <1>f DEF RunnerInv, Quiet, Fields
  <2>2. Set(r, g) /\ UNCHANGED lease
    BY <1>9 DEF FallBack
  <2> QED BY <2>1, <2>2, StepOfOne
<1>10. CASE Receive(r)
  <2>1. PICK e \in NextAfter(f.streamed) :
          LET full == Len(f.pending) + 1 >= BatchSize IN
          Set(r, [f EXCEPT !.pending = Append(@, e), !.streamed = e, !.got = e,
                           !.mark = Higher(@, e),
                           !.queued = @ \/ full, !.timer = @ \/ ~full])
    BY <1>10 DEF Receive
  <2> DEFINE full == Len(f.pending) + 1 >= BatchSize
             g == [f EXCEPT !.pending = Append(@, e), !.streamed = e, !.got = e,
                            !.mark = Higher(@, e),
                            !.queued = @ \/ full, !.timer = @ \/ ~full]
  <2> HIDE DEF full
  <2>2. RunnerInv(g, epoch, holder)
    BY <1>f, <1>10 DEF RunnerInv, Quiet, Fields, Receive
  <2>3. Set(r, g) /\ UNCHANGED lease
    BY <1>10, <2>1 DEF Receive, full
  <2> QED BY <2>2, <2>3, StepOfOne
<1>11. CASE Heartbeat(r)
  <2> DEFINE g == [f EXCEPT !.streamed = published, !.timer = TRUE,
                            !.mark = Higher(@, published)]
  <2>1. RunnerInv(g, epoch, holder)
    BY <1>f, <1>11 DEF RunnerInv, Quiet, Fields, Heartbeat
  <2>2. Set(r, g) /\ UNCHANGED lease
    BY <1>11 DEF Heartbeat
  <2> QED BY <2>1, <2>2, StepOfOne
<1>12. CASE StreamCut(r)
  BY <1>f, <1>12, EndedInv, StepOfOne DEF StreamCut
<1>13. CASE StreamFenced(r)
  <2>1. Fenced(f.lease, epoch, holder)
    BY <1>13 DEF StreamFenced, Current, Fenced
  <2>2. RunnerInv(Ended(LoseLease(f), "error"), epoch, holder)
    BY <1>f, <2>1, LosesLease, EndedInv
  <2> QED BY <1>13, <2>2, StepOfOne DEF StreamFenced
<1>14. CASE FinalFlush(r)
  <2> DEFINE g == Flushed(f, "end")
  <2>1. RunnerInv(g, epoch, holder)
    BY <1>f, <1>14, FlushedInv DEF FinalFlush
  <2>2. RunnerInv(NextIteration(g), epoch, holder)
    BY <1>f, <2>1, NextIterationInv
  <2>3. RunnerInv([g EXCEPT !.pc = "finishing"], epoch, holder)
    <3> HIDE DEF g
    <3> QED BY <2>1 DEF RunnerInv, Quiet, Fields
  <2>4. \/ Set(r, NextIteration(g))
        \/ Set(r, [g EXCEPT !.pc = "finishing"])
    BY <1>14 DEF FinalFlush
  <2>5. UNCHANGED lease
    BY <1>14 DEF FinalFlush
  <2> QED BY <2>2, <2>3, <2>4, <2>5, StepOfOne
<1>15. CASE CoolDown(r)
  <2> DEFINE g == [f EXCEPT !.pc = "open", !.pending = <<>>, !.mark = 0,
                            !.got = 0, !.reload = @ \/ f.failed,
                            !.failed = FALSE]
  <2>1. RunnerInv(g, epoch, holder)
    BY <1>f DEF RunnerInv, Quiet, Fields
  <2>2. Set(r, g) /\ UNCHANGED lease
    BY <1>15 DEF CoolDown
  <2> QED BY <2>1, <2>2, StepOfOne
<1>16. CASE Poll(r)
  <2> DEFINE events == Delivery(Higher(f.position, cursor), BatchSize)
             mark == IF Len(events) < BatchSize THEN published
                     ELSE events[Len(events)]
             b == Batch("poll", events, mark, state[Global])
  <2>1. BatchInv(b, f.lease, epoch)
    BY <1>f DEF Batch, BatchInv, BatchFields
  <2>2. \/ Set(r, [f EXCEPT !.position = mark])
        \/ Set(r, [f EXCEPT !.pc = "polled", !.batch = b])
    BY <1>16 DEF Poll
  <2>3. UNCHANGED lease
    BY <1>16 DEF Poll
  <2> HIDE DEF b, mark
  <2>4. RunnerInv([f EXCEPT !.position = mark], epoch, holder)
    BY <1>f DEF RunnerInv, Quiet, Fields
  <2>5. RunnerInv([f EXCEPT !.pc = "polled", !.batch = b], epoch, holder)
    BY <1>f, <2>1 DEF RunnerInv, Quiet, Fields
  <2> QED BY <2>2, <2>3, <2>4, <2>5, StepOfOne
<1>17. CASE DropGrant(r)
  <2>1. RunnerInv([Dropped(f) EXCEPT !.pc = "standby"], epoch, holder)
    BY <1>f, <1>17, DroppedInv DEF DropGrant
  <2> QED BY <1>17, <2>1, StepOfOne DEF DropGrant
<1>18. CASE RunEnds(r)
  <2> DEFINE g == [f EXCEPT !.pc = "ended"]
  <2>1. RunnerInv(g, epoch, holder) /\ RunnerInv([g EXCEPT !.lease = 0], epoch, holder)
    BY <1>f DEF RunnerInv, Quiet, Fields, Fenced, BatchInv
  <2>2. \/ Set(r, g) /\ UNCHANGED lease
        \/ Set(r, [g EXCEPT !.lease = 0]) /\ epoch' = epoch
             /\ holder' \in {holder, NoRunner}
    BY <1>18 DEF RunEnds, Release
  <2> QED BY <2>1, <2>2, StepOfOne
<1> QED BY <1>1, <1>2, <1>3, <1>4, <1>5, <1>6, <1>7, <1>8, <1>9, <1>10, <1>11,
   <1>12, <1>13, <1>14, <1>15, <1>16, <1>17, <1>18 DEF Main

\* Every step of a flush keeps it: a refused save is of the held lease or of none.
LEMMA FlushKeeps ==
  ASSUME LeaseInv, NEW r \in Runners, Flush(r) \/ TimerFires(r)
  PROVE  LeaseInv'
<1> DEFINE f == run[r]
           b == run[r].batch
<1>f. RunnerInv(f, epoch, holder) /\ epoch \in Nat
  BY DEF LeaseInv
<1>b. ASSUME NEW c, BatchInv(c, f.lease, epoch), b # NoBatch
      PROVE  RunnerInv([f EXCEPT !.batch = c], epoch, holder)
  BY <1>f, <1>b DEF RunnerInv, Quiet, Fields
<1>k. b # NoBatch => BatchInv(b, f.lease, epoch)
  BY <1>f DEF RunnerInv
<1> USE DEF lease
<1>1. CASE ChainFlush(r)
  <2> DEFINE g == [f EXCEPT !.queued = FALSE]
  <2>1. RunnerInv(g, epoch, holder) /\ g.pc \notin {"register", "standby"}
    BY <1>f, <1>1 DEF RunnerInv, Quiet, Fields, ChainFlush
  <2>2. Set(r, Flushed(g, "chain")) /\ UNCHANGED lease
    BY <1>1 DEF ChainFlush
  <2> HIDE DEF g
  <2> QED BY <1>f, <2>1, <2>2, FlushedInv, StepOfOne
<1>2. CASE LoadPartitions(r)
  <2> DEFINE st == [p \in Parts |->
          IF p # Global /\ \E i \in 1 .. Len(b.todo) : Part[b.todo[i]] = p
          THEN state[p] ELSE b.st[p]]
             c == [b EXCEPT !.at = "handle", !.st = st]
  <2>1. Set(r, [f EXCEPT !.batch = c]) /\ UNCHANGED lease /\ b # NoBatch
    <3>1. [f EXCEPT !.batch.at = "handle", !.batch.st = st]
            = [f EXCEPT !.batch = c]
      BY <1>f DEF RunnerInv, Fields
    <3> QED BY <1>2, <3>1 DEF LoadPartitions
  <2>2. BatchInv(c, f.lease, epoch)
    BY <1>k, <2>1 DEF BatchInv, BatchFields
  <2> HIDE DEF c
  <2> QED BY <1>b, <2>1, <2>2, StepOfOne
<1>3. CASE Reduce(r)
  <2> DEFINE n == RunLength(b.todo)
             pk == Part[b.todo[1]]
             c == [b EXCEPT !.at = "commit", !.as = run[r].lease, !.pk = pk,
                 !.last = b.todo[n],
                 !.st[pk] = @ \o SubSeq(b.todo, 1, n),
                 !.todo = SubSeq(b.todo, n + 1, Len(b.todo))]
  <2>1. Set(r, [f EXCEPT !.batch = c]) /\ UNCHANGED lease /\ b # NoBatch
    BY <1>3 DEF Reduce
  <2>2. BatchInv(c, f.lease, epoch)
    <3>1. DOMAIN c = BatchFields /\ c.by = b.by /\ c.as = f.lease
      BY <1>k, <2>1 DEF BatchInv, BatchFields
    <3> HIDE DEF c
    <3> QED BY <1>f, <1>k, <2>1, <3>1 DEF BatchInv, RunnerInv
  <2> HIDE DEF c
  <2> QED BY <1>b, <2>1, <2>2, StepOfOne
<1>4. CASE Handle(r)
  <2> DEFINE c == [b EXCEPT !.todo = Tail(@), !.last = Head(b.todo)]
  <2>1. Set(r, [f EXCEPT !.batch = c]) /\ UNCHANGED lease /\ b # NoBatch
    BY <1>4 DEF Handle
  <2>2. BatchInv(c, f.lease, epoch)
    BY <1>k, <2>1 DEF BatchInv, BatchFields
  <2> HIDE DEF c
  <2> QED BY <1>b, <2>1, <2>2, StepOfOne
<1>5. CASE Acknowledge(r)
  <2> DEFINE c == [b EXCEPT !.at = "commit", !.as = f.lease]
  <2>1. Set(r, [f EXCEPT !.batch = c]) /\ UNCHANGED lease /\ b # NoBatch
    <3>1. [f EXCEPT !.batch.at = "commit", !.batch.as = f.lease]
            = [f EXCEPT !.batch = c]
      BY <1>f DEF RunnerInv, Fields
    <3> QED BY <1>5, <3>1 DEF Acknowledge
  <2>2. BatchInv(c, f.lease, epoch)
    BY <1>f, <1>k, <2>1 DEF BatchInv, BatchFields, RunnerInv
  <2> HIDE DEF c
  <2> QED BY <1>b, <2>1, <2>2, StepOfOne
<1>6. CASE BatchStops(r)
  BY <1>f, <1>6, BatchFailsInv, StepOfOne DEF BatchStops
<1>7. CASE Saved(r)
  <2> DEFINE g == IF Managed /\ b.pk = Global
                  THEN [f EXCEPT !.mem = b.st[Global]] ELSE f
             c == [b EXCEPT !.at = "handle", !.pk = Global, !.as = 0]
  <2>1. RunnerInv(g, epoch, holder) /\ g.batch = b
    BY <1>f DEF RunnerInv, Quiet, Fields
  <2>2. /\ b # NoBatch /\ UNCHANGED lease
        /\ \/ Set(r, BatchDone(g))
           \/ Set(r, [g EXCEPT !.batch.at = "handle", !.batch.pk = Global,
                               !.batch.as = 0])
    BY <1>7 DEF Saved
  <2> HIDE DEF g
  <2>3. RunnerInv(BatchDone(g), epoch, holder)
    BY <1>f, <2>1, <2>2, BatchDoneInv
  <2>4. BatchInv(c, f.lease, epoch) /\ g.lease = f.lease
    BY <1>f, <1>k, <2>2 DEF BatchInv, BatchFields, RunnerInv, g, Fields
  <2>5. [g EXCEPT !.batch.at = "handle", !.batch.pk = Global, !.batch.as = 0]
          = [g EXCEPT !.batch = c]
    BY <2>1 DEF RunnerInv, Fields
  <2> HIDE DEF c
  <2>6. RunnerInv([g EXCEPT !.batch = c], epoch, holder)
    BY <2>1, <2>2, <2>4 DEF RunnerInv, Quiet, Fields
  <2> QED BY <2>2, <2>3, <2>5, <2>6, StepOfOne
<1>8. CASE SaveRefused(r)
  <2> DEFINE g == IF b.as = 0 THEN f ELSE LoseLease(f)
  <2>1. /\ b # NoBatch /\ ~Current(b.as) /\ UNCHANGED lease
        /\ Set(r, BatchFails(g))
    BY <1>8 DEF SaveRefused
  <2>2. b.as # 0 => Fenced(f.lease, epoch, holder)
    BY <1>k, <2>1 DEF BatchInv, Current, Fenced
  <2>3. RunnerInv(g, epoch, holder)
    BY <1>f, <2>2, LosesLease
  <2>4. g.batch = b
    BY <1>f DEF LoseLease, Cut, RunnerInv, Fields
  <2> HIDE DEF g
  <2> QED BY <1>f, <2>1, <2>3, <2>4, BatchFailsInv, StepOfOne
<1>9. CASE TimerFires(r)
  <2> DEFINE g == [f EXCEPT !.timer = FALSE, !.queued = TRUE]
  <2>1. RunnerInv(g, epoch, holder)
    BY <1>f, <1>9 DEF RunnerInv, Quiet, Fields, TimerFires
  <2>2. Set(r, g) /\ UNCHANGED lease
    BY <1>9 DEF TimerFires
  <2> QED BY <2>1, <2>2, StepOfOne
<1> QED BY <1>1, <1>2, <1>3, <1>4, <1>5, <1>6, <1>7, <1>8, <1>9 DEF Flush

\* Every step of the renew, of stop() and of what may befall a runner keeps it.
LEMMA OthersKeep ==
  ASSUME LeaseInv, NEW r \in Runners,
         Renew(r) \/ StopWork(r) \/ Misfortune(r)
  PROVE  LeaseInv'
<1> DEFINE f == run[r]
<1>f. RunnerInv(f, epoch, holder) /\ epoch \in Nat
  BY DEF LeaseInv
<1> USE DEF lease
<1>1. CASE RenewRefused(r)
  <2> DEFINE g == [f EXCEPT !.fenced = f.lease]
  <2>1. RunnerInv(g, epoch, holder)
    BY <1>f, <1>1 DEF RunnerInv, Quiet, Fields, RenewRefused, Fenced, Current
  <2>2. Set(r, g) /\ UNCHANGED lease
    BY <1>1 DEF RenewRefused
  <2> QED BY <2>1, <2>2, StepOfOne
<1>2. CASE RenewHeard(r)
  <2> DEFINE g == [f EXCEPT !.fenced = 0]
  <2>1. RunnerInv(g, epoch, holder) /\ g.lease = f.lease
    BY <1>f DEF RunnerInv, Quiet, Fields
  <2>2. /\ f.fenced # 0 /\ UNCHANGED lease
        /\ \/ f.fenced = g.lease /\ Set(r, LoseLease(g))
           \/ Set(r, g)
    BY <1>2 DEF RenewHeard
  <2> HIDE DEF g
  <2>3. CASE f.fenced = g.lease /\ Set(r, LoseLease(g))
    <3>1. Fenced(g.lease, epoch, holder)
      BY <1>f, <2>2, <2>3 DEF RunnerInv
    <3> QED BY <1>f, <2>1, <2>2, <2>3, <3>1, LosesLease, StepOfOne
  <2>4. CASE Set(r, g)
    BY <2>1, <2>2, <2>4, StepOfOne
  <2> QED BY <2>2, <2>3, <2>4
<1>3. CASE FinishWork(r)
  <2> DEFINE g == Flushed(f, "stop")
  <2>1. f.pc = "ended" /\ Quiet(f)
    BY <1>3 DEF FinishWork
  <2>2. RunnerInv(g, epoch, holder)
    BY <1>f, <2>1, FlushedInv
  <2>3. RunnerInv([Dropped(f) EXCEPT !.work = "done"], epoch, holder)
    BY <1>f, <2>1, DroppedInv
  <2>4. /\ UNCHANGED lease
        /\ \/ Set(r, [Dropped(f) EXCEPT !.work = "done"])
           \/ Set(r, [g EXCEPT !.work = "done"])
           \/ Set(r, [g EXCEPT !.work = "flush"])
    BY <1>3 DEF FinishWork
  <2> HIDE DEF g
  <2>5. ASSUME NEW w PROVE RunnerInv([g EXCEPT !.work = w], epoch, holder)
    BY <2>2 DEF RunnerInv, Quiet, Fields
  <2> QED BY <2>3, <2>4, <2>5, StepOfOne
<1>4. CASE StopReleases(r)
  <2> DEFINE g == [[f EXCEPT !.released = TRUE] EXCEPT !.lease = 0]
  <2>1. RunnerInv(g, epoch, holder)
    BY <1>f DEF RunnerInv, Quiet, Fields, Fenced, BatchInv
  <2>2. Set(r, g) /\ epoch' = epoch /\ holder' \in {holder, NoRunner}
    BY <1>4 DEF StopReleases, Release
  <2> QED BY <2>1, <2>2, StepOfOne
<1>5. CASE AcquireUnheard(r)
  BY <1>5, GrantInv DEF AcquireUnheard
<1>6. CASE OpenFails(r)
  BY <1>f, <1>6, CaughtInv, StepOfOne DEF OpenFails
<1>7. CASE StreamEnds(r)
  BY <1>f, <1>7, EndedInv, StepOfOne DEF StreamEnds
<1>8. CASE BatchFault(r)
  BY <1>f, <1>8, BatchFailsInv, StepOfOne DEF BatchFault
<1>9. CASE Stop(r)
  <2> DEFINE g == Cut([f EXCEPT !.stop = TRUE, !.timer = FALSE,
                                !.work = "wait"])
  <2>1. RunnerInv(g, epoch, holder)
    BY <1>f DEF RunnerInv, Quiet, Fields, Cut
  <2>2. Set(r, g) /\ UNCHANGED lease
    BY <1>9 DEF Stop
  <2> QED BY <2>1, <2>2, StepOfOne
<1>10. CASE StopTimesOut(r)
  <2> DEFINE g == [f EXCEPT !.late = TRUE]
  <2>1. RunnerInv(g, epoch, holder)
    BY <1>f DEF RunnerInv, Quiet, Fields
  <2>2. Set(r, g) /\ UNCHANGED lease
    BY <1>10 DEF StopTimesOut
  <2> QED BY <2>1, <2>2, StepOfOne
<1>11. CASE Fatal(r)
  <2> DEFINE g == [f EXCEPT !.pc = "release"]
  <2>1. RunnerInv(g, epoch, holder)
    BY <1>f DEF RunnerInv, Quiet, Fields
  <2>2. Set(r, g) /\ UNCHANGED lease
    BY <1>11 DEF Fatal
  <2> QED BY <2>1, <2>2, StepOfOne
<1>12. CASE Crash(r)
  <2> DEFINE g == [Fresh EXCEPT !.pc = "dead"]
  <2>1. RunnerInv(g, epoch, holder)
    BY <1>f DEF RunnerInv, Quiet, Fields, Fresh, Fenced
  <2>2. Set(r, g) /\ UNCHANGED lease
    BY <1>12 DEF Crash
  <2> QED BY <2>1, <2>2, StepOfOne
<1> QED BY <1>1, <1>2, <1>3, <1>4, <1>5, <1>6, <1>7, <1>8, <1>9, <1>10, <1>11,
   <1>12 DEF Renew, StopWork, Misfortune

\* What a runner knows of its lease is inductive.
LEMMA LeaseInductive ==
  /\ Init => LeaseInv
  /\ LeaseInv /\ [Next]_vars => LeaseInv'
<1>1. Init => LeaseInv
  <2> SUFFICES ASSUME Init PROVE LeaseInv
    OBVIOUS
  <2>1. RunnerInv(Fresh, epoch, holder)
    BY DEF Init, Fresh, RunnerInv, Fields, Quiet, Fenced
  <2> QED BY <2>1 DEF Init, LeaseInv
<1>2. LeaseInv /\ [Next]_vars => LeaseInv'
  <2> SUFFICES ASSUME LeaseInv, [Next]_vars PROVE LeaseInv'
    OBVIOUS
  <2>1. CASE UNCHANGED <<lease, run>>
    BY <2>1 DEF lease, LeaseInv
  <2>2. ASSUME NEW r \in Runners,
               Main(r) \/ Flush(r) \/ TimerFires(r) \/ Renew(r)
               \/ StopWork(r) \/ Misfortune(r)
        PROVE  LeaseInv'
    BY <2>2, MainKeeps, FlushKeeps, OthersKeep
  <2>3. CASE ExpireAbandoned \/ ExpireLate
    <3>1. epoch' = epoch /\ holder' = NoRunner /\ run' = run
      BY <2>3 DEF ExpireAbandoned, ExpireLate
    <3> QED BY <3>1 DEF LeaseInv, RunnerInv, Fenced
  <2>4. CASE Publish \/ Rest \/ UNCHANGED vars
    BY <2>1, <2>4 DEF Publish, Rest, vars, lease
  <2> QED BY <2>2, <2>3, <2>4 DEF Next
<1> QED BY <1>1, <1>2

\* A runner takes for lost only a lease that the engine has fenced: neither the
\* late refusal of a renew nor that of a batch of an earlier grant ends a later
\* one (startRenew() compares the grants, dropGrant() waits for the chain).
THEOREM LostLeasesAreFenced == Spec => []LostIsFenced
<1>1. LeaseInv => LostIsFenced
  BY DEF LeaseInv, LostIsFenced, RunnerInv, Fenced, Current
<1> QED BY <1>1, LeaseInductive, PTL DEF Spec

\* A set of naturals has a least element.
LEMMA LeastOf ==
  ASSUME NEW S \in SUBSET Nat, S # {}
  PROVE  \E n \in S : \A m \in S : n <= m
<1> DEFINE Less == OpToRel(<, Nat)
<1>1. IsWellFoundedOn(Less, Nat)
  BY NatLessThanWellFounded
<1>2. \A m, n \in Nat : m < n => <<m, n>> \in Less
  BY DEF Less, OpToRel
<1> HIDE DEF Less
<1>3. PICK n \in S : \A m \in S : <<m, n>> \notin Less
  BY <1>1, WFMin
<1>4. ASSUME NEW m \in S PROVE n <= m
  <2>1. m \in Nat /\ n \in Nat /\ ~(m < n)
    BY <1>2, <1>3
  <2> QED BY <2>1
<1> QED BY <1>4

\* f is the function on a .. b with f[a] = x and f[i] = step[<<i, f[i - 1]>>].
Recursion(f, X, a, b, x, step) ==
  /\ f \in [a .. b -> X]
  /\ f[a] = x
  /\ \A i \in a + 1 .. b : f[i] = step[<<i, f[i - 1]>>]

\* For every step there is a function that the recursion defines.
LEMMA RecursionExists ==
  ASSUME NEW a \in Int, NEW b \in Int, a <= b, NEW X, NEW x \in X,
         NEW step \in [(a .. b) \X X -> X]
  PROVE  \E f : Recursion(f, X, a, b, x, step)
<1> DEFINE S == {n \in Nat : a + n <= b /\ ~ \E f : Recursion(f, X, a, a + n, x, step)}
<1>1. S = {}
  <2> SUFFICES ASSUME S # {} PROVE FALSE
    OBVIOUS
  <2>1. PICK n \in S : \A m \in S : n <= m
    BY LeastOf
  <2>2. CASE n = 0
    <3> DEFINE f == [i \in a .. a + n |-> x]
    <3>1. Recursion(f, X, a, a + n, x, step)
      BY <2>2 DEF Recursion
    <3> HIDE DEF f
    <3> QED BY <2>1, <3>1
  <2>3. CASE n # 0
    <3>1. n - 1 \in Nat /\ n - 1 \notin S /\ a + n <= b /\ a + (n - 1) <= b
      BY <2>1, <2>3
    <3>2. PICK g : Recursion(g, X, a, a + (n - 1), x, step)
      BY <3>1
    <3> DEFINE f == [i \in a .. a + n |-> IF i < a + n THEN g[i] ELSE step[<<i, g[i - 1]>>]]
    <3>3. a + (n - 1) \in a .. a + (n - 1) /\ a + n \in a .. b /\ a + n - 1 = a + (n - 1)
      BY <2>1, <2>3, <3>1
    <3>4. g[a + (n - 1)] \in X
      BY <3>2, <3>3 DEF Recursion
    <3>5. step[<<a + n, g[a + (n - 1)]>>] \in X
      BY <3>3, <3>4
    <3>6. f \in [a .. a + n -> X]
      <4>1. ASSUME NEW i \in a .. a + n PROVE f[i] \in X
        <5>1. CASE i < a + n
          <6>1. i \in a .. a + (n - 1)
            BY <5>1, <2>1
          <6> QED BY <5>1, <6>1, <3>2 DEF Recursion
        <5>2. CASE i = a + n
          BY <5>2, <3>3, <3>5
        <5> QED BY <5>1, <5>2, <2>1
      <4> QED BY <4>1
    <3>7. f[a] = x
      BY <3>2, <2>1, <2>3 DEF Recursion
    <3>8. ASSUME NEW i \in a + 1 .. a + n PROVE f[i] = step[<<i, f[i - 1]>>]
      <4>1. f[i - 1] = g[i - 1]
        BY <2>1
      <4>2. i < a + n => i \in a + 1 .. a + (n - 1)
        BY <2>1
      <4> QED BY <2>1, <4>1, <4>2, <3>2 DEF Recursion
    <3> HIDE DEF f
    <3>9. Recursion(f, X, a, a + n, x, step)
      BY <3>6, <3>7, <3>8 DEF Recursion
    <3> QED BY <2>1, <3>9
  <2> QED BY <2>1, <2>2, <2>3
<1>2. b - a \in Nat /\ a + (b - a) = b
  OBVIOUS
<1>3. b - a \notin S
  BY <1>1
<1>4. \E f : Recursion(f, X, a, a + (b - a), x, step)
  <2> HIDE DEF S
  <2> QED BY <1>2, <1>3 DEF S
<1> QED BY <1>2, <1>4

-----------------------------------------------------------------------------

\* x is an element of s.
In(s, x) == \E i \in 1 .. Len(s) : s[i] = x

\* s is strictly increasing.
Incr(s) == \A i, j \in 1 .. Len(s) : i < j => s[i] < s[j]

\* Events are positive numbers, and so is a batch size.
LEMMA Numbers == Matching \subseteq Nat \ {0} /\ BatchSize \in Nat \ {0}
BY RunnerAssumption

\* Where the events after c end: the last of s, or c.
LastOr(c, s) == IF s = <<>> THEN c ELSE s[Len(s)]

\* When none comes next, the rest of the log is not published yet.
LEMMA NextAfterNone ==
  ASSUME published \in Nat, NEW c \in Nat, NextAfter(c) = {},
         NEW e \in Matching, c < e
  PROVE  published < e
<1> DEFINE S == {d \in Matching : c < d}
<1>1. S \in SUBSET Nat /\ S # {}
  BY Numbers
<1>2. PICK d \in S : \A m \in S : d <= m
  BY <1>1, LeastOf
<1>3. d \notin NextAfter(c)
  OBVIOUS
<1> QED BY <1>2, <1>3, Numbers DEF NextAfter

\* What comes next is the least event published after c.
LEMMA NextAfterOne ==
  ASSUME NEW c \in Nat, published \in Nat, NEW e \in NextAfter(c)
  PROVE  /\ e \in Matching /\ e \in Nat \ {0} /\ c < e /\ e <= published
         /\ \A d \in Matching : c < d => e <= d
BY Numbers DEF NextAfter

\* The first i events after c.
Leads(c, s, i) ==
  /\ s \in Seq(Matching) /\ Len(s) <= i /\ Incr(s)
  /\ \A j \in 1 .. Len(s) : c < s[j] /\ s[j] <= published
  /\ \A e \in Matching : c < e /\ e <= LastOr(c, s) => In(s, e)
  /\ Len(s) < i => NextAfter(LastOr(c, s)) = {}

\* s and the event that comes next, if there is one.
Further(c, s) ==
  IF NextAfter(LastOr(c, s)) = {} THEN s
  ELSE Append(s, CHOOSE e \in NextAfter(LastOr(c, s)) : TRUE)

\* One event more.
LEMMA LeadsFurther ==
  ASSUME published \in Nat, NEW c \in Nat, NEW i \in Nat, NEW s, Leads(c, s, i)
  PROVE  Leads(c, Further(c, s), i + 1)
<1> DEFINE l == LastOr(c, s)
<1>1. s \in Seq(Matching) /\ Len(s) \in Nat /\ (s # <<>> => Len(s) \in 1 .. Len(s))
  BY DEF Leads
<1>2. l \in Nat /\ c <= l /\ \A j \in 1 .. Len(s) : s[j] \in Nat /\ s[j] \in Matching /\ s[j] <= l
  <2>1. \A j \in 1 .. Len(s) : s[j] \in Matching
    BY <1>1
  <2>2. \A j \in 1 .. Len(s) : s[j] \in Nat /\ c < s[j]
    BY <2>1, Numbers DEF Leads
  <2>3. CASE s = <<>>
    BY <2>3 DEF LastOr
  <2>4. CASE s # <<>>
    <3>1. l = s[Len(s)] /\ Len(s) \in 1 .. Len(s)
      BY <1>1, <2>4 DEF LastOr
    <3>2. \A j \in 1 .. Len(s) : s[j] <= l
      <4> TAKE j \in 1 .. Len(s)
      <4>1. j < Len(s) \/ j = Len(s)
        BY <1>1
      <4>2. j < Len(s) => s[j] < s[Len(s)]
        BY <3>1 DEF Leads, Incr
      <4> QED BY <2>2, <3>1, <4>1, <4>2
    <3> QED BY <2>1, <2>2, <3>1, <3>2
  <2> QED BY <2>3, <2>4
<1>3. CASE NextAfter(l) = {}
  BY <1>1, <1>3 DEF Further, Leads
<1>4. CASE NextAfter(l) # {}
  <2> DEFINE e == CHOOSE e \in NextAfter(l) : TRUE
             t == Append(s, e)
  <2>1. e \in NextAfter(l)
    BY <1>4
  <2> HIDE DEF e
  <2>2. /\ e \in Matching /\ e \in Nat \ {0} /\ l < e /\ e <= published
        /\ \A d \in Matching : l < d => e <= d
    BY <1>2, <2>1, NextAfterOne
  <2>3. Further(c, s) = t
    BY <1>4 DEF Further, e
  <2>4. /\ t \in Seq(Matching) /\ Len(t) = Len(s) + 1 /\ t # <<>> /\ t[Len(t)] = e
        /\ \A j \in 1 .. Len(s) : t[j] = s[j]
    <3> HIDE DEF l
    <3> QED BY <1>1, <2>2, AppendProperties
  <2> HIDE DEF t, l
  <2>5. Incr(t)
    <3> SUFFICES ASSUME NEW j \in 1 .. Len(t), NEW k \in 1 .. Len(t), j < k PROVE t[j] < t[k]
      BY DEF Incr
    <3>1. j \in 1 .. Len(s)
      BY <1>1, <2>4
    <3>2. CASE k \in 1 .. Len(s)
      BY <1>1, <2>4, <3>1, <3>2 DEF Incr, Leads
    <3>3. CASE k = Len(t)
      BY <1>2, <2>2, <2>4, <3>1, <3>3
    <3> QED BY <1>1, <2>4, <3>2, <3>3
  <2>6. \A j \in 1 .. Len(t) : c < t[j] /\ t[j] <= published
    <3> TAKE j \in 1 .. Len(t)
    <3>1. CASE j \in 1 .. Len(s)
      BY <2>4, <3>1 DEF Leads
    <3>2. CASE j = Len(t)
      BY <1>2, <2>2, <2>4, <3>2
    <3> QED BY <1>1, <2>4, <3>1, <3>2
  <2>7. LastOr(c, t) = e
    BY <2>4 DEF LastOr
  <2>8. ASSUME NEW d \in Matching, c < d, d <= e PROVE In(t, d)
    <3>1. CASE d <= l
      <4>1. In(s, d)
        BY <2>8, <3>1 DEF Leads, l
      <4> QED BY <1>1, <2>4, <4>1 DEF In
    <3>2. CASE ~(d <= l)
      <4>1. d = e
        BY <1>2, <2>2, <2>8, <3>2, Numbers
      <4>2. Len(t) \in 1 .. Len(t)
        BY <1>1, <2>4
      <4> QED BY <2>4, <4>1, <4>2 DEF In
    <3> QED BY <3>1, <3>2
  <2>9. Len(s) <= i /\ (Len(s) < i => NextAfter(l) = {})
    BY DEF Leads, l
  <2>10. ~(Len(t) < i + 1) /\ Len(t) <= i + 1
    BY <1>1, <1>4, <2>4, <2>9
  <2> QED BY <2>3, <2>4, <2>5, <2>6, <2>7, <2>8, <2>10 DEF Leads
<1> QED BY <1>3, <1>4

\* What a delivery brings: the first k events after c, in order, without a gap.
LEMMA DeliveryIs ==
  ASSUME published \in Nat, NEW c \in Nat, NEW k \in Nat
  PROVE  Leads(c, Delivery(c, k), k)
<1> DEFINE X == {s \in Seq(Matching) : TRUE}
           step == [y \in (0 .. k) \X X |-> Further(c, y[2])]
           Def(f) == f = [i \in 0 .. k |->
                            IF i = 0 THEN <<>>
                            ELSE LET s    == f[i - 1]
                                     last == IF s = <<>> THEN c ELSE s[Len(s)]
                                 IN  IF NextAfter(last) = {} THEN s
                                     ELSE Append(s, CHOOSE e \in NextAfter(last) : TRUE)]
<1>1. \A s \in X : Further(c, s) \in X
  <2> TAKE s \in X
  <2>1. CASE NextAfter(LastOr(c, s)) = {}
    BY <2>1 DEF Further
  <2>2. CASE NextAfter(LastOr(c, s)) # {}
    BY <2>2 DEF Further, NextAfter
  <2> QED BY <2>1, <2>2
<1>2. step \in [(0 .. k) \X X -> X] /\ <<>> \in X
  BY <1>1
<1>3. PICK g : Recursion(g, X, 0, k, <<>>, step)
  <2> HIDE DEF step, X
  <2>1. 0 \in Int /\ k \in Int /\ 0 <= k
    OBVIOUS
  <2> QED BY <1>2, <2>1, RecursionExists
<1>4. Def(g)
  <2>1. ASSUME NEW i \in 0 .. k, i # 0 PROVE g[i] = Further(c, g[i - 1])
    <3>1. i \in 0 + 1 .. k /\ i - 1 \in 0 .. k
      BY <2>1
    <3>2. g[i] = step[<<i, g[i - 1]>>] /\ g[i - 1] \in X
      BY <1>3, <3>1 DEF Recursion
    <3> HIDE DEF X
    <3> QED BY <3>2
  <2>2. g = [i \in 0 .. k |-> g[i]] /\ g[0] = <<>>
    BY <1>3 DEF Recursion
  <2> QED BY <2>1, <2>2 DEF Further, LastOr
<1> DEFINE f == CHOOSE f : Def(f)
<1>5. Def(f)
  BY <1>4
<1>6. Delivery(c, k) = f[k]
  BY DEF Delivery
<1> HIDE DEF f
<1>7. f[0] = <<>> /\ \A i \in 0 .. k : i # 0 => f[i] = Further(c, f[i - 1])
  <2>1. 0 \in 0 .. k
    OBVIOUS
  <2>2. \A i \in 0 .. k : f[i] = IF i = 0 THEN <<>> ELSE Further(c, f[i - 1])
    BY <1>5 DEF Further, LastOr
  <2> QED BY <2>1, <2>2
<1> HIDE DEF Def, X, step
<1> DEFINE S == {i \in 0 .. k : ~Leads(c, f[i], i)}
<1>8. S = {}
  <2> SUFFICES ASSUME S # {} PROVE FALSE
    OBVIOUS
  <2>1. S \in SUBSET Nat
    OBVIOUS
  <2>2. PICK n \in S : \A m \in S : n <= m
    BY <2>1, LeastOf
  <2>3. CASE n = 0
    <3>1. Leads(c, <<>>, 0)
      BY Numbers DEF Leads, Incr, LastOr, In
    <3> QED BY <1>7, <2>2, <2>3, <3>1
  <2>4. CASE n # 0
    <3>1. n - 1 \in 0 .. k /\ n - 1 \notin S /\ n - 1 \in Nat /\ (n - 1) + 1 = n /\ n \in 0 .. k
      BY <2>2, <2>4
    <3>2. Leads(c, f[n - 1], n - 1)
      BY <3>1
    <3>3. Leads(c, Further(c, f[n - 1]), (n - 1) + 1)
      BY <3>1, <3>2, LeadsFurther
    <3>4. f[n] = Further(c, f[n - 1])
      BY <1>7, <2>4, <3>1
    <3> QED BY <2>2, <3>1, <3>3, <3>4
  <2> QED BY <2>3, <2>4
<1>9. k \in 0 .. k
  OBVIOUS
<1> QED BY <1>6, <1>8, <1>9

\* How far stop() has got.
Works == {"none", "wait", "flush", "done", "rejected"}

\* Where the main coroutine has nothing in the flush chain.
Resting == {"register", "standby", "load", "open", "poll", "cool", "release",
            "dead"}

\* Who holds the lease knows of it, or has lost the answer that said so; and a
\* runner that has released it asks for no other.
HoldOf(r, f, e, h, o) ==
  /\ h = r => e \in o \/ (e # 0 /\ f.lease = e) \/ f.pc = "dead"
  /\ f.lease = e /\ e # 0 => h \in {r, NoRunner}
  /\ f.batch # NoBatch /\ f.batch.as = e /\ e # 0 => h \in {r, NoRunner}
  /\ f.released => f.lease = 0 /\ f.stop
  /\ f.pc = "drop" => f.lost

\* Which batches are under way where.
BatchShape(b, m) ==
  /\ b.at \in {"load", "handle", "commit"}
  /\ b.at # "commit" => b.as = 0
  /\ m /\ b.at # "commit" => b.todo # <<>>
  /\ ~m => b.at # "load" /\ (b.at = "commit" => b.todo = <<>>)

\* What may be under way in each phase of the main coroutine.
PhaseOf(f, m) ==
  /\ f.pc \in Phases /\ f.work \in Works
  /\ f.pc \in Resting => f.batch = NoBatch
  /\ f.pc \in Resting \cup {"polled", "finishing"} =>
       ~f.queued /\ ~f.timer /\ f.pending = <<>>
  /\ f.pc \in {"register", "standby", "load", "open", "poll", "polled"} => f.got = 0
  /\ f.batch # NoBatch =>
       /\ f.batch.by = "poll" <=> f.pc = "polled"
       /\ f.batch.by = "end" <=> f.pc = "finishing"
       /\ f.batch.by = "stop" <=> f.work = "flush"
       /\ BatchShape(f.batch, m)
  /\ f.work \in {"flush", "done", "rejected"} =>
       /\ f.pc = "ended" /\ ~f.queued /\ ~f.timer /\ f.pending = <<>>
       /\ f.work # "flush" => f.batch = NoBatch
  /\ f.work = "none" <=> ~f.stop
  /\ f.pc = "dead" => ~f.stop

\* f and g agree but for the fields in S.
Same(f, g, S) == \A k \in Fields \ S : g[k] = f[k]

\* What the catch of the loop changes.
LEMMA CaughtFields ==
  ASSUME NEW f, DOMAIN f = Fields, NEW x
  PROVE  /\ Same(f, Caught(f, x), {"how", "pc"})
         /\ Caught(f, x).how = "clean"
         /\ Caught(f, x).pc = IF f.stop THEN "ended" ELSE IF f.lost THEN "drop"
                              ELSE IF x THEN "release" ELSE "cool"
BY DEF Caught, Same, Fields

\* The inductive strengthening of StoppedReleases.
ShapeInv ==
  /\ mode \in Modes
  /\ \A r \in Runners : /\ HoldOf(r, run[r], epoch, holder, orphaned)
                        /\ PhaseOf(run[r], Managed)

\* A step of one runner that may lose a lease: the others keep their shape.
LEMMA StepOfOneShape ==
  ASSUME ShapeInv, LeaseInv, NEW r \in Runners, NEW g, Set(r, g),
         mode' = mode, epoch' = epoch, holder' \in {holder, NoRunner},
         orphaned \subseteq orphaned',
         HoldOf(r, g, epoch, holder', orphaned'), PhaseOf(g, Managed)
  PROVE  ShapeInv'
<1>1. ASSUME NEW q \in Runners
      PROVE  HoldOf(q, run'[q], epoch', holder', orphaned')
  <2>1. CASE q = r
    <3>1. run'[q] = g
      BY <2>1 DEF LeaseInv, Set
    <3> QED BY <2>1, <3>1
  <2>2. CASE q # r
    <3>1. run'[q] = run[q]
      BY <2>2 DEF LeaseInv, Set
    <3> QED BY <3>1, RunnerAssumption DEF ShapeInv, HoldOf
  <2> QED BY <2>1, <2>2
<1>2. ASSUME NEW q \in Runners PROVE PhaseOf(run'[q], Managed)
  BY DEF LeaseInv, Set, ShapeInv
<1>3. Managed' = Managed
  BY DEF Managed
<1> QED BY <1>1, <1>2, <1>3 DEF ShapeInv

\* A step of one runner that leaves the lease as it is.
LEMMA StepShape ==
  ASSUME ShapeInv, LeaseInv, NEW r \in Runners, NEW g, Set(r, g),
         UNCHANGED <<lease, config, orphaned>>,
         HoldOf(r, g, epoch, holder, orphaned), PhaseOf(g, Managed)
  PROVE  ShapeInv'
<1>1. /\ mode' = mode /\ epoch' = epoch /\ holder' = holder /\ orphaned' = orphaned
  BY DEF lease, config
<1> QED BY <1>1, StepOfOneShape

\* What a renew that was refused changes.
LEMMA LoseLeaseFields ==
  ASSUME NEW f, DOMAIN f = Fields
  PROVE  /\ Same(f, LoseLease(f), {"lost", "cut"})
         /\ LoseLease(f).lost = IF f.lease = 0 THEN f.lost ELSE TRUE
         /\ DOMAIN LoseLease(f) = Fields
<1>1. CASE f.lease = 0
  BY <1>1 DEF LoseLease, Same
<1>2. CASE f.lease # 0
  BY <1>2 DEF LoseLease, Cut, Same, Fields
<1> QED BY <1>1, <1>2

\* What the end of a stream changes.
LEMMA EndedFields ==
  ASSUME NEW f, DOMAIN f = Fields, NEW how
  PROVE  /\ Same(f, Ended(f, how), {"streamed", "cut", "pc", "how"})
         /\ Ended(f, how).pc = IF f.stop THEN "ended" ELSE IF f.lost THEN "drop" ELSE "final"
         /\ DOMAIN Ended(f, how) = Fields
<1>1. CASE f.stop \/ f.lost
  BY <1>1 DEF Ended, Same, Fields
<1>2. CASE ~(f.stop \/ f.lost)
  BY <1>2 DEF Ended, Same, Fields
<1> QED BY <1>1, <1>2

\* What dropGrant() changes: nothing of the grant is left.
LEMMA DroppedFields ==
  ASSUME NEW f, DOMAIN f = Fields
  PROVE  LET g == Dropped(f) IN
         /\ Same(f, g, {"pending", "mark", "timer", "position", "failed",
                        "reload", "mem", "lease", "lost", "got"})
         /\ g.pending = <<>> /\ g.mark = 0 /\ g.timer = FALSE /\ g.position = 0
         /\ g.failed = FALSE /\ g.reload = FALSE /\ g.mem = <<>> /\ g.lease = 0
         /\ g.lost = FALSE /\ g.got = 0
         /\ DOMAIN g = Fields
BY DEF Dropped, Same, Fields

\* The three outcomes of flushPending().
LEMMA FlushedFields ==
  ASSUME NEW f, DOMAIN f = Fields, NEW by
  PROVE  LET g == Flushed(f, by) IN
         /\ Same(f, g, {"timer", "pending", "mark", "position", "batch"})
         /\ g.timer = FALSE /\ g.pending = <<>> /\ g.mark = 0
         /\ DOMAIN g = Fields
         /\ \/ f.failed /\ g.position = f.position /\ g.batch = f.batch
            \/ /\ ~f.failed /\ f.pending = <<>>
               /\ g.position = Higher(f.position, f.mark) /\ g.batch = f.batch
            \/ /\ ~f.failed /\ f.pending # <<>> /\ g.position = f.position
               /\ g.batch = Batch(by, f.pending, f.mark, f.mem)
<1>1. CASE f.failed
  BY <1>1 DEF Flushed, Same, Fields
<1>2. CASE ~f.failed /\ f.pending = <<>>
  BY <1>2 DEF Flushed, Same, Fields
<1>3. CASE ~f.failed /\ f.pending # <<>>
  <2> DEFINE b == Batch(by, f.pending, f.mark, f.mem)
             k == [f EXCEPT !.timer = FALSE, !.pending = <<>>, !.mark = 0]
  <2>1. Flushed(f, by) = [k EXCEPT !.batch = b]
    BY <1>3 DEF Flushed
  <2> HIDE DEF b
  <2>2. /\ Same(f, [k EXCEPT !.batch = b], {"timer", "pending", "mark", "position", "batch"})
        /\ [k EXCEPT !.batch = b].timer = FALSE
        /\ [k EXCEPT !.batch = b].pending = <<>>
        /\ [k EXCEPT !.batch = b].mark = 0
        /\ [k EXCEPT !.batch = b].position = f.position
        /\ [k EXCEPT !.batch = b].batch = b
        /\ DOMAIN [k EXCEPT !.batch = b] = Fields
    BY DEF Same, Fields
  <2> QED BY <1>3, <2>1, <2>2 DEF b
<1> QED BY <1>1, <1>2, <1>3

\* A batch as flushPending() or poll() starts it.
LEMMA BatchStarts ==
  ASSUME NEW by, NEW s, s # <<>>, NEW m, NEW g
  PROVE  /\ BatchShape(Batch(by, s, m, g), Managed)
         /\ DOMAIN Batch(by, s, m, g) = BatchFields
         /\ Batch(by, s, m, g).by = by /\ Batch(by, s, m, g).todo = s
         /\ Batch(by, s, m, g).mark = m /\ Batch(by, s, m, g).last = 0
         /\ Batch(by, s, m, g).as = 0 /\ Batch(by, s, m, g).pk = Global
         /\ Batch(by, s, m, g).at = IF Managed THEN "load" ELSE "handle"
BY DEF Batch, BatchShape, BatchFields

\* Nothing is left to flush where the main coroutine decides what comes next.
Idle(f) == /\ f.batch = NoBatch /\ ~f.queued /\ ~f.timer /\ f.pending = <<>>
           /\ f.work \in {"none", "wait"} /\ f.pc # "dead" /\ DOMAIN f = Fields

\* Holding and phase of one runner.
ShapeOf(r, f, e, h, o) == HoldOf(r, f, e, h, o) /\ PhaseOf(f, Managed)

\* The catch of the loop, with nothing left to flush.
LEMMA CaughtShape ==
  ASSUME NEW r, NEW e, NEW h, NEW o, NEW f, ShapeOf(r, f, e, h, o), Idle(f), NEW x
  PROVE  ShapeOf(r, Caught(f, x), e, h, o)
<1> DEFINE g == Caught(f, x)
<1>1. /\ Same(f, g, {"how", "pc"})
      /\ g.pc = IF f.stop THEN "ended" ELSE IF f.lost THEN "drop"
                ELSE IF x THEN "release" ELSE "cool"
  BY CaughtFields DEF Idle
<1> HIDE DEF g
<1>2. PhaseOf(g, Managed)
  BY <1>1 DEF PhaseOf, Same, Fields, Phases, Resting, Idle, ShapeOf
<1>3. HoldOf(r, g, e, h, o)
  BY <1>1 DEF HoldOf, Same, Fields, Idle, ShapeOf
<1> QED BY <1>2, <1>3 DEF g, ShapeOf

\* What the end of an iteration changes.
LEMMA NextIterationFields ==
  ASSUME NEW f, DOMAIN f = Fields
  PROVE  LET g == NextIteration(f) IN
         \/ \E x \in BOOLEAN : g = Caught(f, x)
              /\ (x => f.how = "fatal") /\ (f.failed \/ f.how # "clean")
         \/ /\ Same(f, g, {"pc"}) /\ DOMAIN g = Fields /\ f.stop /\ g.pc = "ended"
         \/ /\ Same(f, g, {"pc", "pending", "mark", "got"}) /\ DOMAIN g = Fields
            /\ ~f.stop /\ ~f.failed /\ g.pc = "open" /\ g.pending = <<>> /\ g.mark = 0
            /\ g.got = 0
<1>1. CASE f.how # "clean"
  BY <1>1 DEF NextIteration
<1>2. CASE f.how = "clean" /\ f.stop
  BY <1>2 DEF NextIteration, Same, Fields
<1>3. CASE f.how = "clean" /\ ~f.stop /\ f.failed
  BY <1>3 DEF NextIteration
<1>4. CASE f.how = "clean" /\ ~f.stop /\ ~f.failed
  <2> DEFINE g == [f EXCEPT !.pc = "open", !.pending = <<>>, !.mark = 0, !.got = 0]
  <2>1. NextIteration(f) = g
    BY <1>4 DEF NextIteration
  <2>2. /\ Same(f, g, {"pc", "pending", "mark", "got"}) /\ DOMAIN g = Fields
        /\ g.pc = "open" /\ g.pending = <<>> /\ g.mark = 0 /\ g.got = 0
    BY DEF Same, Fields
  <2> QED BY <1>4, <2>1, <2>2
<1> QED BY <1>1, <1>2, <1>3, <1>4

\* The end of an iteration, with nothing left to flush.
LEMMA NextIterationShape ==
  ASSUME NEW r, NEW e, NEW h, NEW o, NEW f, ShapeOf(r, f, e, h, o), Idle(f)
  PROVE  ShapeOf(r, NextIteration(f), e, h, o)
<1> DEFINE g == NextIteration(f)
<1>1. DOMAIN f = Fields
  BY DEF Idle
<1>2. CASE \E x \in BOOLEAN : g = Caught(f, x)
  BY <1>2, CaughtShape
<1>3. CASE Same(f, g, {"pc"}) /\ DOMAIN g = Fields /\ f.stop /\ g.pc = "ended"
  <2> HIDE DEF g
  <2>1. PhaseOf(g, Managed)
    BY <1>3 DEF PhaseOf, Same, Fields, Phases, Resting, Idle, ShapeOf
  <2>2. HoldOf(r, g, e, h, o)
    BY <1>3 DEF HoldOf, Same, Fields, Idle, ShapeOf
  <2> QED BY <2>1, <2>2 DEF g, ShapeOf
<1>4. CASE /\ Same(f, g, {"pc", "pending", "mark", "got"}) /\ DOMAIN g = Fields
           /\ ~f.stop /\ ~f.failed /\ g.pc = "open" /\ g.pending = <<>> /\ g.mark = 0
           /\ g.got = 0
  <2> HIDE DEF g
  <2>1. PhaseOf(g, Managed)
    BY <1>4 DEF PhaseOf, Same, Fields, Phases, Resting, Idle, ShapeOf
  <2>2. HoldOf(r, g, e, h, o)
    BY <1>4 DEF HoldOf, Same, Fields, Idle, ShapeOf
  <2> QED BY <2>1, <2>2 DEF g, ShapeOf
<1>5. \/ \E x \in BOOLEAN : g = Caught(f, x)
      \/ /\ Same(f, g, {"pc"}) /\ DOMAIN g = Fields /\ f.stop /\ g.pc = "ended"
      \/ /\ Same(f, g, {"pc", "pending", "mark", "got"}) /\ DOMAIN g = Fields
         /\ ~f.stop /\ ~f.failed /\ g.pc = "open" /\ g.pending = <<>> /\ g.mark = 0
         /\ g.got = 0
  BY <1>1, NextIterationFields
<1> HIDE DEF g
<1> QED BY <1>2, <1>3, <1>4, <1>5

\* What the end of a flush changes, for each of those that started it.
LEMMA BatchDoneFields ==
  ASSUME NEW f, DOMAIN f = Fields
  PROVE  LET k == [f EXCEPT !.batch = NoBatch, !.position = Higher(@, f.batch.mark)]
             g == BatchDone(f)
         IN
         /\ Same(f, k, {"batch", "position"}) /\ DOMAIN k = Fields
         /\ k.batch = NoBatch /\ k.position = Higher(f.position, f.batch.mark)
         /\ f.batch.by = "chain" => g = k
         /\ f.batch.by = "end" => g = NextIteration(k)
         /\ f.batch.by = "poll" => /\ Same(f, g, {"batch", "position", "pc"})
                                   /\ g.batch = NoBatch /\ DOMAIN g = Fields
                                   /\ g.position = k.position /\ g.pc = "poll"
         /\ f.batch.by = "stop" => /\ Same(f, g, {"batch", "position", "work"})
                                   /\ g.batch = NoBatch /\ DOMAIN g = Fields
                                   /\ g.position = k.position /\ g.work = "done"
<1> DEFINE k == [f EXCEPT !.batch = NoBatch, !.position = Higher(@, f.batch.mark)]
<1>1. /\ Same(f, k, {"batch", "position"}) /\ DOMAIN k = Fields
      /\ k.batch = NoBatch /\ k.position = Higher(f.position, f.batch.mark)
  BY DEF Same, Fields
<1>2. CASE f.batch.by = "chain"
  BY <1>1, <1>2 DEF BatchDone
<1>3. CASE f.batch.by = "end"
  BY <1>1, <1>3 DEF BatchDone
<1>4. CASE f.batch.by = "poll"
  <2>1. BatchDone(f) = [k EXCEPT !.pc = "poll"]
    BY <1>4 DEF BatchDone
  <2> HIDE DEF k
  <2> QED BY <1>1, <1>4, <2>1 DEF Same, Fields, k
<1>5. CASE f.batch.by = "stop"
  <2>1. BatchDone(f) = [k EXCEPT !.work = "done"]
    BY <1>5 DEF BatchDone
  <2> HIDE DEF k
  <2> QED BY <1>1, <1>5, <2>1 DEF Same, Fields, k
<1>6. CASE f.batch.by \notin {"chain", "end", "poll", "stop"}
  BY <1>1, <1>6
<1> QED BY <1>2, <1>3, <1>4, <1>5, <1>6

\* What a failed flush changes, for each of those that started it.
LEMMA BatchFailsFields ==
  ASSUME NEW f, DOMAIN f = Fields
  PROVE  LET k == [f EXCEPT !.batch = NoBatch, !.failed = TRUE]
             g == BatchFails(f)
         IN
         /\ Same(f, k, {"batch", "failed"}) /\ DOMAIN k = Fields
         /\ k.batch = NoBatch /\ k.failed = TRUE
         /\ f.batch.by = "chain" =>
              /\ Same(f, g, {"batch", "failed", "pending", "mark", "cut"})
              /\ g.batch = NoBatch /\ g.failed = TRUE /\ g.pending = <<>> /\ g.mark = 0
              /\ DOMAIN g = Fields
         /\ f.batch.by = "end" => g = Caught(k, f.how = "fatal")
         /\ f.batch.by = "poll" => /\ Same(f, g, {"batch", "pc"})
                                   /\ g.batch = NoBatch /\ DOMAIN g = Fields
                                   /\ g.pc = IF f.stop THEN "ended"
                                             ELSE IF f.lost THEN "drop" ELSE "poll"
         /\ f.batch.by = "stop" => /\ Same(f, g, {"batch", "work"})
                                   /\ g.batch = NoBatch /\ DOMAIN g = Fields
                                   /\ g.work = "rejected"
<1> DEFINE k == [f EXCEPT !.batch = NoBatch, !.failed = TRUE]
           j == [f EXCEPT !.batch = NoBatch]
<1>1. /\ Same(f, k, {"batch", "failed"}) /\ DOMAIN k = Fields
      /\ k.batch = NoBatch /\ k.failed = TRUE
  BY DEF Same, Fields
<1>2. CASE f.batch.by = "chain"
  <2>1. BatchFails(f) = Cut([j EXCEPT !.failed = TRUE, !.pending = <<>>, !.mark = 0])
    BY <1>2 DEF BatchFails
  <2> QED BY <1>1, <1>2, <2>1 DEF Same, Fields, Cut
<1>3. CASE f.batch.by = "end"
  <2>1. BatchFails(f) = Caught([j EXCEPT !.failed = TRUE], f.how = "fatal")
    BY <1>3 DEF BatchFails
  <2>2. [j EXCEPT !.failed = TRUE] = k
    OBVIOUS
  <2> QED BY <1>1, <1>3, <2>1, <2>2
<1>4. CASE f.batch.by = "poll"
  <2>1. BatchFails(f) = [j EXCEPT !.pc = IF f.stop THEN "ended" ELSE IF f.lost THEN "drop"
                                         ELSE "poll"]
    BY <1>4 DEF BatchFails
  <2> QED BY <1>1, <1>4, <2>1 DEF Same, Fields
<1>5. CASE f.batch.by = "stop"
  <2>1. BatchFails(f) = [j EXCEPT !.work = "rejected"]
    BY <1>5 DEF BatchFails
  <2> QED BY <1>1, <1>5, <2>1 DEF Same, Fields
<1>6. CASE f.batch.by \notin {"chain", "end", "poll", "stop"}
  BY <1>1, <1>6
<1> QED BY <1>2, <1>3, <1>4, <1>5, <1>6

\* A flush ends.
LEMMA BatchDoneShape ==
  ASSUME NEW r, NEW e, NEW h, NEW o, NEW f, ShapeOf(r, f, e, h, o), DOMAIN f = Fields,
         f.batch # NoBatch, f.batch.by \in {"chain", "end", "poll", "stop"}
  PROVE  ShapeOf(r, BatchDone(f), e, h, o)
<1> DEFINE k == [f EXCEPT !.batch = NoBatch, !.position = Higher(@, f.batch.mark)]
           g == BatchDone(f)
<1>1. /\ Same(f, k, {"batch", "position"}) /\ DOMAIN k = Fields
      /\ k.batch = NoBatch
      /\ f.batch.by = "chain" => g = k
      /\ f.batch.by = "end" => g = NextIteration(k)
      /\ f.batch.by = "poll" => /\ Same(f, g, {"batch", "position", "pc"})
                                /\ g.batch = NoBatch
                                /\ g.pc = "poll"
      /\ f.batch.by = "stop" => /\ Same(f, g, {"batch", "position", "work"})
                                /\ g.batch = NoBatch /\ g.work = "done"
  BY BatchDoneFields
<1> HIDE DEF g, k
<1>2. CASE f.batch.by = "chain"
  <2>1. HoldOf(r, g, e, h, o)
    BY <1>1, <1>2 DEF ShapeOf, HoldOf, Same, Fields
  <2>2. PhaseOf(g, Managed)
    BY <1>1, <1>2 DEF ShapeOf, PhaseOf, Same, Fields
  <2> QED BY <2>1, <2>2 DEF g, ShapeOf
<1>3. CASE f.batch.by = "end"
  <2>0. f.pc = "finishing"
    BY <1>3 DEF ShapeOf, PhaseOf
  <2>1. HoldOf(r, k, e, h, o)
    BY <1>1, <1>3 DEF ShapeOf, HoldOf, Same, Fields
  <2>2. PhaseOf(k, Managed)
    BY <1>1, <1>3 DEF ShapeOf, PhaseOf, Same, Fields, Resting
  <2>3. Idle(k)
    BY <1>1, <2>0 DEF ShapeOf, PhaseOf, Same, Fields, Works, Idle
  <2> QED BY <1>1, <1>3, <2>1, <2>2, <2>3, NextIterationShape DEF ShapeOf, g
<1>4. CASE f.batch.by = "poll"
  <2>1. HoldOf(r, g, e, h, o)
    BY <1>1, <1>4 DEF ShapeOf, HoldOf, Same, Fields, PhaseOf
  <2>2. PhaseOf(g, Managed)
    BY <1>1, <1>4 DEF ShapeOf, PhaseOf, Same, Fields, Resting, Phases
  <2> QED BY <2>1, <2>2 DEF g, ShapeOf
<1>5. CASE f.batch.by = "stop"
  <2>1. HoldOf(r, g, e, h, o)
    BY <1>1, <1>5 DEF ShapeOf, HoldOf, Same, Fields
  <2>2. PhaseOf(g, Managed)
    BY <1>1, <1>5 DEF ShapeOf, PhaseOf, Same, Fields, Resting, Works
  <2> QED BY <2>1, <2>2 DEF g, ShapeOf
<1> QED BY <1>2, <1>3, <1>4, <1>5

\* A flush fails.
LEMMA BatchFailsShape ==
  ASSUME NEW r, NEW e, NEW h, NEW o, NEW f, ShapeOf(r, f, e, h, o), DOMAIN f = Fields,
         f.batch # NoBatch, f.batch.by \in {"chain", "end", "poll", "stop"}
  PROVE  ShapeOf(r, BatchFails(f), e, h, o)
<1> DEFINE k == [f EXCEPT !.batch = NoBatch, !.failed = TRUE]
           g == BatchFails(f)
<1>1. /\ Same(f, k, {"batch", "failed"}) /\ DOMAIN k = Fields
      /\ k.batch = NoBatch
      /\ f.batch.by = "chain" => /\ Same(f, g, {"batch", "failed", "pending", "mark", "cut"})
                                 /\ g.batch = NoBatch /\ g.pending = <<>>
      /\ f.batch.by = "end" => g = Caught(k, f.how = "fatal")
      /\ f.batch.by = "poll" => /\ Same(f, g, {"batch", "pc"})
                                /\ g.batch = NoBatch
                                /\ g.pc = IF f.stop THEN "ended"
                                          ELSE IF f.lost THEN "drop" ELSE "poll"
      /\ f.batch.by = "stop" => /\ Same(f, g, {"batch", "work"})
                                /\ g.batch = NoBatch /\ g.work = "rejected"
  BY BatchFailsFields
<1> HIDE DEF g, k
<1>2. CASE f.batch.by = "chain"
  <2>1. HoldOf(r, g, e, h, o)
    BY <1>1, <1>2 DEF ShapeOf, HoldOf, Same, Fields
  <2>2. PhaseOf(g, Managed)
    BY <1>1, <1>2 DEF ShapeOf, PhaseOf, Same, Fields
  <2> QED BY <2>1, <2>2 DEF g, ShapeOf
<1>3. CASE f.batch.by = "end"
  <2>0. f.pc = "finishing"
    BY <1>3 DEF ShapeOf, PhaseOf
  <2>1. HoldOf(r, k, e, h, o)
    BY <1>1, <1>3 DEF ShapeOf, HoldOf, Same, Fields
  <2>2. PhaseOf(k, Managed)
    BY <1>1, <1>3 DEF ShapeOf, PhaseOf, Same, Fields, Resting
  <2>3. Idle(k)
    BY <1>1, <2>0 DEF ShapeOf, PhaseOf, Same, Fields, Works, Idle
  <2> QED BY <1>1, <1>3, <2>1, <2>2, <2>3, CaughtShape DEF ShapeOf, g
<1>4. CASE f.batch.by = "poll"
  <2>1. HoldOf(r, g, e, h, o)
    BY <1>1, <1>4 DEF ShapeOf, HoldOf, Same, Fields, PhaseOf
  <2>2. PhaseOf(g, Managed)
    BY <1>1, <1>4 DEF ShapeOf, PhaseOf, Same, Fields, Resting, Phases
  <2> QED BY <2>1, <2>2 DEF g, ShapeOf
<1>5. CASE f.batch.by = "stop"
  <2>1. HoldOf(r, g, e, h, o)
    BY <1>1, <1>5 DEF ShapeOf, HoldOf, Same, Fields
  <2>2. PhaseOf(g, Managed)
    BY <1>1, <1>5 DEF ShapeOf, PhaseOf, Same, Fields, Resting, Works
  <2> QED BY <2>1, <2>2 DEF g, ShapeOf
<1> QED BY <1>2, <1>3, <1>4, <1>5

\* A new epoch: its holder knows of it, or the answer is lost.
LEMMA GrantShape ==
  ASSUME ShapeInv, LeaseInv, NEW r \in Runners, run[r].pc = "standby",
         ~run[r].released, mode' = mode, epoch' = epoch + 1, holder' = r,
         \/ Set(r, Granted(run[r], epoch + 1)) /\ orphaned' = orphaned
         \/ UNCHANGED run /\ orphaned' = orphaned \cup {epoch + 1}
  PROVE  ShapeInv'
<1>1. epoch \in Nat /\ epoch + 1 # 0 /\ DOMAIN run[r] = Fields
  BY DEF LeaseInv, RunnerInv
<1>2. ASSUME NEW q \in Runners, q # r
      PROVE  HoldOf(q, run'[q], epoch', holder', orphaned') /\ PhaseOf(run'[q], Managed)
  <2>1. run'[q] = run[q] /\ run[q].lease \in 0 .. epoch
        /\ (run[q].batch # NoBatch => run[q].batch.as \in 0 .. epoch)
    BY <1>2 DEF LeaseInv, Set, RunnerInv, BatchInv
  <2>2. HoldOf(q, run[q], epoch', holder', orphaned')
    BY <1>1, <1>2, <2>1 DEF ShapeInv, HoldOf
  <2> QED BY <2>1, <2>2 DEF ShapeInv
<1>3. HoldOf(r, run'[r], epoch', holder', orphaned') /\ PhaseOf(run'[r], Managed)
  <2> DEFINE f == run[r]
             g == Granted(f, epoch + 1)
  <2>1. HoldOf(r, f, epoch, holder, orphaned) /\ PhaseOf(f, Managed)
        /\ f.lease \in 0 .. epoch /\ f.batch = NoBatch
    BY DEF ShapeInv, LeaseInv, RunnerInv, Quiet
  <2>2. /\ Same(f, g, {"lease", "position", "pc"}) /\ g.lease = epoch + 1
        /\ g.pc \in {"ended", "poll", "load"}
    BY <1>1 DEF Granted, Same, Fields
  <2>3. CASE Set(r, g) /\ orphaned' = orphaned
    <3>1. run'[r] = g
      BY <2>3 DEF LeaseInv, Set
    <3> HIDE DEF f, g
    <3>2. PhaseOf(g, Managed)
      BY <2>1, <2>2 DEF PhaseOf, Same, Fields, Phases, Resting, f
    <3>3. HoldOf(r, g, epoch', holder', orphaned')
      BY <1>1, <2>1, <2>2 DEF HoldOf, Same, Fields, f
    <3> QED BY <3>1, <3>2, <3>3
  <2>4. CASE UNCHANGED run /\ orphaned' = orphaned \cup {epoch + 1}
    BY <1>1, <2>1, <2>4 DEF HoldOf
  <2> QED BY <2>3, <2>4
<1>4. Managed' = Managed
  BY DEF Managed
<1> QED BY <1>2, <1>3, <1>4 DEF ShapeInv

\* What the invariants say of one runner.
LEMMA HasShape ==
  ASSUME ShapeInv, LeaseInv, NEW r \in Runners
  PROVE  /\ ShapeOf(r, run[r], epoch, holder, orphaned)
         /\ DOMAIN run[r] = Fields /\ epoch \in Nat
         /\ RunnerInv(run[r], epoch, holder)
         /\ run[r].batch # NoBatch =>
              /\ DOMAIN run[r].batch = BatchFields
              /\ run[r].batch.by \in {"chain", "end", "poll", "stop"}
              /\ BatchInv(run[r].batch, run[r].lease, epoch)
BY DEF ShapeInv, LeaseInv, ShapeOf, RunnerInv, BatchInv

\* Where a batch moves on, only the batch does.
LEMMA BatchShapes ==
  ASSUME NEW r, NEW e, NEW h, NEW o, NEW f, ShapeOf(r, f, e, h, o), DOMAIN f = Fields,
         f.batch # NoBatch, NEW c, BatchShape(c, Managed), c.by = f.batch.by,
         c.as \in {0, f.lease}
  PROVE  ShapeOf(r, [f EXCEPT !.batch = c], e, h, o)
<1> DEFINE g == [f EXCEPT !.batch = c]
<1>1. Same(f, g, {"batch"}) /\ g.batch = c
  BY DEF Same, Fields
<1> HIDE DEF g
<1>2. HoldOf(r, g, e, h, o)
  BY <1>1 DEF HoldOf, ShapeOf, Same, Fields
<1>3. PhaseOf(g, Managed)
  BY <1>1 DEF PhaseOf, ShapeOf, Same, Fields, Resting
<1> QED BY <1>2, <1>3 DEF g, ShapeOf

\* releaseLease(): of a runner that is otherwise g.
LEMMA ReleaseShape ==
  ASSUME ShapeInv, LeaseInv, NEW r \in Runners, NEW g, Release(r, g),
         PhaseOf(g, Managed),
         holder = r => epoch \in orphaned \/ (epoch # 0 /\ g.lease = epoch) \/ g.pc = "dead",
         g.lease = epoch /\ epoch # 0 => holder \in {r, NoRunner},
         g.batch # NoBatch /\ g.batch.as = epoch /\ epoch # 0 => holder \in {r, NoRunner},
         g.pc = "drop" => g.lost,
         DOMAIN g = Fields, g.lease = run[r].lease, g.released => g.stop
  PROVE  ShapeInv'
<1> DEFINE k == [g EXCEPT !.lease = 0]
<1>1. Set(r, k) /\ mode' = mode /\ epoch' = epoch
  BY DEF Release, config
<1>2. \/ /\ holder' = IF Current(run[r].lease) THEN NoRunner ELSE holder
         /\ orphaned' = orphaned
      \/ /\ run[r].lease # 0 /\ orphaned' = orphaned \cup {run[r].lease} /\ holder' = holder
  BY DEF Release
<1>3. Same(g, k, {"lease"}) /\ k.lease = 0
  BY DEF Same, Fields
<1>4. PhaseOf(k, Managed)
  BY <1>3 DEF PhaseOf, Same, Fields
<1>5. HoldOf(r, k, epoch, holder', orphaned')
  <2> HIDE DEF k
  <2>2. CASE /\ holder' = IF Current(run[r].lease) THEN NoRunner ELSE holder
             /\ orphaned' = orphaned
    BY <1>3, <2>2, RunnerAssumption DEF HoldOf, Same, Fields, Current
  <2>3. CASE run[r].lease # 0 /\ orphaned' = orphaned \cup {run[r].lease} /\ holder' = holder
    BY <1>3, <2>3, RunnerAssumption DEF HoldOf, Same, Fields, Current
  <2> QED BY <1>2, <2>2, <2>3
<1>6. holder' \in {holder, NoRunner} /\ orphaned \subseteq orphaned'
  BY <1>2
<1> QED BY <1>1, <1>4, <1>5, <1>6, StepOfOneShape

\* The steps of the main coroutine.
LEMMA MainShape ==
  ASSUME ShapeInv, LeaseInv, NEW r \in Runners, Main(r)
  PROVE  ShapeInv'
<1> DEFINE f == run[r]
<1>f. /\ ShapeOf(r, f, epoch, holder, orphaned)
      /\ DOMAIN f = Fields /\ epoch \in Nat /\ RunnerInv(f, epoch, holder)
      /\ f.batch # NoBatch =>
           /\ DOMAIN f.batch = BatchFields
           /\ f.batch.by \in {"chain", "end", "poll", "stop"}
           /\ BatchInv(f.batch, f.lease, epoch)
  BY HasShape
<1>1. CASE Register(r)
  <2> DEFINE g == [f EXCEPT !.pc = IF f.stop THEN "ended" ELSE "standby"]
  <2>1. Set(r, g) /\ UNCHANGED <<lease, config, orphaned>>
    BY <1>1 DEF Register
  <2>2. HoldOf(r, g, epoch, holder, orphaned)
    BY <1>f, <1>1 DEF Register, ShapeOf, HoldOf, PhaseOf, Fields
  <2>3. PhaseOf(g, Managed)
    BY <1>f, <1>1 DEF Register, ShapeOf, PhaseOf, Fields, Phases, Resting
  <2> QED BY <2>1, <2>2, <2>3, StepShape
<1>2. CASE Acquire(r)
  BY <1>f, <1>2, GrantShape DEF Acquire, config
<1>3. CASE StandbyStops(r)
  <2> DEFINE g == [f EXCEPT !.pc = "ended"]
  <2>1. Set(r, g) /\ UNCHANGED <<lease, config, orphaned>>
    BY <1>3 DEF StandbyStops
  <2>2. HoldOf(r, g, epoch, holder, orphaned)
    BY <1>f, <1>3 DEF StandbyStops, ShapeOf, HoldOf, PhaseOf, Fields
  <2>3. PhaseOf(g, Managed)
    BY <1>f, <1>3 DEF StandbyStops, ShapeOf, PhaseOf, Fields, Phases, Resting
  <2> QED BY <2>1, <2>2, <2>3, StepShape
<1>4. CASE LoadState(r)
  <2> DEFINE g == [f EXCEPT !.pc = "open",
                            !.mem = IF Managed THEN state[Global] ELSE @]
  <2>1. Set(r, g) /\ UNCHANGED <<lease, config, orphaned>>
    BY <1>4 DEF LoadState
  <2>2. HoldOf(r, g, epoch, holder, orphaned)
    BY <1>f, <1>4 DEF LoadState, ShapeOf, HoldOf, PhaseOf, Fields
  <2>3. PhaseOf(g, Managed)
    BY <1>f, <1>4 DEF LoadState, ShapeOf, PhaseOf, Fields, Phases, Resting
  <2> QED BY <2>1, <2>2, <2>3, StepShape
<1>5. CASE LeaveLoop(r)
  <2> DEFINE g == [f EXCEPT !.pc = IF f.stop THEN "ended" ELSE "drop"]
  <2>1. Set(r, g) /\ UNCHANGED <<lease, config, orphaned>>
    BY <1>5 DEF LeaveLoop
  <2>2. HoldOf(r, g, epoch, holder, orphaned)
    BY <1>f, <1>5 DEF LeaveLoop, ShapeOf, HoldOf, PhaseOf, Fields
  <2>3. PhaseOf(g, Managed)
    BY <1>f, <1>5 DEF LeaveLoop, ShapeOf, PhaseOf, Fields, Phases, Resting
  <2> QED BY <2>1, <2>2, <2>3, StepShape
<1>6. CASE ReloadState(r)
  <2> DEFINE g == [f EXCEPT !.reload = FALSE,
                            !.mem = IF Managed THEN state[Global] ELSE @]
  <2>1. Set(r, g) /\ UNCHANGED <<lease, config, orphaned>>
    BY <1>6 DEF ReloadState
  <2>2. HoldOf(r, g, epoch, holder, orphaned)
    BY <1>f, <1>6 DEF ReloadState, ShapeOf, HoldOf, PhaseOf, Fields
  <2>3. PhaseOf(g, Managed)
    BY <1>f, <1>6 DEF ReloadState, ShapeOf, PhaseOf, Fields, Phases, Resting
  <2> QED BY <2>1, <2>2, <2>3, StepShape
<1>7. CASE OpenStream(r)
  <2> DEFINE g == [f EXCEPT !.pc = "reading",
                            !.streamed = Higher(f.position, cursor)]
  <2>1. Set(r, g) /\ UNCHANGED <<lease, config, orphaned>>
    BY <1>7 DEF OpenStream
  <2>2. HoldOf(r, g, epoch, holder, orphaned)
    BY <1>f, <1>7 DEF OpenStream, ShapeOf, HoldOf, PhaseOf, Fields
  <2>3. PhaseOf(g, Managed)
    BY <1>f, <1>7 DEF OpenStream, ShapeOf, PhaseOf, Fields, Phases, Resting
  <2> QED BY <2>1, <2>2, <2>3, StepShape
<1>8. CASE RequestFenced(r)
  <2> DEFINE k == LoseLease(f)
  <2>1. Same(f, k, {"lost", "cut"}) /\ (f.lost => k.lost) /\ DOMAIN k = Fields
    BY <1>f, LoseLeaseFields
  <2>2. Set(r, Caught(k, FALSE)) /\ UNCHANGED <<lease, config, orphaned>>
    BY <1>8 DEF RequestFenced
  <2> HIDE DEF k
  <2>3. HoldOf(r, k, epoch, holder, orphaned)
    BY <1>f, <2>1 DEF ShapeOf, HoldOf, Same, Fields
  <2>4. PhaseOf(k, Managed)
    BY <1>f, <2>1 DEF ShapeOf, PhaseOf, Same, Fields
  <2>5. Idle(k)
    BY <1>f, <1>8, <2>1 DEF RequestFenced, ShapeOf, PhaseOf, Same, Fields,
       Idle, Resting, Works
  <2>6. ShapeOf(r, Caught(k, FALSE), epoch, holder, orphaned)
    BY <2>3, <2>4, <2>5, CaughtShape DEF ShapeOf
  <2> QED BY <2>2, <2>6, StepShape DEF ShapeOf
<1>9. CASE FallBack(r)
  <2> DEFINE g == [f EXCEPT !.pc = "poll", !.polling = TRUE]
  <2>1. Set(r, g) /\ UNCHANGED <<lease, config, orphaned>>
    BY <1>9 DEF FallBack
  <2>2. HoldOf(r, g, epoch, holder, orphaned)
    BY <1>f, <1>9 DEF FallBack, ShapeOf, HoldOf, PhaseOf, Fields
  <2>3. PhaseOf(g, Managed)
    BY <1>f, <1>9 DEF FallBack, ShapeOf, PhaseOf, Fields, Phases, Resting
  <2> QED BY <2>1, <2>2, <2>3, StepShape
<1>10. CASE Receive(r)
  <2>1. PICK e \in NextAfter(f.streamed) :
          LET full == Len(f.pending) + 1 >= BatchSize IN
          Set(r, [f EXCEPT !.pending = Append(@, e), !.streamed = e, !.got = e,
                           !.mark = Higher(@, e),
                           !.queued = @ \/ full, !.timer = @ \/ ~full])
    BY <1>10 DEF Receive
  <2> DEFINE full == Len(f.pending) + 1 >= BatchSize
             g == [f EXCEPT !.pending = Append(@, e), !.streamed = e, !.got = e,
                            !.mark = Higher(@, e),
                            !.queued = @ \/ full, !.timer = @ \/ ~full]
  <2>2. Set(r, g) /\ UNCHANGED <<lease, config, orphaned>>
    BY <1>10, <2>1 DEF Receive
  <2> HIDE DEF full
  <2>3. HoldOf(r, g, epoch, holder, orphaned)
    BY <1>f, <1>10 DEF Receive, ShapeOf, HoldOf, PhaseOf, Fields
  <2>4. PhaseOf(g, Managed)
    BY <1>f, <1>10 DEF Receive, ShapeOf, PhaseOf, Fields, Phases, Resting
  <2> QED BY <2>2, <2>3, <2>4, StepShape
<1>11. CASE Heartbeat(r)
  <2> DEFINE g == [f EXCEPT !.streamed = published, !.timer = TRUE,
                            !.mark = Higher(@, published)]
  <2>1. Set(r, g) /\ UNCHANGED <<lease, config, orphaned>>
    BY <1>11 DEF Heartbeat
  <2>2. HoldOf(r, g, epoch, holder, orphaned)
    BY <1>f, <1>11 DEF Heartbeat, ShapeOf, HoldOf, PhaseOf, Fields
  <2>3. PhaseOf(g, Managed)
    BY <1>f, <1>11 DEF Heartbeat, ShapeOf, PhaseOf, Fields, Phases, Resting
  <2> QED BY <2>1, <2>2, <2>3, StepShape
<1>e. ASSUME NEW k, NEW how, Same(f, k, {"lost", "cut"}), DOMAIN k = Fields,
             f.lost => k.lost, f.pc = "reading"
      PROVE  ShapeOf(r, Ended(k, how), epoch, holder, orphaned)
  <2> DEFINE g == Ended(k, how)
  <2>1. /\ Same(k, g, {"streamed", "cut", "pc", "how"}) /\ DOMAIN g = Fields
        /\ g.pc = IF k.stop THEN "ended" ELSE IF k.lost THEN "drop" ELSE "final"
    BY <1>e, EndedFields
  <2> HIDE DEF g
  <2>2. HoldOf(r, g, epoch, holder, orphaned)
    BY <1>f, <1>e, <2>1 DEF ShapeOf, HoldOf, Same, Fields
  <2>3. PhaseOf(g, Managed)
    BY <1>f, <1>e, <2>1 DEF ShapeOf, PhaseOf, Same, Fields, Phases, Resting
  <2> QED BY <2>2, <2>3 DEF g, ShapeOf
<1>s. Same(f, f, {"lost", "cut"})
  BY DEF Same
<1>12. CASE StreamCut(r)
  BY <1>f, <1>e, <1>s, <1>12, StepShape DEF StreamCut, ShapeOf
<1>13. CASE StreamFenced(r)
  <2>1. Same(f, LoseLease(f), {"lost", "cut"}) /\ (f.lost => LoseLease(f).lost)
        /\ DOMAIN LoseLease(f) = Fields
    BY <1>f, LoseLeaseFields
  <2> QED BY <1>f, <1>e, <2>1, <1>13, StepShape DEF StreamFenced, ShapeOf
<1>14. CASE FinalFlush(r)
  <2> DEFINE g == Flushed(f, "end")
             k == [g EXCEPT !.pc = "finishing"]
             b == Batch("end", f.pending, f.mark, f.mem)
  <2>1. /\ Same(f, g, {"timer", "pending", "mark", "position", "batch"})
        /\ g.timer = FALSE /\ g.pending = <<>> /\ g.mark = 0
        /\ DOMAIN g = Fields
        /\ \/ g.batch = f.batch
           \/ f.pending # <<>> /\ g.batch = b
    BY <1>f, FlushedFields
  <2>2. f.pending # <<>> => BatchShape(b, Managed) /\ b.as = 0 /\ b.by = "end"
    <3> HIDE DEF f
    <3> QED BY BatchStarts
  <2>3. /\ UNCHANGED <<lease, config, orphaned>>
        /\ \/ g.batch = NoBatch /\ Set(r, NextIteration(g))
           \/ g.batch # NoBatch /\ Set(r, k)
        /\ f.pc = "final" /\ Quiet(f)
    BY <1>14 DEF FinalFlush
  <2> HIDE DEF g, b
  <2>k. Same(g, k, {"pc"}) /\ k.pc = "finishing"
    BY <2>1 DEF Same, Fields
  <2> HIDE DEF k
  <2>4. CASE g.batch = NoBatch
    <3>1. HoldOf(r, g, epoch, holder, orphaned)
      BY <1>f, <2>1, <2>4, <2>3 DEF ShapeOf, HoldOf, Same, Fields
    <3>2. PhaseOf(g, Managed)
      BY <1>f, <2>1, <2>4, <2>3 DEF ShapeOf, PhaseOf, Same, Fields, Resting, Phases
    <3>3. Idle(g)
      BY <1>f, <2>1, <2>4, <2>3 DEF ShapeOf, PhaseOf, Same, Fields, Idle,
         Quiet, Works
    <3> QED BY <2>3, <2>4, <3>1, <3>2, <3>3, NextIterationShape,
               StepShape DEF ShapeOf
  <2>5. CASE g.batch # NoBatch
    <3>1. HoldOf(r, k, epoch, holder, orphaned)
      BY <1>f, <2>1, <2>2, <2>3, <2>5, <2>k DEF ShapeOf, HoldOf, Same, Fields, Quiet
    <3>2. PhaseOf(k, Managed)
      BY <1>f, <2>1, <2>2, <2>3, <2>5, <2>k DEF ShapeOf, PhaseOf, Same, Fields,
         Resting, Phases, Quiet
    <3> QED BY <2>3, <2>5, <3>1, <3>2, StepShape DEF ShapeOf
  <2> QED BY <2>4, <2>5
<1>15. CASE CoolDown(r)
  <2> DEFINE g == [f EXCEPT !.pc = "open", !.pending = <<>>, !.mark = 0,
                            !.got = 0, !.reload = @ \/ f.failed,
                            !.failed = FALSE]
  <2>1. Set(r, g) /\ UNCHANGED <<lease, config, orphaned>>
    BY <1>15 DEF CoolDown
  <2>2. HoldOf(r, g, epoch, holder, orphaned)
    BY <1>f, <1>15 DEF CoolDown, ShapeOf, HoldOf, PhaseOf, Fields
  <2>3. PhaseOf(g, Managed)
    BY <1>f, <1>15 DEF CoolDown, ShapeOf, PhaseOf, Fields, Phases, Resting
  <2> QED BY <2>1, <2>2, <2>3, StepShape
<1>16. CASE Poll(r)
  <2> DEFINE events == Delivery(Higher(f.position, cursor), BatchSize)
             mark == IF Len(events) < BatchSize THEN published
                     ELSE events[Len(events)]
             b == Batch("poll", events, mark, state[Global])
             j == [f EXCEPT !.position = mark]
             k == [f EXCEPT !.pc = "polled", !.batch = b]
  <2>1. /\ UNCHANGED <<lease, config, orphaned>> /\ f.pc = "poll"
        /\ Set(r, j) \/ (events # <<>> /\ Set(r, k))
    BY <1>16 DEF Poll
  <2>2. events # <<>> => BatchShape(b, Managed) /\ b.as = 0 /\ b.by = "poll"
    <3> HIDE DEF f, events, mark
    <3> QED BY BatchStarts
  <2> HIDE DEF b, mark, events
  <2>3. Same(f, j, {"position"}) /\ Same(f, k, {"pc", "batch"}) /\ k.pc = "polled" /\ k.batch = b
    BY <1>f DEF Same, Fields
  <2> HIDE DEF j, k
  <2>4. ShapeOf(r, j, epoch, holder, orphaned)
    <3>1. HoldOf(r, j, epoch, holder, orphaned)
      BY <1>f, <2>3 DEF ShapeOf, HoldOf, Same, Fields
    <3>2. PhaseOf(j, Managed)
      BY <1>f, <2>3 DEF ShapeOf, PhaseOf, Same, Fields
    <3> QED BY <3>1, <3>2 DEF ShapeOf
  <2>5. ASSUME events # <<>> PROVE ShapeOf(r, k, epoch, holder, orphaned)
    <3>1. HoldOf(r, k, epoch, holder, orphaned)
      BY <1>f, <2>1, <2>2, <2>3, <2>5 DEF ShapeOf, HoldOf, Same, Fields
    <3>2. PhaseOf(k, Managed)
      BY <1>f, <2>1, <2>2, <2>3, <2>5 DEF ShapeOf, PhaseOf, Same, Fields,
         Phases, Resting
    <3> QED BY <3>1, <3>2 DEF ShapeOf
  <2> QED BY <2>1, <2>4, <2>5, StepShape DEF ShapeOf
<1>17. CASE DropGrant(r)
  <2> DEFINE k == Dropped(f)
             g == [k EXCEPT !.pc = "standby"]
  <2>1. /\ Same(f, k, {"pending", "mark", "timer", "position", "failed",
                        "reload", "mem", "lease", "lost", "got"})
        /\ k.pending = <<>> /\ k.timer = FALSE /\ k.lease = 0
        /\ k.lost = FALSE /\ k.got = 0 /\ DOMAIN k = Fields
    BY <1>f, DroppedFields
  <2>2. Set(r, g) /\ UNCHANGED <<lease, config, orphaned>>
    BY <1>17 DEF DropGrant
  <2> HIDE DEF k
  <2>3. Same(k, g, {"pc"}) /\ g.pc = "standby"
    BY <2>1 DEF Same, Fields
  <2> HIDE DEF g
  <2>4. f.pc = "drop" /\ Quiet(f) /\ f.lost /\ Fenced(f.lease, epoch, holder)
    BY <1>f, <1>17 DEF DropGrant, ShapeOf, HoldOf, RunnerInv
  <2>5. HoldOf(r, g, epoch, holder, orphaned)
    BY <1>f, <2>1, <2>3, <2>4, RunnerAssumption DEF ShapeOf, HoldOf, Same,
       Fields, Fenced, Quiet
  <2>6. PhaseOf(g, Managed)
    BY <1>f, <2>1, <2>3, <2>4 DEF ShapeOf, PhaseOf, Same, Fields, Phases,
       Resting, Quiet
  <2> QED BY <2>2, <2>5, <2>6, StepShape
<1>18. CASE RunEnds(r)
  <2> DEFINE g == [f EXCEPT !.pc = "ended"]
             k == [g EXCEPT !.lease = 0]
  <2>1. \/ Set(r, g) /\ UNCHANGED <<lease, config, orphaned>>
        \/ Release(r, g)
    BY <1>18 DEF RunEnds
  <2>2. ShapeOf(r, g, epoch, holder, orphaned)
    <3>1. HoldOf(r, g, epoch, holder, orphaned)
      BY <1>f, <1>18 DEF RunEnds, ShapeOf, HoldOf, PhaseOf, Fields
    <3>2. PhaseOf(g, Managed)
      BY <1>f, <1>18 DEF RunEnds, ShapeOf, PhaseOf, Fields, Phases, Resting
    <3> QED BY <3>1, <3>2 DEF ShapeOf
  <2>3. CASE Release(r, g)
    <3>1. g.lease = f.lease /\ g.released = f.released /\ DOMAIN g = Fields
          /\ g.batch = f.batch
      BY <1>f DEF Fields
    <3> HIDE DEF g
    <3> QED BY <1>f, <2>2, <2>3, <3>1, ReleaseShape DEF ShapeOf, HoldOf
  <2> QED BY <2>1, <2>2, <2>3, StepShape DEF ShapeOf
<1> QED BY <1>1, <1>2, <1>3, <1>4, <1>5, <1>6, <1>7, <1>8, <1>9, <1>10, <1>11,
   <1>12, <1>13, <1>14, <1>15, <1>16, <1>17, <1>18 DEF Main

\* The steps of the flush chain.
LEMMA FlushShape ==
  ASSUME ShapeInv, LeaseInv, NEW r \in Runners, Flush(r) \/ TimerFires(r)
  PROVE  ShapeInv'
<1> DEFINE f == run[r]
           b == run[r].batch
<1>f. /\ ShapeOf(r, f, epoch, holder, orphaned)
      /\ DOMAIN f = Fields /\ epoch \in Nat /\ RunnerInv(f, epoch, holder)
      /\ b # NoBatch =>
           /\ DOMAIN b = BatchFields
           /\ b.by \in {"chain", "end", "poll", "stop"}
           /\ BatchInv(b, f.lease, epoch)
           /\ BatchShape(b, Managed)
  BY HasShape DEF ShapeOf, PhaseOf
<1>b. ASSUME NEW c, BatchShape(c, Managed), b # NoBatch, c.by = b.by,
             c.as \in {0, f.lease}
      PROVE  ShapeOf(r, [f EXCEPT !.batch = c], epoch, holder, orphaned)
  BY <1>f, <1>b, BatchShapes
<1>1. CASE ChainFlush(r)
  <2> DEFINE k == [f EXCEPT !.queued = FALSE]
             g == Flushed(k, "chain")
             c == Batch("chain", k.pending, k.mark, k.mem)
  <2>1. /\ Set(r, g) /\ UNCHANGED <<lease, config, orphaned>>
        /\ f.queued /\ b = NoBatch
    BY <1>1 DEF ChainFlush
  <2>2. /\ Same(f, k, {"queued"}) /\ k.queued = FALSE /\ DOMAIN k = Fields
    BY <1>f DEF Same, Fields
  <2> HIDE DEF k
  <2>3. /\ Same(k, g, {"timer", "pending", "mark", "position", "batch"})
        /\ g.timer = FALSE /\ g.pending = <<>> /\ g.mark = 0
        /\ DOMAIN g = Fields
        /\ \/ g.batch = k.batch
           \/ k.pending # <<>> /\ g.batch = c
    BY <2>2, FlushedFields
  <2>4. k.pending # <<>> => BatchShape(c, Managed) /\ c.as = 0 /\ c.by = "chain"
    BY BatchStarts
  <2> HIDE DEF g, c
  <2>5. HoldOf(r, g, epoch, holder, orphaned)
    BY <1>f, <2>1, <2>2, <2>3, <2>4 DEF ShapeOf, HoldOf, Same, Fields
  <2>6. PhaseOf(g, Managed)
    BY <1>f, <2>1, <2>2, <2>3, <2>4 DEF ShapeOf, PhaseOf, Same, Fields, Resting
  <2> QED BY <2>1, <2>5, <2>6, StepShape
<1>2. CASE LoadPartitions(r)
  <2> DEFINE st == [p \in Parts |->
          IF p # Global /\ \E i \in 1 .. Len(b.todo) : Part[b.todo[i]] = p
          THEN state[p] ELSE b.st[p]]
             c == [b EXCEPT !.at = "handle", !.st = st]
  <2>1. /\ Set(r, [f EXCEPT !.batch = c]) /\ UNCHANGED <<lease, config, orphaned>>
        /\ b # NoBatch /\ b.at = "load"
    <3>1. [f EXCEPT !.batch.at = "handle", !.batch.st = st]
            = [f EXCEPT !.batch = c]
      BY <1>f DEF Fields
    <3> QED BY <1>2, <3>1 DEF LoadPartitions
  <2> HIDE DEF st
  <2>2. BatchShape(c, Managed) /\ c.by = b.by /\ c.as = 0
    BY <1>f, <2>1 DEF BatchShape, BatchFields
  <2> HIDE DEF c
  <2> QED BY <1>b, <2>1, <2>2, StepShape DEF ShapeOf
<1>3. CASE Reduce(r)
  <2> DEFINE n == RunLength(b.todo)
             pk == Part[b.todo[1]]
             c == [b EXCEPT !.at = "commit", !.as = run[r].lease, !.pk = pk,
                 !.last = b.todo[n],
                 !.st[pk] = @ \o SubSeq(b.todo, 1, n),
                 !.todo = SubSeq(b.todo, n + 1, Len(b.todo))]
  <2>1. /\ Set(r, [f EXCEPT !.batch = c]) /\ UNCHANGED <<lease, config, orphaned>>
        /\ b # NoBatch /\ Managed
    BY <1>3 DEF Reduce
  <2>2. BatchShape(c, Managed) /\ c.by = b.by /\ c.as = f.lease
    <3> HIDE DEF n, pk
    <3>1. c.at = "commit" /\ c.by = b.by /\ c.as = f.lease
      BY <1>f, <2>1 DEF BatchFields
    <3> HIDE DEF c
    <3> QED BY <2>1, <3>1 DEF BatchShape
  <2> HIDE DEF c
  <2> QED BY <1>b, <2>1, <2>2, StepShape DEF ShapeOf
<1>4. CASE Handle(r)
  <2> DEFINE c == [b EXCEPT !.todo = Tail(@), !.last = Head(b.todo)]
  <2>1. /\ Set(r, [f EXCEPT !.batch = c]) /\ UNCHANGED <<lease, config, orphaned>>
        /\ b # NoBatch /\ ~Managed /\ b.at = "handle"
    BY <1>4 DEF Handle
  <2>2. BatchShape(c, Managed) /\ c.by = b.by /\ c.as = 0
    BY <1>f, <2>1 DEF BatchShape, BatchFields
  <2> HIDE DEF c
  <2> QED BY <1>b, <2>1, <2>2, StepShape DEF ShapeOf
<1>5. CASE Acknowledge(r)
  <2> DEFINE c == [b EXCEPT !.at = "commit", !.as = f.lease]
  <2>1. /\ Set(r, [f EXCEPT !.batch = c]) /\ UNCHANGED <<lease, config, orphaned>>
        /\ b # NoBatch /\ ~Managed /\ b.todo = <<>>
    <3>1. [f EXCEPT !.batch.at = "commit", !.batch.as = f.lease]
            = [f EXCEPT !.batch = c]
      BY <1>f DEF Fields
    <3> QED BY <1>5, <3>1 DEF Acknowledge
  <2>2. BatchShape(c, Managed) /\ c.by = b.by /\ c.as = f.lease
    BY <1>f, <2>1 DEF BatchShape, BatchFields
  <2> HIDE DEF c
  <2> QED BY <1>b, <2>1, <2>2, StepShape DEF ShapeOf
<1>6. CASE BatchStops(r)
  BY <1>f, <1>6, BatchFailsShape, StepShape DEF BatchStops, ShapeOf
<1>7. CASE Saved(r)
  <2> DEFINE g == IF Managed /\ b.pk = Global
                  THEN [f EXCEPT !.mem = b.st[Global]] ELSE f
             c == [b EXCEPT !.at = "handle", !.pk = Global, !.as = 0]
             k == [g EXCEPT !.batch = c]
  <2>1. Same(f, g, {"mem"}) /\ DOMAIN g = Fields /\ g.batch = b
    BY <1>f DEF Same, Fields
  <2>2. /\ b # NoBatch /\ UNCHANGED <<lease, config, orphaned>> /\ b.at = "commit"
        /\ \/ Set(r, BatchDone(g))
           \/ /\ b.todo # <<>>
              /\ Set(r, [g EXCEPT !.batch.at = "handle", !.batch.pk = Global,
                                  !.batch.as = 0])
    BY <1>7 DEF Saved
  <2> HIDE DEF g
  <2>3. ShapeOf(r, g, epoch, holder, orphaned)
    <3>1. HoldOf(r, g, epoch, holder, orphaned)
      BY <1>f, <2>1 DEF ShapeOf, HoldOf, Same, Fields
    <3>2. PhaseOf(g, Managed)
      BY <1>f, <2>1 DEF ShapeOf, PhaseOf, Same, Fields
    <3> QED BY <3>1, <3>2 DEF ShapeOf
  <2>4. ShapeOf(r, BatchDone(g), epoch, holder, orphaned)
    BY <1>f, <2>1, <2>2, <2>3, BatchDoneShape
  <2>5. ASSUME b.todo # <<>> PROVE BatchShape(c, Managed) /\ c.by = b.by /\ c.as = 0
    BY <1>f, <2>2, <2>5 DEF BatchShape, BatchFields
  <2>6. [g EXCEPT !.batch.at = "handle", !.batch.pk = Global, !.batch.as = 0] = k
    BY <2>1 DEF Fields
  <2> HIDE DEF c
  <2>7. ASSUME b.todo # <<>> PROVE ShapeOf(r, k, epoch, holder, orphaned)
    BY <1>f, <2>1, <2>2, <2>3, <2>5, <2>7, BatchShapes
  <2> HIDE DEF k
  <2> QED BY <2>2, <2>4, <2>6, <2>7, StepShape DEF ShapeOf
<1>l. Same(f, LoseLease(f), {"lost", "cut"}) /\ (f.lost => LoseLease(f).lost)
      /\ DOMAIN LoseLease(f) = Fields
  BY <1>f, LoseLeaseFields
<1>8. CASE SaveRefused(r)
  <2> DEFINE g == IF b.as = 0 THEN f ELSE LoseLease(f)
  <2>1. /\ b # NoBatch /\ UNCHANGED <<lease, config, orphaned>>
        /\ Set(r, BatchFails(g))
    BY <1>8 DEF SaveRefused
  <2>2. Same(f, g, {"lost", "cut"}) /\ (f.lost => g.lost) /\ DOMAIN g = Fields
    BY <1>f, <1>l DEF Same
  <2> HIDE DEF g
  <2>3. ShapeOf(r, g, epoch, holder, orphaned) /\ g.batch = b
    <3>1. HoldOf(r, g, epoch, holder, orphaned)
      BY <1>f, <2>2 DEF ShapeOf, HoldOf, Same, Fields
    <3>2. PhaseOf(g, Managed)
      BY <1>f, <2>2 DEF ShapeOf, PhaseOf, Same, Fields
    <3> QED BY <2>2, <3>1, <3>2 DEF ShapeOf, Same, Fields
  <2>4. ShapeOf(r, BatchFails(g), epoch, holder, orphaned)
    BY <1>f, <2>1, <2>2, <2>3, BatchFailsShape
  <2> QED BY <2>1, <2>4, StepShape DEF ShapeOf
<1>9. CASE TimerFires(r)
  <2> DEFINE g == [f EXCEPT !.timer = FALSE, !.queued = TRUE]
  <2>1. Set(r, g) /\ UNCHANGED <<lease, config, orphaned>>
    BY <1>9 DEF TimerFires
  <2>2. HoldOf(r, g, epoch, holder, orphaned)
    BY <1>f, <1>9 DEF TimerFires, ShapeOf, HoldOf, PhaseOf, Fields
  <2>3. PhaseOf(g, Managed)
    BY <1>f, <1>9 DEF TimerFires, ShapeOf, PhaseOf, Fields, Phases, Resting, Works
  <2> QED BY <2>1, <2>2, <2>3, StepShape
<1> QED BY <1>1, <1>2, <1>3, <1>4, <1>5, <1>6, <1>7, <1>8, <1>9 DEF Flush

\* The renewals, stop(), and what goes wrong.
LEMMA OthersShape ==
  ASSUME ShapeInv, LeaseInv, NEW r \in Runners,
         Renew(r) \/ StopWork(r) \/ Misfortune(r)
  PROVE  ShapeInv'
<1> DEFINE f == run[r]
<1>f. /\ ShapeOf(r, f, epoch, holder, orphaned)
      /\ DOMAIN f = Fields /\ epoch \in Nat /\ RunnerInv(f, epoch, holder)
      /\ f.batch # NoBatch => f.batch.by \in {"chain", "end", "poll", "stop"}
  BY HasShape
<1>1. CASE RenewRefused(r)
  <2> DEFINE g == [f EXCEPT !.fenced = f.lease]
  <2>1. Set(r, g) /\ UNCHANGED <<lease, config, orphaned>>
    BY <1>1 DEF RenewRefused
  <2>2. HoldOf(r, g, epoch, holder, orphaned)
    BY <1>f, <1>1 DEF RenewRefused, ShapeOf, HoldOf, PhaseOf, Fields
  <2>3. PhaseOf(g, Managed)
    BY <1>f, <1>1 DEF RenewRefused, ShapeOf, PhaseOf, Fields, Phases, Resting, Works
  <2> QED BY <2>1, <2>2, <2>3, StepShape
<1>2. CASE RenewHeard(r)
  <2> DEFINE k == [f EXCEPT !.fenced = 0]
  <2>1. Same(f, k, {"fenced"}) /\ DOMAIN k = Fields
    BY <1>f DEF Same, Fields
  <2>2. /\ UNCHANGED <<lease, config, orphaned>>
        /\ Set(r, LoseLease(k)) \/ Set(r, k)
    BY <1>2 DEF RenewHeard
  <2> HIDE DEF k
  <2>3. /\ Same(k, LoseLease(k), {"lost", "cut"}) /\ DOMAIN LoseLease(k) = Fields
        /\ (k.lost => LoseLease(k).lost)
    BY <2>1, LoseLeaseFields
  <2>4. ASSUME NEW g, Same(k, g, {"lost", "cut"}), k.lost => g.lost
        PROVE  HoldOf(r, g, epoch, holder, orphaned) /\ PhaseOf(g, Managed)
    <3>1. HoldOf(r, g, epoch, holder, orphaned)
      BY <1>f, <2>1, <2>4 DEF ShapeOf, HoldOf, Same, Fields
    <3>2. PhaseOf(g, Managed)
      BY <1>f, <2>1, <2>4 DEF ShapeOf, PhaseOf, Same, Fields
    <3> QED BY <3>1, <3>2
  <2>5. Same(k, k, {"lost", "cut"})
    BY DEF Same
  <2> QED BY <2>2, <2>3, <2>4, <2>5, StepShape
<1>3. CASE FinishWork(r)
  <2> DEFINE k == Dropped(f)
             g == Flushed(f, "stop")
             c == Batch("stop", f.pending, f.mark, f.mem)
             d1 == [k EXCEPT !.work = "done"]
             d2 == [g EXCEPT !.work = "done"]
             d3 == [g EXCEPT !.work = "flush"]
  <2>1. /\ UNCHANGED <<lease, config, orphaned>> /\ f.work = "wait" /\ f.pc = "ended" /\ Quiet(f)
        /\ \/ f.lost /\ Set(r, d1)
           \/ g.batch = NoBatch /\ Set(r, d2)
           \/ g.batch # NoBatch /\ Set(r, d3)
    BY <1>3 DEF FinishWork
  <2>2. /\ Same(f, k, {"pending", "mark", "timer", "position", "failed",
                        "reload", "mem", "lease", "lost", "got"})
        /\ k.pending = <<>> /\ k.timer = FALSE /\ k.lease = 0
        /\ k.lost = FALSE /\ DOMAIN k = Fields
    BY <1>f, DroppedFields
  <2>3. /\ Same(f, g, {"timer", "pending", "mark", "position", "batch"})
        /\ g.timer = FALSE /\ g.pending = <<>> /\ g.mark = 0
        /\ DOMAIN g = Fields
        /\ \/ g.batch = f.batch
           \/ f.pending # <<>> /\ g.batch = c
    BY <1>f, FlushedFields
  <2>4. f.pending # <<>> => BatchShape(c, Managed) /\ c.as = 0 /\ c.by = "stop"
    <3> HIDE DEF f
    <3> QED BY BatchStarts
  <2> HIDE DEF k, g, c
  <2>5. /\ Same(k, d1, {"work"}) /\ d1.work = "done"
        /\ Same(g, d2, {"work"}) /\ d2.work = "done"
        /\ Same(g, d3, {"work"}) /\ d3.work = "flush"
    BY <2>2, <2>3 DEF Same, Fields
  <2> HIDE DEF d1, d2, d3
  <2>6. ASSUME f.lost PROVE HoldOf(r, d1, epoch, holder, orphaned) /\ PhaseOf(d1, Managed)
    <3>1. Fenced(f.lease, epoch, holder)
      BY <1>f, <2>6 DEF RunnerInv
    <3>2. HoldOf(r, d1, epoch, holder, orphaned)
      BY <1>f, <2>1, <2>2, <2>5, <3>1, RunnerAssumption DEF ShapeOf, HoldOf,
         Same, Fields, Fenced, Quiet
    <3>3. PhaseOf(d1, Managed)
      BY <1>f, <2>1, <2>2, <2>5 DEF ShapeOf, PhaseOf, Same, Fields, Quiet,
         Works, Resting
    <3> QED BY <3>2, <3>3
  <2>7. ASSUME g.batch = NoBatch
        PROVE  HoldOf(r, d2, epoch, holder, orphaned) /\ PhaseOf(d2, Managed)
    <3>2. HoldOf(r, d2, epoch, holder, orphaned)
      BY <1>f, <2>1, <2>3, <2>5, <2>7 DEF ShapeOf, HoldOf, Same, Fields
    <3>3. PhaseOf(d2, Managed)
      BY <1>f, <2>1, <2>3, <2>5, <2>7 DEF ShapeOf, PhaseOf, Same, Fields,
         Quiet, Works, Resting
    <3> QED BY <3>2, <3>3
  <2>8. ASSUME g.batch # NoBatch
        PROVE  HoldOf(r, d3, epoch, holder, orphaned) /\ PhaseOf(d3, Managed)
    <3>1. g.batch = c /\ BatchShape(c, Managed) /\ c.as = 0 /\ c.by = "stop"
      BY <2>1, <2>3, <2>4, <2>8 DEF Quiet
    <3>2. HoldOf(r, d3, epoch, holder, orphaned)
      BY <1>f, <2>1, <2>3, <2>5, <2>8, <3>1 DEF ShapeOf, HoldOf, Same, Fields
    <3>3. PhaseOf(d3, Managed)
      BY <1>f, <2>1, <2>3, <2>5, <2>8, <3>1 DEF ShapeOf, PhaseOf, Same, Fields,
         Quiet, Works, Resting
    <3> QED BY <3>2, <3>3
  <2> QED BY <2>1, <2>6, <2>7, <2>8, StepShape
<1>4. CASE StopReleases(r)
  <2> DEFINE g == [f EXCEPT !.released = TRUE]
  <2>1. Release(r, g) /\ f.stop
    BY <1>4 DEF StopReleases
  <2>2. Same(f, g, {"released"}) /\ DOMAIN g = Fields
    BY <1>f DEF Same, Fields
  <2> HIDE DEF g
  <2>3. PhaseOf(g, Managed)
    BY <1>f, <2>2 DEF ShapeOf, PhaseOf, Same, Fields
  <2> QED BY <1>f, <2>1, <2>2, <2>3, ReleaseShape DEF ShapeOf, HoldOf, Same, Fields
<1>5. CASE AcquireUnheard(r)
  BY <1>f, <1>5, GrantShape DEF AcquireUnheard, config
<1>6. CASE OpenFails(r)
  <2>1. Set(r, Caught(f, FALSE)) /\ UNCHANGED <<lease, config, orphaned>> /\ f.pc = "open"
    BY <1>6 DEF OpenFails
  <2>2. Idle(f)
    BY <1>f, <2>1 DEF ShapeOf, PhaseOf, Idle, Resting, Works
  <2> QED BY <1>f, <2>1, <2>2, CaughtShape, StepShape DEF ShapeOf
<1>7. CASE StreamEnds(r)
  <2>1. PICK how : Set(r, Ended(f, how))
    BY <1>7 DEF StreamEnds
  <2>2. UNCHANGED <<lease, config, orphaned>> /\ f.pc = "reading"
    BY <1>7 DEF StreamEnds
  <2> DEFINE g == Ended(f, how)
  <2>3. /\ Same(f, g, {"streamed", "cut", "pc", "how"}) /\ DOMAIN g = Fields
        /\ g.pc = IF f.stop THEN "ended" ELSE IF f.lost THEN "drop" ELSE "final"
    BY <1>f, EndedFields
  <2> HIDE DEF g
  <2>4. HoldOf(r, g, epoch, holder, orphaned)
    BY <1>f, <2>2, <2>3 DEF ShapeOf, HoldOf, Same, Fields
  <2>5. PhaseOf(g, Managed)
    BY <1>f, <2>2, <2>3 DEF ShapeOf, PhaseOf, Same, Fields, Phases, Resting
  <2> QED BY <2>1, <2>2, <2>4, <2>5, StepShape DEF g
<1>8. CASE BatchFault(r)
  BY <1>f, <1>8, BatchFailsShape, StepShape DEF BatchFault, ShapeOf
<1>9. CASE Stop(r)
  <2> DEFINE k == [f EXCEPT !.stop = TRUE, !.timer = FALSE, !.work = "wait"]
             g == Cut(k)
  <2>1. /\ Set(r, g) /\ UNCHANGED <<lease, config, orphaned>>
        /\ f.pc # "dead" /\ ~f.stop
    BY <1>9 DEF Stop
  <2>2. /\ Same(f, g, {"stop", "timer", "work", "cut"})
        /\ g.stop = TRUE /\ g.timer = FALSE /\ g.work = "wait"
    BY <1>f DEF Same, Fields, Cut
  <2> HIDE DEF g
  <2>4. HoldOf(r, g, epoch, holder, orphaned)
    BY <1>f, <2>1, <2>2 DEF ShapeOf, HoldOf, Same, Fields
  <2>5. PhaseOf(g, Managed)
    BY <1>f, <2>1, <2>2 DEF ShapeOf, PhaseOf, Same, Fields, Works, Resting
  <2> QED BY <2>1, <2>4, <2>5, StepShape
<1>10. CASE StopTimesOut(r)
  <2> DEFINE g == [f EXCEPT !.late = TRUE]
  <2>1. Set(r, g) /\ UNCHANGED <<lease, config, orphaned>>
    BY <1>10 DEF StopTimesOut
  <2>2. HoldOf(r, g, epoch, holder, orphaned)
    BY <1>f, <1>10 DEF StopTimesOut, ShapeOf, HoldOf, PhaseOf, Fields
  <2>3. PhaseOf(g, Managed)
    BY <1>f, <1>10 DEF StopTimesOut, ShapeOf, PhaseOf, Fields, Phases, Resting,
       Works
  <2> QED BY <2>1, <2>2, <2>3, StepShape
<1>11. CASE Fatal(r)
  <2> DEFINE g == [f EXCEPT !.pc = "release"]
  <2>1. Set(r, g) /\ UNCHANGED <<lease, config, orphaned>>
    BY <1>11 DEF Fatal
  <2>2. HoldOf(r, g, epoch, holder, orphaned)
    BY <1>f, <1>11 DEF Fatal, ShapeOf, HoldOf, PhaseOf, Fields
  <2>3. PhaseOf(g, Managed)
    BY <1>f, <1>11 DEF Fatal, ShapeOf, PhaseOf, Fields, Phases, Resting, Works
  <2> QED BY <2>1, <2>2, <2>3, StepShape
<1>12. CASE Crash(r)
  <2> DEFINE g == [Fresh EXCEPT !.pc = "dead"]
  <2>1. Set(r, g) /\ UNCHANGED <<lease, config, orphaned>>
    BY <1>12 DEF Crash
  <2>2. HoldOf(r, g, epoch, holder, orphaned)
    BY <1>f, <1>12 DEF Crash, ShapeOf, HoldOf, PhaseOf, Fields, Fresh
  <2>3. PhaseOf(g, Managed)
    BY <1>f, <1>12 DEF Crash, ShapeOf, PhaseOf, Fields, Phases, Resting, Works,
       Fresh
  <2> QED BY <2>1, <2>2, <2>3, StepShape
<1> QED BY <1>1, <1>2, <1>3, <1>4, <1>5, <1>6, <1>7, <1>8, <1>9, <1>10, <1>11,
   <1>12 DEF Renew, StopWork, Misfortune

\* The shape of the runners is inductive, given their leases.
LEMMA ShapeInductive ==
  /\ Init => ShapeInv
  /\ ShapeInv /\ LeaseInv /\ [Next]_vars => ShapeInv'
<1>1. Init => ShapeInv
  <2> SUFFICES ASSUME Init PROVE ShapeInv
    OBVIOUS
  <2>1. ASSUME NEW r \in Runners
        PROVE  HoldOf(r, Fresh, epoch, holder, orphaned) /\ PhaseOf(Fresh, Managed)
    BY RunnerAssumption DEF Init, Fresh, HoldOf, PhaseOf, Phases, Works, Resting
  <2> QED BY <2>1 DEF Init, ShapeInv
<1>2. ASSUME ShapeInv, LeaseInv, [Next]_vars PROVE ShapeInv'
  <2>1. CASE UNCHANGED <<lease, config, run, orphaned>>
    BY <1>2, <2>1 DEF lease, config, ShapeInv, Managed
  <2>2. ASSUME NEW r \in Runners,
               Main(r) \/ Flush(r) \/ TimerFires(r) \/ Renew(r)
               \/ StopWork(r) \/ Misfortune(r)
        PROVE  ShapeInv'
    BY <1>2, <2>2, MainShape, FlushShape, OthersShape
  <2>3. CASE ExpireAbandoned \/ ExpireLate
    <3>1. epoch' = epoch /\ holder' = NoRunner /\ run' = run /\ mode' = mode
          /\ orphaned' = orphaned
      BY <2>3 DEF ExpireAbandoned, ExpireLate, config
    <3> QED BY <1>2, <3>1, RunnerAssumption DEF ShapeInv, HoldOf, Managed
  <2>4. CASE Publish \/ Rest \/ UNCHANGED vars
    BY <2>1, <2>4 DEF Publish, Rest, vars, lease, config
  <2> QED BY <1>2, <2>2, <2>3, <2>4 DEF Next
<1> QED BY <1>1, <1>2

\* A runner that stop() has stopped keeps no lease from the standbys.
THEOREM StoppedRunnersRelease == Spec => []StoppedReleases
<1>1. LeaseInv /\ ShapeInv => StoppedReleases
  <2> SUFFICES ASSUME LeaseInv, ShapeInv, NEW r \in Runners, run[r].released
               PROVE  run[r].lease = 0 /\ (holder = r => epoch \in orphaned)
    BY DEF StoppedReleases
  <2>1. HoldOf(r, run[r], epoch, holder, orphaned) /\ PhaseOf(run[r], Managed)
    BY DEF ShapeInv
  <2>2. run[r].pc # "dead"
    BY <2>1 DEF HoldOf, PhaseOf
  <2> QED BY <2>1, <2>2 DEF HoldOf
<1> QED BY <1>1, LeaseInductive, ShapeInductive, PTL DEF Spec

\* The type of a batch.
BatchType(b) == b \in Batches

\* The type of a runner, but for its lease and its phase.
TypeOf(f) ==
  /\ f.how \in {"clean", "error", "fatal"}
  /\ f.stop \in BOOLEAN /\ f.late \in BOOLEAN /\ f.released \in BOOLEAN
  /\ f.polling \in BOOLEAN /\ f.lost \in BOOLEAN /\ f.reload \in BOOLEAN
  /\ f.failed \in BOOLEAN /\ f.timer \in BOOLEAN /\ f.queued \in BOOLEAN
  /\ f.cut \in BOOLEAN
  /\ f.mem \in Seq(Matching) /\ f.pending \in Seq(Matching)
  /\ f.mark \in 0 .. N /\ f.position \in 0 .. N /\ f.streamed \in 0 .. N
  /\ f.got \in 0 .. N
  /\ f.batch # NoBatch => BatchType(f.batch)

\* The types of the log, the engine, the environment and the bounds.
GlobalTypes ==
  /\ published \in 0 .. N /\ cursor \in 0 .. N
  /\ state \in [Parts -> Seq(Matching)]
  /\ holder \in Runners \cup {NoRunner}
  /\ mode \in Modes /\ transport \in Transports
  /\ handled \subseteq Matching /\ orphaned \subseteq 0 .. epoch
  /\ faults \in 0 .. MaxFaults /\ ends \in 0 .. MaxEnds

\* All of them.
TypeInv == GlobalTypes /\ \A r \in Runners : TypeOf(run[r])

\* What the assumption on the constants says of the types.
LEMMA Bounds ==
  /\ N \in Nat /\ Matching \subseteq 0 .. N /\ Global \in Parts
  /\ \A e \in Matching : Part[e] \in Parts
  /\ MaxFaults \in Nat /\ MaxEnds \in Nat
BY RunnerAssumption DEF Parts

\* The higher of two positions.
LEMMA HigherIs ==
  ASSUME NEW a \in 0 .. N, NEW b \in 0 .. N
  PROVE  /\ Higher(a, b) \in 0 .. N /\ Higher(a, b) \in Nat
         /\ a <= Higher(a, b) /\ b <= Higher(a, b) /\ Higher(a, b) \in {a, b}
BY Bounds DEF Higher

\* The empty sequence and the first position have their types.
LEMMA Nothing == <<>> \in Seq(Matching) /\ 0 \in 0 .. N /\ N \in Nat
BY Bounds

\* The runs of a batch are not empty, and end where the partition changes.
LEMMA RunLengthIs ==
  ASSUME NEW s \in Seq(Matching), s # <<>>
  PROVE  LET n == RunLength(s) IN
         /\ n \in 1 .. Len(s)
         /\ \A i \in 1 .. n : Part[s[i]] = Part[s[1]]
<1> DEFINE Is(n) == /\ \A i \in 1 .. n : Part[s[i]] = Part[s[1]]
                    /\ n < Len(s) => Part[s[n + 1]] # Part[s[1]]
           S == {n \in 1 .. Len(s) : n < Len(s) => Part[s[n + 1]] # Part[s[1]]}
<1>1. Len(s) \in Nat /\ Len(s) \in S /\ S \in SUBSET Nat
  BY EmptySeq
<1>2. PICK n \in S : \A m \in S : n <= m
  BY <1>1, LeastOf
<1>3. n \in 1 .. Len(s) /\ (n < Len(s) => Part[s[n + 1]] # Part[s[1]])
  OBVIOUS
<1>4. \A i \in 1 .. n : Part[s[i]] = Part[s[1]]
  <2> DEFINE T == {i \in 1 .. n : Part[s[i]] # Part[s[1]]}
  <2>1. T = {}
    <3> SUFFICES ASSUME T # {} PROVE FALSE
      OBVIOUS
    <3>1. T \in SUBSET Nat
      BY <1>3
    <3>2. PICK i \in T : \A m \in T : i <= m
      BY <3>1, LeastOf
    <3>3. i \in 1 .. n /\ i # 1 /\ Part[s[i]] # Part[s[1]]
      BY <3>2
    <3>4. i - 1 \in 1 .. Len(s) /\ i - 1 < n /\ (i - 1) + 1 = i
      BY <1>1, <1>3, <3>3
    <3>5. i - 1 \in S
      BY <3>3, <3>4
    <3>6. n <= i - 1
      BY <1>2, <3>5
    <3> HIDE DEF S, T
    <3> QED BY <1>3, <3>3, <3>4, <3>6
  <2> QED BY <2>1
<1>5. Is(n)
  BY <1>3, <1>4
<1>6. RunLength(s) = CHOOSE k \in 1 .. Len(s) : Is(k)
  BY DEF RunLength
<1> HIDE DEF Is
<1>7. RunLength(s) \in 1 .. Len(s) /\ Is(RunLength(s))
  BY <1>3, <1>5, <1>6
<1> QED BY <1>7 DEF Is

\* The catch of the loop.
LEMMA CaughtType ==
  ASSUME NEW f, DOMAIN f = Fields, TypeOf(f), NEW x
  PROVE  TypeOf(Caught(f, x))
<1> DEFINE g == Caught(f, x)
<1>1. Same(f, g, {"how", "pc"}) /\ g.how = "clean"
  BY CaughtFields
<1> HIDE DEF g
<1>2. TypeOf(g)
  BY <1>1 DEF TypeOf, Same, Fields
<1> QED BY <1>2 DEF g

\* A renew that was refused.
LEMMA LoseLeaseType ==
  ASSUME NEW f, DOMAIN f = Fields, TypeOf(f)
  PROVE  TypeOf(LoseLease(f))
<1>1. CASE f.lease = 0
  BY <1>1 DEF LoseLease
<1>2. CASE f.lease # 0
  BY <1>2 DEF LoseLease, Cut, TypeOf, Fields
<1> QED BY <1>1, <1>2

\* The end of a stream.
LEMMA EndedType ==
  ASSUME NEW f, DOMAIN f = Fields, TypeOf(f), NEW how \in {"clean", "error", "fatal"}
  PROVE  TypeOf(Ended(f, how))
<1>1. CASE f.stop \/ f.lost
  BY <1>1, Bounds DEF Ended, TypeOf, Fields
<1>2. CASE ~(f.stop \/ f.lost)
  BY <1>2, Bounds DEF Ended, TypeOf, Fields
<1> QED BY <1>1, <1>2

\* The end of an iteration.
LEMMA NextIterationType ==
  ASSUME NEW f, DOMAIN f = Fields, TypeOf(f)
  PROVE  TypeOf(NextIteration(f))
<1> DEFINE g == NextIteration(f)
<1>1. CASE \E x \in BOOLEAN : g = Caught(f, x)
  BY <1>1, CaughtType
<1>2. CASE Same(f, g, {"pc"})
  <2> HIDE DEF g
  <2>1. TypeOf(g)
    BY <1>2 DEF TypeOf, Same, Fields
  <2> QED BY <2>1 DEF g
<1>3. CASE /\ Same(f, g, {"pc", "pending", "mark", "got"})
           /\ g.pending = <<>> /\ g.mark = 0 /\ g.got = 0
  <2> HIDE DEF g
  <2>1. TypeOf(g)
    BY <1>3, Nothing DEF TypeOf, Same, Fields
  <2> QED BY <2>1 DEF g
<1>4. \/ \E x \in BOOLEAN : g = Caught(f, x)
      \/ Same(f, g, {"pc"})
      \/ /\ Same(f, g, {"pc", "pending", "mark", "got"})
         /\ g.pending = <<>> /\ g.mark = 0 /\ g.got = 0
  BY NextIterationFields
<1> HIDE DEF g
<1> QED BY <1>1, <1>2, <1>3, <1>4

\* dropGrant().
LEMMA DroppedType ==
  ASSUME NEW f, DOMAIN f = Fields, TypeOf(f)
  PROVE  TypeOf(Dropped(f)) /\ DOMAIN Dropped(f) = Fields
BY Nothing DEF Dropped, TypeOf, Fields

\* A batch as it starts.
LEMMA BatchStartsType ==
  ASSUME NEW by \in {"chain", "end", "poll", "stop"}, NEW s \in Seq(Matching), NEW m \in 0 .. N, NEW g \in Seq(Matching)
  PROVE  /\ BatchType(Batch(by, s, m, g))
         /\ \A p \in Parts : Batch(by, s, m, g).st[p] = IF p = Global THEN g ELSE <<>>
BY Bounds DEF Batch, BatchType, Batches

\* flushPending().
LEMMA FlushedType ==
  ASSUME NEW f, DOMAIN f = Fields, TypeOf(f),
         NEW by \in {"chain", "end", "poll", "stop"}
  PROVE  TypeOf(Flushed(f, by))
<1> DEFINE g == Flushed(f, by)
           b == Batch(by, f.pending, f.mark, f.mem)
<1>1. /\ Same(f, g, {"timer", "pending", "mark", "position", "batch"})
      /\ g.timer = FALSE /\ g.pending = <<>> /\ g.mark = 0
      /\ g.position = f.position \/ g.position = Higher(f.position, f.mark)
      /\ g.batch = f.batch \/ g.batch = b
  BY FlushedFields
<1>2. BatchType(b)
  <2>1. f.pending \in Seq(Matching) /\ f.mark \in 0 .. N /\ f.mem \in Seq(Matching)
    BY DEF TypeOf
  <2> QED BY <2>1, BatchStartsType
<1> HIDE DEF g, b
<1>4. Higher(f.position, f.mark) \in 0 .. N
  BY HigherIs DEF TypeOf
<1>3. TypeOf(g)
  BY <1>1, <1>2, <1>4, Nothing DEF TypeOf, Same, Fields
<1> QED BY <1>3 DEF g

\* A flush ends.
LEMMA BatchDoneType ==
  ASSUME NEW f, DOMAIN f = Fields, TypeOf(f), f.batch # NoBatch,
         f.batch.by \in {"chain", "end", "poll", "stop"}
  PROVE  TypeOf(BatchDone(f))
<1> DEFINE k == [f EXCEPT !.batch = NoBatch, !.position = Higher(@, f.batch.mark)]
           g == BatchDone(f)
<1>1. /\ Same(f, k, {"batch", "position"}) /\ DOMAIN k = Fields
      /\ k.batch = NoBatch /\ k.position = Higher(f.position, f.batch.mark)
      /\ \/ g = k
         \/ g = NextIteration(k)
         \/ Same(f, g, {"batch", "position", "pc"}) /\ g.batch = NoBatch /\ g.position = k.position
         \/ Same(f, g, {"batch", "position", "work"}) /\ g.batch = NoBatch /\ g.position = k.position
  BY BatchDoneFields
<1> HIDE DEF g, k
<1>2. Higher(f.position, f.batch.mark) \in 0 .. N
  BY HigherIs DEF TypeOf, BatchType, Batches
<1>3. TypeOf(k)
  BY <1>1, <1>2 DEF TypeOf, Same, Fields
<1>4. TypeOf(NextIteration(k))
  BY <1>1, <1>3, NextIterationType
<1>5. Same(f, g, {"batch", "position", "pc"}) \/ Same(f, g, {"batch", "position", "work"})
         => (g.batch = NoBatch /\ g.position = k.position => TypeOf(g))
  BY <1>1, <1>2 DEF TypeOf, Same, Fields
<1>6. TypeOf(g)
  BY <1>1, <1>3, <1>4, <1>5
<1> QED BY <1>6 DEF g

\* A flush fails.
LEMMA BatchFailsType ==
  ASSUME NEW f, DOMAIN f = Fields, TypeOf(f), f.batch # NoBatch,
         f.batch.by \in {"chain", "end", "poll", "stop"}
  PROVE  TypeOf(BatchFails(f))
<1> DEFINE k == [f EXCEPT !.batch = NoBatch, !.failed = TRUE]
           g == BatchFails(f)
<1>1. Same(f, k, {"batch", "failed"}) /\ DOMAIN k = Fields /\ k.batch = NoBatch /\ k.failed = TRUE
  BY BatchFailsFields
<1>2. TypeOf(k)
  BY <1>1 DEF TypeOf, Same, Fields
<1>3. CASE f.batch.by = "chain"
  <2> DEFINE j == [[f EXCEPT !.batch = NoBatch]
                     EXCEPT !.failed = TRUE, !.pending = <<>>, !.mark = 0]
  <2>1. g = Cut(j)
    BY <1>3 DEF BatchFails
  <2>2. /\ Same(f, j, {"batch", "failed", "pending", "mark"}) /\ DOMAIN j = Fields
        /\ j.batch = NoBatch /\ j.failed = TRUE /\ j.pending = <<>> /\ j.mark = 0
    BY DEF Same, Fields
  <2> HIDE DEF j
  <2>3. TypeOf(j)
    BY <2>2, Nothing DEF TypeOf, Same, Fields
  <2>4. TypeOf(Cut(j))
    BY <2>2, <2>3 DEF TypeOf, Cut, Fields
  <2> QED BY <2>1, <2>4
<1>4. CASE f.batch.by = "end"
  <2>1. g = Caught(k, f.how = "fatal")
    BY <1>4, BatchFailsFields
  <2> HIDE DEF k, g
  <2>2. TypeOf(Caught(k, f.how = "fatal"))
    BY <1>1, <1>2, CaughtType
  <2>3. TypeOf(g)
    BY <2>1, <2>2
  <2> QED BY <2>3 DEF g
<1>5. CASE f.batch.by = "poll"
  <2>1. Same(f, g, {"batch", "pc"}) /\ g.batch = NoBatch
    BY <1>5, BatchFailsFields
  <2> HIDE DEF g
  <2>2. TypeOf(g)
    BY <2>1 DEF TypeOf, Same, Fields
  <2> QED BY <2>2 DEF g
<1>6. CASE f.batch.by = "stop"
  <2>1. Same(f, g, {"batch", "work"}) /\ g.batch = NoBatch
    BY <1>6, BatchFailsFields
  <2> HIDE DEF g
  <2>2. TypeOf(g)
    BY <2>1 DEF TypeOf, Same, Fields
  <2> QED BY <2>2 DEF g
<1> QED BY <1>3, <1>4, <1>5, <1>6

\* What every step leaves of the other runners.
LEMMA StepType ==
  ASSUME TypeInv, LeaseInv, NEW r \in Runners, NEW g, Set(r, g), TypeOf(g)
  PROVE  \A q \in Runners : TypeOf(run'[q])
BY DEF TypeInv, LeaseInv, Set

\* What the invariants say of the types of one runner.
LEMMA HasType ==
  ASSUME TypeInv, LeaseInv, ShapeInv, NEW r \in Runners
  PROVE  /\ TypeOf(run[r]) /\ DOMAIN run[r] = Fields
         /\ PhaseOf(run[r], Managed)
         /\ run[r].batch # NoBatch =>
              /\ DOMAIN run[r].batch = BatchFields
              /\ run[r].batch.by \in {"chain", "end", "poll", "stop"}
              /\ BatchType(run[r].batch) /\ BatchShape(run[r].batch, Managed)
         /\ run[r].lease \in Nat
         /\ published \in 0 .. N /\ cursor \in 0 .. N
         /\ state \in [Parts -> Seq(Matching)] /\ state[Global] \in Seq(Matching)
BY Bounds DEF TypeInv, LeaseInv, RunnerInv, BatchInv, GlobalTypes, TypeOf,
   ShapeInv, PhaseOf

\* The steps of the main coroutine.
LEMMA MainType ==
  ASSUME TypeInv, LeaseInv, ShapeInv, NEW r \in Runners, Main(r)
  PROVE  \A q \in Runners : TypeOf(run'[q])
<1> DEFINE f == run[r]
<1>f. /\ TypeOf(f) /\ DOMAIN f = Fields /\ PhaseOf(f, Managed)
      /\ published \in 0 .. N /\ cursor \in 0 .. N /\ state[Global] \in Seq(Matching)
  BY HasType
<1>1. CASE Register(r)
  <2> DEFINE g == [f EXCEPT !.pc = IF f.stop THEN "ended" ELSE "standby"]
  <2>1. Set(r, g)
    BY <1>1 DEF Register
  <2>2. TypeOf(g)
    BY <1>f, HigherIs, Nothing DEF TypeOf, Fields
  <2> QED BY <2>1, <2>2, StepType
<1>2. CASE Acquire(r)
  <2> DEFINE g == Granted(f, epoch + 1)
  <2>1. Set(r, g)
    BY <1>2 DEF Acquire
  <2>2. TypeOf(g)
    BY <1>f, HigherIs, Nothing DEF TypeOf, Fields, Granted
  <2> QED BY <2>1, <2>2, StepType
<1>3. CASE StandbyStops(r)
  <2> DEFINE g == [f EXCEPT !.pc = "ended"]
  <2>1. Set(r, g)
    BY <1>3 DEF StandbyStops
  <2>2. TypeOf(g)
    BY <1>f, HigherIs, Nothing DEF TypeOf, Fields
  <2> QED BY <2>1, <2>2, StepType
<1>4. CASE LoadState(r)
  <2> DEFINE g == [f EXCEPT !.pc = "open",
                            !.mem = IF Managed THEN state[Global] ELSE @]
  <2>1. Set(r, g)
    BY <1>4 DEF LoadState
  <2>2. TypeOf(g)
    BY <1>f, HigherIs, Nothing DEF TypeOf, Fields
  <2> QED BY <2>1, <2>2, StepType
<1>5. CASE LeaveLoop(r)
  <2> DEFINE g == [f EXCEPT !.pc = IF f.stop THEN "ended" ELSE "drop"]
  <2>1. Set(r, g)
    BY <1>5 DEF LeaveLoop
  <2>2. TypeOf(g)
    BY <1>f, HigherIs, Nothing DEF TypeOf, Fields
  <2> QED BY <2>1, <2>2, StepType
<1>6. CASE ReloadState(r)
  <2> DEFINE g == [f EXCEPT !.reload = FALSE,
                            !.mem = IF Managed THEN state[Global] ELSE @]
  <2>1. Set(r, g)
    BY <1>6 DEF ReloadState
  <2>2. TypeOf(g)
    BY <1>f, HigherIs, Nothing DEF TypeOf, Fields
  <2> QED BY <2>1, <2>2, StepType
<1>7. CASE OpenStream(r)
  <2> DEFINE g == [f EXCEPT !.pc = "reading",
                            !.streamed = Higher(f.position, cursor)]
  <2>1. Set(r, g)
    BY <1>7 DEF OpenStream
  <2>2. TypeOf(g)
    BY <1>f, HigherIs, Nothing DEF TypeOf, Fields
  <2> QED BY <2>1, <2>2, StepType
<1>8. CASE RequestFenced(r)
  BY <1>f, <1>8, LoseLeaseType, LoseLeaseFields, CaughtType,
     StepType DEF RequestFenced
<1>9. CASE FallBack(r)
  <2> DEFINE g == [f EXCEPT !.pc = "poll", !.polling = TRUE]
  <2>1. Set(r, g)
    BY <1>9 DEF FallBack
  <2>2. TypeOf(g)
    BY <1>f, HigherIs, Nothing DEF TypeOf, Fields
  <2> QED BY <2>1, <2>2, StepType
<1>10. CASE Receive(r)
  <2>1. PICK e \in NextAfter(f.streamed) :
          LET full == Len(f.pending) + 1 >= BatchSize IN
          Set(r, [f EXCEPT !.pending = Append(@, e), !.streamed = e, !.got = e,
                           !.mark = Higher(@, e),
                           !.queued = @ \/ full, !.timer = @ \/ ~full])
    BY <1>10 DEF Receive
  <2> DEFINE full == Len(f.pending) + 1 >= BatchSize
             g == [f EXCEPT !.pending = Append(@, e), !.streamed = e, !.got = e,
                            !.mark = Higher(@, e),
                            !.queued = @ \/ full, !.timer = @ \/ ~full]
  <2>2. Set(r, g)
    BY <2>1
  <2>3. e \in Matching /\ full \in BOOLEAN
    <3>1. e \in Matching
      BY DEF NextAfter
    <3> QED BY <3>1
  <2>6. e \in 0 .. N /\ f.mark \in 0 .. N /\ f.pending \in Seq(Matching)
    BY <1>f, <2>3, Bounds DEF TypeOf
  <2>4. Append(f.pending, e) \in Seq(Matching) /\ Higher(f.mark, e) \in 0 .. N
    <3>1. Append(f.pending, e) \in Seq(Matching)
      BY <2>3, <2>6
    <3>2. Higher(f.mark, e) \in 0 .. N
      BY <2>6 DEF Higher
    <3> QED BY <3>1, <3>2
  <2> HIDE DEF full
  <2>5. TypeOf(g)
    BY <1>f, <2>3, <2>4, <2>6 DEF TypeOf, Fields
  <2> QED BY <2>2, <2>5, StepType
<1>11. CASE Heartbeat(r)
  <2> DEFINE g == [f EXCEPT !.streamed = published, !.timer = TRUE,
                            !.mark = Higher(@, published)]
  <2>1. Set(r, g)
    BY <1>11 DEF Heartbeat
  <2>2. TypeOf(g)
    BY <1>f, HigherIs, Nothing DEF TypeOf, Fields
  <2> QED BY <2>1, <2>2, StepType
<1>12. CASE StreamCut(r)
  BY <1>f, <1>12, EndedType, StepType DEF StreamCut
<1>13. CASE StreamFenced(r)
  BY <1>f, <1>13, LoseLeaseType, LoseLeaseFields, EndedType,
     StepType DEF StreamFenced
<1>14. CASE FinalFlush(r)
  <2> DEFINE g == Flushed(f, "end")
             k == [g EXCEPT !.pc = "finishing"]
  <2>1. TypeOf(g) /\ DOMAIN g = Fields
    BY <1>f, FlushedType, FlushedFields
  <2>2. Set(r, NextIteration(g)) \/ Set(r, k)
    BY <1>14 DEF FinalFlush
  <2> HIDE DEF g
  <2>3. TypeOf(k)
    BY <2>1 DEF TypeOf, Fields
  <2> QED BY <2>1, <2>2, <2>3, NextIterationType, StepType
<1>15. CASE CoolDown(r)
  <2> DEFINE g == [f EXCEPT !.pc = "open", !.pending = <<>>, !.mark = 0,
                            !.got = 0, !.reload = @ \/ f.failed,
                            !.failed = FALSE]
  <2>1. Set(r, g)
    BY <1>15 DEF CoolDown
  <2>2. TypeOf(g)
    BY <1>f, HigherIs, Nothing DEF TypeOf, Fields
  <2> QED BY <2>1, <2>2, StepType
<1>16. CASE Poll(r)
  <2> DEFINE from == Higher(f.position, cursor)
             events == Delivery(from, BatchSize)
             mark == IF Len(events) < BatchSize THEN published
                     ELSE events[Len(events)]
             b == Batch("poll", events, mark, state[Global])
             j == [f EXCEPT !.position = mark]
             k == [f EXCEPT !.pc = "polled", !.batch = b]
  <2>1. Set(r, j) \/ Set(r, k)
    BY <1>16 DEF Poll
  <2>2. from \in Nat /\ published \in Nat /\ BatchSize \in Nat \ {0}
    <3>1. from \in 0 .. N
      BY <1>f, HigherIs DEF TypeOf
    <3> HIDE DEF from
    <3> QED BY <1>f, <3>1, Bounds, Numbers
  <2>3. Leads(from, events, BatchSize)
    BY <2>2, DeliveryIs
  <2>4. events \in Seq(Matching) /\ mark \in 0 .. N
    <3>1. events \in Seq(Matching) /\ Len(events) \in Nat
      BY <2>3 DEF Leads
    <3>2. ~(Len(events) < BatchSize) => Len(events) \in 1 .. Len(events)
      BY <2>2, <3>1
    <3>3. ~(Len(events) < BatchSize) => events[Len(events)] \in Matching
      <4> HIDE DEF events
      <4> QED BY <3>1, <3>2
    <3> QED BY <1>f, <3>1, <3>3, Bounds
  <2> HIDE DEF events, mark, from
  <2>5. BatchType(b)
    BY <1>f, <2>4, BatchStartsType
  <2> HIDE DEF b
  <2>6. TypeOf(j) /\ TypeOf(k)
    BY <1>f, <2>4, <2>5 DEF TypeOf, Fields
  <2> QED BY <2>1, <2>6, StepType
<1>17. CASE DropGrant(r)
  <2> DEFINE k == Dropped(f)
             g == [k EXCEPT !.pc = "standby"]
  <2>1. TypeOf(k) /\ DOMAIN k = Fields
    BY <1>f, DroppedType
  <2>2. Set(r, g)
    BY <1>17 DEF DropGrant
  <2> HIDE DEF k
  <2>3. TypeOf(g)
    BY <2>1 DEF TypeOf, Fields
  <2> QED BY <2>2, <2>3, StepType
<1>18. CASE RunEnds(r)
  <2> DEFINE g == [f EXCEPT !.pc = "ended"]
             k == [g EXCEPT !.lease = 0]
  <2>1. Set(r, g) \/ Set(r, k)
    BY <1>18 DEF RunEnds, Release
  <2>2. TypeOf(g) /\ TypeOf(k)
    BY <1>f DEF TypeOf, Fields
  <2> QED BY <2>1, <2>2, StepType
<1> QED BY <1>1, <1>2, <1>3, <1>4, <1>5, <1>6, <1>7, <1>8, <1>9, <1>10, <1>11,
   <1>12, <1>13, <1>14, <1>15, <1>16, <1>17, <1>18 DEF Main

\* A batch goes on.
LEMMA BatchMovesType ==
  ASSUME NEW f, DOMAIN f = Fields, TypeOf(f), NEW c, BatchType(c)
  PROVE  TypeOf([f EXCEPT !.batch = c])
BY DEF TypeOf, Fields

\* The steps of the flush chain.
LEMMA FlushType ==
  ASSUME TypeInv, LeaseInv, ShapeInv, NEW r \in Runners, Flush(r) \/ TimerFires(r)
  PROVE  \A q \in Runners : TypeOf(run'[q])
<1> DEFINE f == run[r]
           b == run[r].batch
<1>f. /\ TypeOf(f) /\ DOMAIN f = Fields
      /\ b # NoBatch => /\ DOMAIN b = BatchFields
                        /\ b.by \in {"chain", "end", "poll", "stop"}
                        /\ BatchType(b) /\ BatchShape(b, Managed)
      /\ f.lease \in Nat
      /\ state \in [Parts -> Seq(Matching)]
  BY HasType
<1>1. CASE ChainFlush(r)
  <2> DEFINE k == [f EXCEPT !.queued = FALSE]
  <2>1. TypeOf(k) /\ DOMAIN k = Fields
    BY <1>f DEF TypeOf, Fields
  <2>2. Set(r, Flushed(k, "chain"))
    BY <1>1 DEF ChainFlush
  <2> HIDE DEF k
  <2> QED BY <2>1, <2>2, FlushedType, StepType
<1>2. CASE LoadPartitions(r)
  <2> DEFINE st == [p \in Parts |->
          IF p # Global /\ \E i \in 1 .. Len(b.todo) : Part[b.todo[i]] = p
          THEN state[p] ELSE b.st[p]]
             c == [b EXCEPT !.at = "handle", !.st = st]
  <2>1. Set(r, [f EXCEPT !.batch = c]) /\ b # NoBatch
    <3>1. [f EXCEPT !.batch.at = "handle", !.batch.st = st]
            = [f EXCEPT !.batch = c]
      BY <1>f DEF Fields
    <3> QED BY <1>2, <3>1 DEF LoadPartitions
  <2>2. st \in [Parts -> Seq(Matching)]
    BY <1>f, <2>1 DEF BatchType, Batches
  <2> HIDE DEF st
  <2>3. BatchType(c)
    BY <1>f, <2>1, <2>2 DEF BatchType, Batches, BatchFields
  <2> HIDE DEF c
  <2> QED BY <1>f, <2>1, <2>3, BatchMovesType, StepType
<1>3. CASE Reduce(r)
  <2> DEFINE n == RunLength(b.todo)
             pk == Part[b.todo[1]]
             c == [b EXCEPT !.at = "commit", !.as = run[r].lease, !.pk = pk,
                 !.last = b.todo[n],
                 !.st[pk] = @ \o SubSeq(b.todo, 1, n),
                 !.todo = SubSeq(b.todo, n + 1, Len(b.todo))]
  <2>1. Set(r, [f EXCEPT !.batch = c]) /\ b # NoBatch /\ Managed /\ b.at = "handle"
    BY <1>3 DEF Reduce
  <2>2. b.todo \in Seq(Matching) /\ b.todo # <<>> /\ Len(b.todo) \in Nat
    BY <1>f, <2>1, SMTT(20) DEF BatchShape, BatchType, Batches
  <2>3. n \in 1 .. Len(b.todo) /\ 1 \in 1 .. Len(b.todo)
    BY <2>2, RunLengthIs
  <2>4. /\ b.todo[n] \in Matching /\ b.todo[1] \in Matching
        /\ SubSeq(b.todo, 1, n) \in Seq(Matching)
        /\ SubSeq(b.todo, n + 1, Len(b.todo)) \in Seq(Matching)
    <3> HIDE DEF n
    <3>1. \A i \in 1 .. Len(b.todo) : b.todo[i] \in Matching
      BY <2>2
    <3>2. n \in Int /\ n + 1 \in Int /\ Len(b.todo) \in Int
      BY <2>2, <2>3
    <3> QED BY <2>2, <2>3, <3>1, <3>2, SubSeqProperties
  <2>5. pk \in Parts /\ b.st[pk] \in Seq(Matching)
    BY <1>f, <2>1, <2>4, Bounds DEF BatchType, Batches
  <2>6. b.st[pk] \o SubSeq(b.todo, 1, n) \in Seq(Matching)
    BY <2>4, <2>5
  <2>7. BatchType(c)
    <3> DEFINE st == [b.st EXCEPT ![pk] = @ \o SubSeq(b.todo, 1, n)]
    <3>1. st \in [Parts -> Seq(Matching)]
      BY <1>f, <2>1, <2>6 DEF BatchType, Batches
    <3> DEFINE d == [b EXCEPT !.at = "commit", !.as = f.lease, !.pk = pk,
                             !.last = b.todo[n], !.st = st,
                             !.todo = SubSeq(b.todo, n + 1, Len(b.todo))]
    <3>2. c = d
      BY <1>f, <2>1 DEF BatchType, Batches
    <3> HIDE DEF n, pk, st, c
    <3>3. BatchType(d)
      BY <1>f, <2>1, <2>4, <2>5, <3>1, Bounds DEF BatchType, Batches
    <3> QED BY <3>2, <3>3
  <2> HIDE DEF c
  <2> QED BY <1>f, <2>1, <2>7, BatchMovesType, StepType
<1>4. CASE Handle(r)
  <2> DEFINE c == [b EXCEPT !.todo = Tail(@), !.last = Head(b.todo)]
  <2>1. Set(r, [f EXCEPT !.batch = c]) /\ b # NoBatch /\ b.todo # <<>>
    BY <1>4 DEF Handle
  <2>2. Tail(b.todo) \in Seq(Matching) /\ Head(b.todo) \in Matching
    BY <1>f, <2>1, SMTT(20) DEF BatchType, Batches
  <2>3. BatchType(c)
    BY <1>f, <2>1, <2>2, Bounds DEF BatchType, Batches, BatchFields
  <2> HIDE DEF c
  <2> QED BY <1>f, <2>1, <2>3, BatchMovesType, StepType
<1>5. CASE Acknowledge(r)
  <2> DEFINE c == [b EXCEPT !.at = "commit", !.as = f.lease]
  <2>1. Set(r, [f EXCEPT !.batch = c]) /\ b # NoBatch
    <3>1. [f EXCEPT !.batch.at = "commit", !.batch.as = f.lease]
            = [f EXCEPT !.batch = c]
      BY <1>f DEF Fields
    <3> QED BY <1>5, <3>1 DEF Acknowledge
  <2>2. BatchType(c)
    BY <1>f, <2>1 DEF BatchType, Batches, BatchFields
  <2> HIDE DEF c
  <2> QED BY <1>f, <2>1, <2>2, BatchMovesType, StepType
<1>6. CASE BatchStops(r)
  BY <1>f, <1>6, BatchFailsType, StepType DEF BatchStops
<1>7. CASE Saved(r)
  <2> DEFINE g == IF Managed /\ b.pk = Global
                  THEN [f EXCEPT !.mem = b.st[Global]] ELSE f
             c == [b EXCEPT !.at = "handle", !.pk = Global, !.as = 0]
             k == [g EXCEPT !.batch = c]
  <2>1. b # NoBatch /\ (Set(r, BatchDone(g)) \/
             Set(r, [g EXCEPT !.batch.at = "handle", !.batch.pk = Global, !.batch.as = 0]))
    BY <1>7 DEF Saved
  <2>2. TypeOf(g) /\ DOMAIN g = Fields /\ g.batch = b
    <3>1. b.st[Global] \in Seq(Matching)
      BY <1>f, <2>1, Bounds DEF BatchType, Batches
    <3> QED BY <1>f, <3>1 DEF TypeOf, Fields
  <2> HIDE DEF g
  <2>3. BatchType(c)
    BY <1>f, <2>1, Bounds DEF BatchType, Batches, BatchFields
  <2>4. [g EXCEPT !.batch.at = "handle", !.batch.pk = Global, !.batch.as = 0] = k
    BY <2>2 DEF Fields
  <2> HIDE DEF c
  <2>5. TypeOf(k)
    BY <2>2, <2>3, BatchMovesType
  <2>6. TypeOf(BatchDone(g))
    BY <1>f, <2>1, <2>2, BatchDoneType
  <2> QED BY <2>1, <2>4, <2>5, <2>6, StepType
<1>8. CASE SaveRefused(r)
  <2> DEFINE g == IF b.as = 0 THEN f ELSE LoseLease(f)
  <2>1. b # NoBatch /\ Set(r, BatchFails(g))
    BY <1>8 DEF SaveRefused
  <2>2. TypeOf(g) /\ DOMAIN g = Fields /\ g.batch = b
    BY <1>f, LoseLeaseType, LoseLeaseFields DEF Same, Fields
  <2> HIDE DEF g
  <2> QED BY <1>f, <2>1, <2>2, BatchFailsType, StepType
<1>9. CASE TimerFires(r)
  <2> DEFINE g == [f EXCEPT !.timer = FALSE, !.queued = TRUE]
  <2>1. Set(r, g)
    BY <1>9 DEF TimerFires
  <2>2. TypeOf(g)
    BY <1>f, HigherIs, Nothing DEF TypeOf, Fields
  <2> QED BY <2>1, <2>2, StepType
<1> QED BY <1>1, <1>2, <1>3, <1>4, <1>5, <1>6, <1>7, <1>8, <1>9 DEF Flush

\* The renewals, stop(), and what goes wrong.
LEMMA OthersType ==
  ASSUME TypeInv, LeaseInv, ShapeInv, NEW r \in Runners,
         Renew(r) \/ StopWork(r) \/ Misfortune(r)
  PROVE  \A q \in Runners : TypeOf(run'[q])
<1> DEFINE f == run[r]
<1>f. /\ TypeOf(f) /\ DOMAIN f = Fields
      /\ f.batch # NoBatch => f.batch.by \in {"chain", "end", "poll", "stop"}
  BY HasType
<1>1. CASE RenewRefused(r)
  <2> DEFINE g == [f EXCEPT !.fenced = f.lease]
  <2>1. Set(r, g)
    BY <1>1 DEF RenewRefused
  <2>2. TypeOf(g)
    BY <1>f, HigherIs, Nothing DEF TypeOf, Fields
  <2> QED BY <2>1, <2>2, StepType
<1>2. CASE RenewHeard(r)
  <2> DEFINE k == [f EXCEPT !.fenced = 0]
  <2>1. TypeOf(k) /\ DOMAIN k = Fields
    BY <1>f DEF TypeOf, Fields
  <2>2. Set(r, LoseLease(k)) \/ Set(r, k)
    BY <1>2 DEF RenewHeard
  <2> HIDE DEF k
  <2> QED BY <2>1, <2>2, LoseLeaseType, StepType
<1>3. CASE FinishWork(r)
  <2> DEFINE k == Dropped(f)
             g == Flushed(f, "stop")
  <2>1. \/ Set(r, [k EXCEPT !.work = "done"])
        \/ Set(r, [g EXCEPT !.work = "done"])
        \/ Set(r, [g EXCEPT !.work = "flush"])
    BY <1>3 DEF FinishWork
  <2>2. TypeOf(k) /\ DOMAIN k = Fields /\ TypeOf(g) /\ DOMAIN g = Fields
    BY <1>f, DroppedType, FlushedType, FlushedFields
  <2> HIDE DEF k, g
  <2>3. ASSUME NEW j, DOMAIN j = Fields, TypeOf(j), NEW x
        PROVE  TypeOf([j EXCEPT !.work = x])
    BY <2>3 DEF TypeOf, Fields
  <2> QED BY <2>1, <2>2, <2>3, StepType
<1>4. CASE StopReleases(r)
  <2> DEFINE g == [[f EXCEPT !.released = TRUE] EXCEPT !.lease = 0]
  <2>1. Set(r, g)
    BY <1>4 DEF StopReleases, Release
  <2>2. TypeOf(g)
    BY <1>f DEF TypeOf, Fields
  <2> QED BY <2>1, <2>2, StepType
<1>5. CASE AcquireUnheard(r)
  BY <1>5 DEF AcquireUnheard, TypeInv
<1>6. CASE OpenFails(r)
  BY <1>f, <1>6, CaughtType, StepType DEF OpenFails
<1>7. CASE StreamEnds(r)
  <2>1. PICK how \in {"clean", "error", "fatal"} : Set(r, Ended(f, how))
    BY <1>7 DEF StreamEnds
  <2> QED BY <1>f, <2>1, EndedType, StepType
<1>8. CASE BatchFault(r)
  BY <1>f, <1>8, BatchFailsType, StepType DEF BatchFault
<1>9. CASE Stop(r)
  <2> DEFINE g == Cut([f EXCEPT !.stop = TRUE, !.timer = FALSE,
                                !.work = "wait"])
  <2>1. Set(r, g)
    BY <1>9 DEF Stop
  <2>2. TypeOf(g)
    BY <1>f, HigherIs, Nothing DEF TypeOf, Fields, Cut
  <2> QED BY <2>1, <2>2, StepType
<1>10. CASE StopTimesOut(r)
  <2> DEFINE g == [f EXCEPT !.late = TRUE]
  <2>1. Set(r, g)
    BY <1>10 DEF StopTimesOut
  <2>2. TypeOf(g)
    BY <1>f, HigherIs, Nothing DEF TypeOf, Fields
  <2> QED BY <2>1, <2>2, StepType
<1>11. CASE Fatal(r)
  <2> DEFINE g == [f EXCEPT !.pc = "release"]
  <2>1. Set(r, g)
    BY <1>11 DEF Fatal
  <2>2. TypeOf(g)
    BY <1>f, HigherIs, Nothing DEF TypeOf, Fields
  <2> QED BY <2>1, <2>2, StepType
<1>12. CASE Crash(r)
  <2> DEFINE g == [Fresh EXCEPT !.pc = "dead"]
  <2>1. Set(r, g)
    BY <1>12 DEF Crash
  <2>2. TypeOf(g)
    BY <1>f, HigherIs, Nothing DEF TypeOf, Fields, Fresh
  <2> QED BY <2>1, <2>2, StepType
<1> QED BY <1>1, <1>2, <1>3, <1>4, <1>5, <1>6, <1>7, <1>8, <1>9, <1>10, <1>11,
   <1>12 DEF Renew, StopWork, Misfortune

\* The log, the engine and the bounds.
LEMMA GlobalsType ==
  ASSUME TypeInv, LeaseInv, ShapeInv, [Next]_vars
  PROVE  GlobalTypes'
<1> USE Bounds DEF GlobalTypes, log, lease, config, bounds
<1>g. GlobalTypes
  BY DEF TypeInv
<1>b. epoch \in Nat /\ \A r \in Runners : run[r].lease \in 0 .. epoch
  BY DEF LeaseInv, RunnerInv
<1>d. ASSUME NEW r \in Runners, run[r].batch # NoBatch, run[r].batch.at = "commit",
             Landed(run[r].batch)
      PROVE  cursor' \in 0 .. N /\ state' \in [Parts -> Seq(Matching)]
  <2>1. BatchType(run[r].batch)
    BY <1>d, HasType
  <2> QED BY <1>g, <1>d, <2>1 DEF Landed, BatchType, Batches
<1>f. Fault => faults' \in 0 .. MaxFaults
  BY <1>g DEF Fault
<1>e. End => ends' \in 0 .. MaxEnds
  BY <1>g DEF End
<1>1. ASSUME NEW r \in Runners, Main(r) PROVE GlobalTypes'
  <2>1. CASE Acquire(r)
    BY <1>g, <1>b, <2>1 DEF Acquire
  <2>2. CASE RunEnds(r)
    BY <1>g, <1>b, <1>f, <2>2 DEF RunEnds, Release
  <2>3. CASE ~Acquire(r) /\ ~RunEnds(r)
    <3>1. UNCHANGED <<log, lease, config, handled, orphaned, bounds>>
      BY <1>1, <2>3 DEF Main, Register, StandbyStops, LoadState, LeaveLoop,
        ReloadState, OpenStream, RequestFenced, FallBack, Receive, Heartbeat,
        StreamCut, StreamFenced, FinalFlush, CoolDown, Poll, DropGrant
    <3> QED BY <1>g, <3>1
  <2> QED BY <2>1, <2>2, <2>3
<1>2. ASSUME NEW r \in Runners, Flush(r) \/ TimerFires(r) PROVE GlobalTypes'
  <2>1. CASE Handle(r)
    <3>1. run[r].batch.todo \in Seq(Matching) /\ run[r].batch.todo # <<>>
      BY <2>1, HasType DEF Handle, BatchType, Batches
    <3>2. Head(run[r].batch.todo) \in Matching
      BY <3>1
    <3> QED BY <1>g, <2>1, <3>2 DEF Handle
  <2>2. CASE Saved(r)
    BY <1>g, <1>d, <2>2 DEF Saved
  <2>3. CASE ~Handle(r) /\ ~Saved(r)
    <3>1. UNCHANGED <<log, lease, config, handled, orphaned, bounds>>
      BY <1>2, <2>3 DEF Flush, TimerFires, ChainFlush, LoadPartitions, Reduce,
        Acknowledge, BatchStops, SaveRefused
    <3> QED BY <1>g, <3>1
  <2> QED BY <2>1, <2>2, <2>3
<1>3. ASSUME NEW r \in Runners, Renew(r) \/ StopWork(r) PROVE GlobalTypes'
  <2>1. CASE StopReleases(r)
    BY <1>g, <1>b, <1>f, <2>1 DEF StopReleases, Release
  <2>2. CASE ~StopReleases(r)
    <3>1. UNCHANGED <<log, lease, config, handled, orphaned, bounds>>
      BY <1>3, <2>2 DEF Renew, StopWork, RenewRefused, RenewHeard, FinishWork
    <3> QED BY <1>g, <3>1
  <2> QED BY <2>1, <2>2
<1>4. ASSUME NEW r \in Runners, Misfortune(r) PROVE GlobalTypes'
  <2>1. CASE AcquireUnheard(r)
    <3>1. faults' \in 0 .. MaxFaults
      BY <1>f, <2>1 DEF AcquireUnheard
    <3>2. orphaned' \subseteq 0 .. epoch'
      <4>1. epoch' = epoch + 1 /\ orphaned' = orphaned \cup {epoch + 1}
        BY <2>1 DEF AcquireUnheard
      <4>2. orphaned \subseteq 0 .. epoch + 1
        BY <1>g, <1>b
      <4> QED BY <1>b, <4>1, <4>2
    <3>3. holder' = r /\ UNCHANGED <<log, config, handled, ends>>
      BY <2>1 DEF AcquireUnheard
    <3> QED BY <1>g, <3>1, <3>2, <3>3
  <2>2. CASE BatchFault(r)
    BY <1>g, <1>d, <1>f, <2>2 DEF BatchFault
  <2>3. CASE StreamEnds(r)
    BY <1>g, <1>f, <1>e, <2>3 DEF StreamEnds
  <2>4. CASE OpenFails(r)
    BY <1>g, <1>f, <2>4 DEF OpenFails
  <2>5. CASE Stop(r) \/ Fatal(r) \/ Crash(r)
    BY <1>g, <1>e, <2>5 DEF Stop, Fatal, Crash
  <2>6. CASE StopTimesOut(r)
    BY <1>g, <2>6 DEF StopTimesOut
  <2> QED BY <1>4, <2>1, <2>2, <2>3, <2>4, <2>5, <2>6 DEF Misfortune
<1>5. CASE Publish
  BY <1>g, <1>5 DEF Publish
<1>6. CASE ExpireAbandoned \/ ExpireLate
  BY <1>g, <1>f, <1>6 DEF ExpireAbandoned, ExpireLate
<1>7. CASE Rest \/ UNCHANGED vars
  BY <1>g, <1>7 DEF Rest, vars
<1> QED BY <1>1, <1>2, <1>3, <1>4, <1>5, <1>6, <1>7 DEF Next

\* The types are inductive, given the leases and the shape.
LEMMA TypeInductive ==
  /\ Init => TypeInv
  /\ TypeInv /\ LeaseInv /\ ShapeInv /\ [Next]_vars => TypeInv'
<1>1. Init => TypeInv
  <2> SUFFICES ASSUME Init PROVE TypeInv
    OBVIOUS
  <2>1. TypeOf(Fresh)
    BY Bounds DEF Fresh, TypeOf
  <2>2. GlobalTypes
    BY Bounds, RunnerAssumption DEF Init, GlobalTypes
  <2> QED BY <2>1, <2>2 DEF Init, TypeInv
<1>2. ASSUME TypeInv, LeaseInv, ShapeInv, [Next]_vars PROVE TypeInv'
  <2>1. GlobalTypes'
    BY <1>2, GlobalsType
  <2>2. \A q \in Runners : TypeOf(run'[q])
    <3>1. ASSUME NEW r \in Runners,
                 Main(r) \/ Flush(r) \/ TimerFires(r) \/ Renew(r)
                 \/ StopWork(r) \/ Misfortune(r)
          PROVE  \A q \in Runners : TypeOf(run'[q])
      BY <1>2, <3>1, MainType, FlushType, OthersType
    <3>2. CASE run' = run
      BY <1>2, <3>2 DEF TypeInv
    <3>3. Publish \/ ExpireAbandoned \/ ExpireLate \/ Rest \/ UNCHANGED vars => run' = run
      BY DEF Publish, ExpireAbandoned, ExpireLate, Rest, vars
    <3> QED BY <1>2, <3>1, <3>2, <3>3 DEF Next
  <2> QED BY <2>1, <2>2 DEF TypeInv
<1> QED BY <1>1, <1>2

-----------------------------------------------------------------------------
(* FlowInv follows an event from its delivery to its save: of a runner     *)
(* whose lease the engine still accepts, every event up to its mark is     *)
(* saved, pending, or in the batch under way, in the order of the log; the *)
(* states a batch works on are those the engine has, followed by the run   *)
(* of events it is about to save; and of an external projection what the   *)
(* batch is through with, the handler has processed.  Of a runner that is  *)
(* fenced nothing of the kind holds, and nothing needs to: its save is     *)
(* refused.  That is why the invariant needs LeaseInv and ShapeInv, which  *)
(* tell the one from the other.                                            *)
(*                                                                         *)
(* It gives NothingSkipped, StopSaves and PositionCovered, and with        *)
(* TypeInv TypeOK.  With the lemmas on what the recursions UpTo and        *)
(* Between gather, it gives EventsFoldedOnce and the refinement: the       *)
(* runners implement ProjectionFold.                                       *)

\* A batch is in order, and before the frames that are pending.
InOrder(b) ==
  /\ Incr(b.todo) /\ b.last <= b.mark
  /\ \A i \in 1 .. Len(b.todo) : b.last < b.todo[i] /\ b.todo[i] <= b.mark

\* The batch is before the frames of s.
Before(b, s) ==
  \A j \in 1 .. Len(s) : /\ b.last < s[j]
                         /\ \A i \in 1 .. Len(b.todo) : b.todo[i] < s[j]

\* Nothing is pending there, and no mark.
Settled(f) == \/ f.pc \in Resting \cup {"polled", "finishing"}
              \/ f.work \in {"flush", "done", "rejected"}

\* What a runner has taken in is in order.
Ordered(f) ==
  /\ Incr(f.pending)
  /\ \A i \in 1 .. Len(f.pending) : f.pending[i] <= f.mark
  /\ f.pc = "reading" => f.mark <= f.streamed
  /\ Settled(f) => f.mark = 0
  /\ f.reload => f.pending = <<>> /\ f.pc # "reading"
  /\ f.batch # NoBatch => /\ InOrder(f.batch) /\ Before(f.batch, f.pending)
                          /\ f.pc = "reading" => f.batch.mark <= f.streamed

\* The last event taken in is saved, pending, or in the batch.
Got(f, c) ==
  ~f.failed /\ ~f.lost /\ f.work # "rejected" =>
    \/ f.got <= c
    \/ f.pending # <<>> /\ f.got = f.pending[Len(f.pending)]
    \/ /\ f.batch # NoBatch
       /\ f.got = IF f.batch.todo = <<>> THEN f.batch.last
                  ELSE f.batch.todo[Len(f.batch.todo)]

\* Where an event that was delivered is: saved, pending, or in the batch.
InBatch(b, e) == In(b.todo, e) \/ e <= b.last

\* An event that was delivered is saved, pending or in the batch.
Somewhere(f, e, c) ==
  \/ e <= c
  \/ In(f.pending, e)
  \/ f.batch # NoBatch /\ InBatch(f.batch, e)

\* Of the runner that holds the lease.
Ahead(f, c) ==
  /\ \A i \in 1 .. Len(f.pending) : c < f.pending[i]
  /\ f.pc = "reading" => c <= f.streamed
  /\ \A e \in Matching : e <= f.position => e <= c
  /\ ~f.failed => \A e \in Matching :
       e <= f.mark \/ (f.pc = "reading" /\ e <= f.streamed) => Somewhere(f, e, c)

\* The runner's copy of the global state is the engine's.
Folding == {"open", "reading", "final", "finishing", "cool"}

\* The runner's copy of the global state is the engine's.
InStep(f, s) ==
  ~f.failed /\ ~f.reload /\ (f.pc \in Folding \/ f.pending # <<>>) =>
    f.mem = s[Global]

\* q is the run of events that the batch saves next.
RunOf(b, q, c, s) ==
  /\ Incr(q) /\ q # <<>> /\ q[Len(q)] = b.last
  /\ \A i \in 1 .. Len(q) : c < q[i] /\ Part[q[i]] = b.pk
  /\ \A e \in Matching : c < e /\ e <= b.last => In(q, e)
  /\ b.st[b.pk] = s[b.pk] \o q

\* Of a managed batch: its states are the engine's, but for the run it saves.
Folded(b, c, s) ==
  /\ b.at # "commit" => b.last <= c
  /\ b.at # "commit" \/ b.pk # Global => b.st[Global] = s[Global]
  /\ b.at # "load" => \A i \in 1 .. Len(b.todo) :
       b.at # "commit" \/ b.pk # Part[b.todo[i]] =>
         b.st[Part[b.todo[i]]] = s[Part[b.todo[i]]]
  /\ b.at = "commit" => \E q \in Seq(Matching) : RunOf(b, q, c, s)

\* Of a batch of an external handler.
Processing(b, c, h) ==
  /\ \A e \in Matching : e <= b.last => e \in h
  /\ b.todo = <<>> => c < b.last

\* Of a batch whose save the engine would accept.
BatchAhead(b, c, s, h, m) ==
  /\ \A i \in 1 .. Len(b.todo) : c < b.todo[i]
  /\ b.at = "commit" => c < b.last
  /\ \A e \in Matching : e <= b.mark => e <= c \/ InBatch(b, e)
  /\ m => Folded(b, c, s)
  /\ ~m => Processing(b, c, h)

\* The lease that the save of the batch carries or will carry.
AsOf(f) == IF f.batch.as = 0 THEN f.lease ELSE f.batch.as

\* With l, the engine accepts the runner's lease; with a, its batch's.
FlowOf(f, c, s, h, m, l, a) ==
  /\ Ordered(f) /\ Got(f, c)
  /\ l => Ahead(f, c) /\ (m => InStep(f, s))
  /\ f.batch # NoBatch /\ a => BatchAhead(f.batch, c, s, h, m)

\* Nothing is skipped, and the flow is right for every runner.
FlowInv ==
  /\ NothingSkipped
  /\ \A r \in Runners :
       FlowOf(run[r], cursor, state, handled, Managed,
              ~Fenced(run[r].lease, epoch, holder),
              ~Fenced(AsOf(run[r]), epoch, holder))

\* The elements of a sequence of events.
LEMMA Elements ==
  ASSUME NEW s \in Seq(Matching)
  PROVE  /\ Len(s) \in Nat
         /\ \A i \in 1 .. Len(s) : s[i] \in Matching /\ s[i] \in Nat /\ s[i] # 0
         /\ s # <<>> => Len(s) \in 1 .. Len(s) /\ 1 \in 1 .. Len(s)
         /\ \A i \in 1 .. Len(s) : s # <<>> /\ i \in Nat
<1>1. \A i \in 1 .. Len(s) : s[i] \in Matching
  OBVIOUS
<1>2. \A i \in 1 .. Len(s) : s[i] \in Nat /\ s[i] # 0
  BY <1>1, Numbers
<1>3. Len(s) \in Nat /\ (s # <<>> => Len(s) \in 1 .. Len(s) /\ 1 \in 1 .. Len(s))
  OBVIOUS
<1>4. \A i \in 1 .. Len(s) : s # <<>> /\ i \in Nat
  BY <1>3
<1> QED BY <1>1, <1>2, <1>3, <1>4

\* The fields that FlowOf is not about, or only one way.
Aside == {"pc", "how", "stop", "work", "late", "released", "polling", "fenced",
          "timer", "queued", "cut", "streamed", "lost", "lease"}

\* A step that moves no event.
Moves(f, g) ==
  /\ Same(f, g, Aside)
  /\ g.pc = "reading" => f.pc = "reading" /\ g.streamed = f.streamed
  /\ f.lost => g.lost
  /\ f.work = "rejected" => g.work = "rejected"
  /\ Settled(g) => g.mark = 0
  /\ g.lease \in {f.lease, 0}

\* A step that moves no event, for one runner.
LEMMA FlowKept ==
  ASSUME NEW f, NEW g, Moves(f, g), NEW c, NEW s, NEW h, NEW m,
         NEW e, NEW o,
         g.pc \in Folding => f.pc \in Folding \/ Fenced(f.lease, e, o),
         FlowOf(f, c, s, h, m, ~Fenced(f.lease, e, o), ~Fenced(AsOf(f), e, o))
  PROVE  FlowOf(g, c, s, h, m, ~Fenced(g.lease, e, o), ~Fenced(AsOf(g), e, o))
<1>1. /\ g.mem = f.mem /\ g.reload = f.reload /\ g.failed = f.failed
      /\ g.pending = f.pending /\ g.mark = f.mark /\ g.position = f.position
      /\ g.got = f.got /\ g.batch = f.batch
  BY DEF Moves, Same, Aside, Fields
<1>2. ~Fenced(g.lease, e, o) => ~Fenced(f.lease, e, o)
  BY DEF Moves, Fenced
<1>3. ~Fenced(AsOf(g), e, o) => ~Fenced(AsOf(f), e, o)
  BY <1>1 DEF Moves, Fenced, AsOf
<1>4. Ordered(g)
  BY <1>1 DEF FlowOf, Ordered, Moves
<1>5. Got(g, c)
  BY <1>1 DEF FlowOf, Got, Moves
<1>6. Ahead(f, c) => Ahead(g, c)
  BY <1>1 DEF Ahead, Moves, Somewhere
<1>7. ~Fenced(f.lease, e, o) /\ InStep(f, s) => InStep(g, s)
  BY <1>1 DEF InStep
<1> QED BY <1>1, <1>2, <1>3, <1>4, <1>5, <1>6, <1>7 DEF FlowOf

\* With less of the lease, less is claimed.
LEMMA FlowFenced ==
  ASSUME NEW f, NEW c, NEW s, NEW h, NEW m, NEW l, NEW a, NEW k, NEW j,
         FlowOf(f, c, s, h, m, l, a), k => l, f.batch # NoBatch /\ j => a
  PROVE  FlowOf(f, c, s, h, m, k, j)
BY DEF FlowOf

\* More handled.
LEMMA FlowHandled ==
  ASSUME NEW f, NEW c, NEW s, NEW h, NEW m, NEW l, NEW a, NEW k,
         FlowOf(f, c, s, h, m, l, a), h \subseteq k
  PROVE  FlowOf(f, c, s, k, m, l, a)
BY DEF FlowOf, BatchAhead, Processing

\* A step of one runner that saves nothing, and at most frees the lease.
LEMMA StepFlow ==
  ASSUME FlowInv, LeaseInv, NEW r \in Runners, NEW g, Set(r, g),
         cursor' = cursor, state' = state, handled \subseteq handled',
         mode' = mode, epoch' = epoch, holder' \in {holder, NoRunner},
         FlowOf(g, cursor, state, handled', Managed,
                ~Fenced(g.lease, epoch, holder), ~Fenced(AsOf(g), epoch, holder))
  PROVE  FlowInv'
<1>1. ASSUME NEW f, NEW h
      PROVE  /\ ~Fenced(f.lease, epoch', holder') => ~Fenced(f.lease, epoch, holder)
             /\ ~Fenced(AsOf(f), epoch', holder') => ~Fenced(AsOf(f), epoch, holder)
  BY DEF Fenced
<1>2. ASSUME NEW q \in Runners
      PROVE  FlowOf(run'[q], cursor', state', handled', Managed,
                    ~Fenced(run'[q].lease, epoch', holder'),
                    ~Fenced(AsOf(run'[q]), epoch', holder'))
  <2>1. CASE q = r
    <3>1. run'[q] = g
      BY <2>1 DEF LeaseInv, Set
    <3> QED BY <1>1, <3>1, FlowFenced
  <2>2. CASE q # r
    <3>1. run'[q] = run[q]
      BY <2>2 DEF LeaseInv, Set
    <3>2. FlowOf(run[q], cursor, state, handled, Managed,
                 ~Fenced(run[q].lease, epoch, holder),
                 ~Fenced(AsOf(run[q]), epoch, holder))
      BY DEF FlowInv
    <3>3. FlowOf(run[q], cursor, state, handled', Managed,
                 ~Fenced(run[q].lease, epoch, holder),
                 ~Fenced(AsOf(run[q]), epoch, holder))
      BY <3>2, FlowHandled
    <3> QED BY <1>1, <3>1, <3>3, FlowFenced
  <2> QED BY <2>1, <2>2
<1>3. Managed' = Managed
  BY DEF Managed
<1>4. NothingSkipped'
  BY <1>3 DEF FlowInv, NothingSkipped
<1>5. \A q \in Runners : AsOf(run[q])' = AsOf(run'[q])
  BY DEF AsOf
<1> QED BY <1>2, <1>3, <1>4, <1>5 DEF FlowInv

\* A step of one runner that moves no event.
LEMMA StepMoves ==
  ASSUME FlowInv, LeaseInv, NEW r \in Runners, NEW g, Set(r, g),
         cursor' = cursor, state' = state, handled' = handled,
         mode' = mode, epoch' = epoch, holder' \in {holder, NoRunner},
         Moves(run[r], g),
         g.pc \in Folding =>
           run[r].pc \in Folding \/ Fenced(run[r].lease, epoch, holder)
  PROVE  FlowInv'
<1>1. FlowOf(run[r], cursor, state, handled, Managed,
             ~Fenced(run[r].lease, epoch, holder),
             ~Fenced(AsOf(run[r]), epoch, holder))
  BY DEF FlowInv
<1>2. FlowOf(g, cursor, state, handled', Managed,
             ~Fenced(g.lease, epoch, holder), ~Fenced(AsOf(g), epoch, holder))
  BY <1>1, FlowKept
<1> QED BY <1>2, StepFlow

\* What is inductive of the runners.
RunnerInvs == FlowInv /\ TypeInv /\ LeaseInv /\ ShapeInv

\* What the invariants say of one runner.
LEMMA HasFlow ==
  ASSUME RunnerInvs, NEW r \in Runners
  PROVE  /\ FlowOf(run[r], cursor, state, handled, Managed,
                   ~Fenced(run[r].lease, epoch, holder),
                   ~Fenced(AsOf(run[r]), epoch, holder))
         /\ Ordered(run[r])
         /\ TypeOf(run[r]) /\ DOMAIN run[r] = Fields
         /\ PhaseOf(run[r], Managed)
         /\ run[r].pending \in Seq(Matching)
         /\ cursor \in 0 .. N /\ published \in 0 .. N /\ cursor \in Nat
         /\ state \in [Parts -> Seq(Matching)]
<1>1. /\ FlowOf(run[r], cursor, state, handled, Managed,
                ~Fenced(run[r].lease, epoch, holder),
                ~Fenced(AsOf(run[r]), epoch, holder))
      /\ Ordered(run[r])
  BY DEF RunnerInvs, FlowInv, FlowOf
<1>2. run[r].pending \in Seq(Matching) /\ TypeOf(run[r])
  BY DEF RunnerInvs, TypeInv, TypeOf
<1>3. cursor \in 0 .. N /\ cursor \in Nat
  BY Bounds DEF RunnerInvs, TypeInv, GlobalTypes
<1>4. /\ published \in 0 .. N /\ state \in [Parts -> Seq(Matching)]
  BY DEF RunnerInvs, TypeInv, GlobalTypes
<1>5. DOMAIN run[r] = Fields
  BY DEF RunnerInvs, LeaseInv, RunnerInv
<1>6. PhaseOf(run[r], Managed)
  BY DEF RunnerInvs, ShapeInv
<1> QED BY <1>1, <1>2, <1>3, <1>4, <1>5, <1>6

\* The steps that move no event.
LEMMA MovesFlow ==
  ASSUME RunnerInvs, NEW r \in Runners,
         \/ Register(r) \/ StandbyStops(r) \/ LeaveLoop(r) \/ FallBack(r)
         \/ TimerFires(r) \/ RenewRefused(r) \/ Stop(r) \/ StopTimesOut(r)
         \/ Fatal(r) \/ RequestFenced(r) \/ StreamCut(r) \/ StreamFenced(r)
         \/ StreamEnds(r) \/ OpenFails(r) \/ RenewHeard(r) \/ RunEnds(r)
         \/ StopReleases(r)
  PROVE  FlowInv'
<1> DEFINE f == run[r]
<1>f. DOMAIN f = Fields /\ Ordered(f) /\ PhaseOf(f, Managed)
  BY HasFlow
<1>m. ASSUME NEW g, Set(r, g), UNCHANGED <<log, config, handled, epoch>>,
             holder' \in {holder, NoRunner}, Moves(f, g),
             g.pc \in Folding =>
               f.pc \in Folding \/ Fenced(f.lease, epoch, holder)
      PROVE  FlowInv'
  <2>1. /\ cursor' = cursor /\ state' = state /\ handled' = handled
        /\ mode' = mode /\ epoch' = epoch
    BY <1>m DEF log, config
  <2> QED BY <1>m, <2>1, StepMoves DEF RunnerInvs
<1>1. CASE Register(r)
  <2> DEFINE g == [f EXCEPT !.pc = IF f.stop THEN "ended" ELSE "standby"]
  <2>1. Set(r, g) /\ UNCHANGED <<log, lease, config, handled>>
    BY <1>1 DEF Register
  <2>2. Moves(f, g) /\ (g.pc \in Folding => f.pc \in Folding)
    BY <1>f, <1>1 DEF Register, Moves, Same, Aside, Fields, Settled, Resting,
       Ordered, PhaseOf, Folding
  <2> QED BY <2>1, <2>2, <1>m DEF lease
<1>2. CASE StandbyStops(r)
  <2> DEFINE g == [f EXCEPT !.pc = "ended"]
  <2>1. Set(r, g) /\ UNCHANGED <<log, lease, config, handled>>
    BY <1>2 DEF StandbyStops
  <2>2. Moves(f, g) /\ (g.pc \in Folding => f.pc \in Folding)
    BY <1>f, <1>2 DEF StandbyStops, Moves, Same, Aside, Fields, Settled,
       Resting, Ordered, PhaseOf, Folding
  <2> QED BY <2>1, <2>2, <1>m DEF lease
<1>3. CASE LeaveLoop(r)
  <2> DEFINE g == [f EXCEPT !.pc = IF f.stop THEN "ended" ELSE "drop"]
  <2>1. Set(r, g) /\ UNCHANGED <<log, lease, config, handled>>
    BY <1>3 DEF LeaveLoop
  <2>2. Moves(f, g) /\ (g.pc \in Folding => f.pc \in Folding)
    BY <1>f, <1>3 DEF LeaveLoop, Moves, Same, Aside, Fields, Settled, Resting,
       Ordered, PhaseOf, Folding
  <2> QED BY <2>1, <2>2, <1>m DEF lease
<1>4. CASE FallBack(r)
  <2> DEFINE g == [f EXCEPT !.pc = "poll", !.polling = TRUE]
  <2>1. Set(r, g) /\ UNCHANGED <<log, lease, config, handled>>
    BY <1>4 DEF FallBack
  <2>2. Moves(f, g) /\ (g.pc \in Folding => f.pc \in Folding)
    BY <1>f, <1>4 DEF FallBack, Moves, Same, Aside, Fields, Settled, Resting,
       Ordered, PhaseOf, Folding
  <2> QED BY <2>1, <2>2, <1>m DEF lease
<1>5. CASE TimerFires(r)
  <2> DEFINE g == [f EXCEPT !.timer = FALSE, !.queued = TRUE]
  <2>1. Set(r, g) /\ UNCHANGED <<log, lease, config, handled>>
    BY <1>5 DEF TimerFires
  <2>2. Moves(f, g) /\ (g.pc \in Folding => f.pc \in Folding)
    BY <1>f, <1>5 DEF TimerFires, Moves, Same, Aside, Fields, Settled, Resting,
       Ordered, PhaseOf, Folding
  <2> QED BY <2>1, <2>2, <1>m DEF lease
<1>6. CASE RenewRefused(r)
  <2> DEFINE g == [f EXCEPT !.fenced = f.lease]
  <2>1. Set(r, g) /\ UNCHANGED <<log, lease, config, handled>>
    BY <1>6 DEF RenewRefused
  <2>2. Moves(f, g) /\ (g.pc \in Folding => f.pc \in Folding)
    BY <1>f, <1>6 DEF RenewRefused, Moves, Same, Aside, Fields, Settled,
       Resting, Ordered, PhaseOf, Folding
  <2> QED BY <2>1, <2>2, <1>m DEF lease
<1>7. CASE Stop(r)
  <2> DEFINE g == Cut([f EXCEPT !.stop = TRUE, !.timer = FALSE, !.work = "wait"])
  <2>1. Set(r, g) /\ UNCHANGED <<log, lease, config, handled>>
    BY <1>7 DEF Stop
  <2>2. Moves(f, g) /\ (g.pc \in Folding => f.pc \in Folding)
    BY <1>f, <1>7 DEF Stop, Moves, Same, Aside, Fields, Settled, Resting,
       Ordered, PhaseOf, Folding, Cut
  <2> QED BY <2>1, <2>2, <1>m DEF lease
<1>8. CASE StopTimesOut(r)
  <2> DEFINE g == [f EXCEPT !.late = TRUE]
  <2>1. Set(r, g) /\ UNCHANGED <<log, lease, config, handled>>
    BY <1>8 DEF StopTimesOut
  <2>2. Moves(f, g) /\ (g.pc \in Folding => f.pc \in Folding)
    BY <1>f, <1>8 DEF StopTimesOut, Moves, Same, Aside, Fields, Settled,
       Resting, Ordered, PhaseOf, Folding
  <2> QED BY <2>1, <2>2, <1>m DEF lease
<1>9. CASE Fatal(r)
  <2> DEFINE g == [f EXCEPT !.pc = "release"]
  <2>1. Set(r, g) /\ UNCHANGED <<log, lease, config, handled>>
    BY <1>9 DEF Fatal
  <2>2. Moves(f, g) /\ (g.pc \in Folding => f.pc \in Folding)
    BY <1>f, <1>9 DEF Fatal, Moves, Same, Aside, Fields, Settled, Resting,
       Ordered, PhaseOf, Folding
  <2> QED BY <2>1, <2>2, <1>m DEF lease
<1>10. CASE RequestFenced(r)
  <2> DEFINE j == LoseLease(f)
             g == Caught(j, FALSE)
  <2>1. /\ Set(r, g) /\ UNCHANGED <<log, lease, config, handled>>
        /\ f.pc \in {"open", "poll"} /\ Fenced(f.lease, epoch, holder)
    BY <1>10 DEF RequestFenced, Fenced, Current
  <2>2. /\ Same(f, j, {"lost", "cut"}) /\ (f.lost => j.lost) /\ DOMAIN j = Fields
    BY <1>f, LoseLeaseFields
  <2> HIDE DEF j
  <2>3. /\ Same(j, g, {"how", "pc"}) /\ g.pc \in {"ended", "drop", "cool"}
    <3>1. /\ Same(j, Caught(j, FALSE), {"how", "pc"})
          /\ Caught(j, FALSE).pc = IF j.stop THEN "ended" ELSE IF j.lost THEN "drop"
                                  ELSE IF FALSE THEN "release" ELSE "cool"
      BY <2>2, CaughtFields
    <3> QED BY <3>1
  <2> HIDE DEF g
  <2>4. Moves(f, g)
    BY <1>f, <2>1, <2>2, <2>3 DEF Moves, Same, Aside, Fields, Settled, Resting,
       Ordered, PhaseOf, Folding
  <2> QED BY <2>1, <2>4, <1>m DEF lease
<1>11. CASE StreamCut(r) \/ StreamFenced(r) \/ StreamEnds(r)
  <2>1. PICK j, how :
          /\ j \in {f, LoseLease(f)}
          /\ Set(r, Ended(j, how)) /\ UNCHANGED <<log, lease, config, handled>>
          /\ f.pc = "reading"
    <3>1. CASE StreamCut(r)
      BY <3>1 DEF StreamCut
    <3>2. CASE StreamFenced(r)
      BY <3>2 DEF StreamFenced
    <3>3. CASE StreamEnds(r)
      <4>1. \E how : Set(r, Ended(f, how))
        BY <3>3 DEF StreamEnds
      <4> QED BY <3>3, <4>1 DEF StreamEnds
    <3> QED BY <1>11, <3>1, <3>2, <3>3
  <2> DEFINE g == Ended(j, how)
  <2>2. /\ Same(f, j, {"lost", "cut"}) /\ (f.lost => j.lost) /\ DOMAIN j = Fields
    <3>1. CASE j = f
      BY <1>f, <3>1 DEF Same
    <3>2. CASE j = LoseLease(f)
      BY <1>f, <3>2, LoseLeaseFields
    <3> QED BY <2>1, <3>1, <3>2
  <2>3. /\ Same(j, g, {"streamed", "cut", "pc", "how"})
        /\ g.pc \in {"ended", "drop", "final"}
    BY <2>2, EndedFields
  <2>4. Set(r, g)
    BY <2>1
  <2> HIDE DEF g
  <2>5. Moves(f, g) /\ f.pc \in Folding
    BY <1>f, <2>1, <2>2, <2>3 DEF Moves, Same, Aside, Fields, Settled, Resting,
       Ordered, PhaseOf, Folding
  <2> QED BY <2>1, <2>4, <2>5, <1>m DEF lease
<1>12. CASE OpenFails(r)
  <2> DEFINE g == Caught(f, FALSE)
  <2>1. /\ Set(r, g) /\ UNCHANGED <<log, lease, config, handled>> /\ f.pc = "open"
    BY <1>12 DEF OpenFails
  <2>2. Same(f, g, {"how", "pc"}) /\ g.pc \in {"ended", "drop", "cool"}
    BY <1>f, CaughtFields
  <2> HIDE DEF g
  <2>3. Moves(f, g) /\ f.pc \in Folding
    BY <1>f, <2>1, <2>2 DEF Moves, Same, Aside, Fields, Settled, Resting,
       Ordered, PhaseOf, Folding
  <2> QED BY <2>1, <2>3, <1>m DEF lease
<1>13. CASE RenewHeard(r)
  <2> DEFINE j == [f EXCEPT !.fenced = 0]
  <2>1. /\ UNCHANGED <<log, lease, config, handled>>
        /\ Set(r, LoseLease(j)) \/ Set(r, j)
    BY <1>13 DEF RenewHeard
  <2>2. Same(f, j, {"fenced"}) /\ DOMAIN j = Fields
    BY <1>f DEF Same, Fields
  <2> HIDE DEF j
  <2>3. Same(j, LoseLease(j), {"lost", "cut"}) /\ (j.lost => LoseLease(j).lost)
    BY <2>2, LoseLeaseFields
  <2>4. ASSUME NEW g, Same(j, g, {"lost", "cut"}), j.lost => g.lost
        PROVE  Moves(f, g) /\ (g.pc \in Folding => f.pc \in Folding)
    BY <1>f, <2>2, <2>4 DEF Moves, Same, Aside, Fields, Settled, Resting,
       Ordered, PhaseOf, Folding
  <2>5. Same(j, j, {"lost", "cut"})
    BY DEF Same
  <2> QED BY <2>1, <2>3, <2>4, <2>5, <1>m DEF lease
<1>14. CASE RunEnds(r) \/ StopReleases(r)
  <2> DEFINE j == [f EXCEPT !.pc = "ended"]
             k == [f EXCEPT !.released = TRUE]
             g1 == [j EXCEPT !.lease = 0]
             g2 == [k EXCEPT !.lease = 0]
  <2>1. \/ f.pc = "release" /\ (Set(r, j) \/ Set(r, g1))
        \/ Set(r, g2)
    BY <1>14 DEF RunEnds, StopReleases, Release
  <2>2. /\ UNCHANGED <<log, config, handled, epoch>>
        /\ holder' \in {holder, NoRunner}
    BY <1>14 DEF RunEnds, StopReleases, Release, lease
  <2>3. f.pc = "release" => Moves(f, j) /\ Moves(f, g1)
    BY <1>f DEF Moves, Same, Aside, Fields, Settled, Resting, Ordered, PhaseOf,
       Folding
  <2>4. Moves(f, g2) /\ g2.pc = f.pc
    BY <1>f DEF Moves, Same, Aside, Fields, Settled, Resting, Ordered, PhaseOf,
       Folding
  <2>5. j.pc \notin Folding /\ g1.pc \notin Folding
    BY <1>f DEF Folding, Fields
  <2> HIDE DEF j, k, g1, g2
  <2> QED BY <2>1, <2>2, <2>3, <2>4, <2>5, <1>m DEF lease
<1> QED BY <1>1, <1>2, <1>3, <1>4, <1>5, <1>6, <1>7, <1>8, <1>9, <1>10, <1>11,
           <1>12, <1>13, <1>14

\* A runner with nothing pending and no batch.
LEMMA EmptyFlow ==
  ASSUME NEW g, NEW c \in Nat, NEW s, NEW h, NEW m, NEW l, NEW a,
         g.pending = <<>>, g.mark = 0, g.batch = NoBatch, g.pc # "reading",
         Got(g, c),
         l => \A e \in Matching : e <= g.position => e <= c,
         l /\ m => InStep(g, s)
  PROVE  FlowOf(g, c, s, h, m, l, a)
<1>1. Len(g.pending) = 0
  OBVIOUS
<1>2. Ordered(g)
  BY <1>1 DEF Ordered, Incr
<1>3. l => Ahead(g, c)
  <2>1. \A e \in Matching : ~(e <= 0)
    BY Numbers
  <2> QED BY <1>1, <2>1 DEF Ahead
<1> QED BY <1>2, <1>3 DEF FlowOf

\* A batch is one.
LEMMA BatchIs ==
  ASSUME NEW by \in {"chain", "end", "poll", "stop"}, NEW s \in Seq(Matching),
         NEW m \in 0 .. N, NEW g \in Seq(Matching)
  PROVE  Batch(by, s, m, g) # NoBatch
<1>1. BatchType(Batch(by, s, m, g))
  BY BatchStartsType
<1> QED BY <1>1, BatchAssumption DEF BatchType

\* flushPending() of a runner whose chain is quiet.
LEMMA FlushedFlow ==
  ASSUME NEW f, DOMAIN f = Fields, TypeOf(f), f.batch = NoBatch,
         NEW by \in {"chain", "end", "poll", "stop"},
         NEW c \in Nat, NEW s, NEW h, NEW l, NEW a,
         FlowOf(f, c, s, h, Managed, l, a)
  PROVE  FlowOf(Flushed(f, by), c, s, h, Managed, l, l)
<1> DEFINE g == Flushed(f, by)
           b == Batch(by, f.pending, f.mark, f.mem)
<1>1. /\ Same(f, g, {"timer", "pending", "mark", "position", "batch"})
      /\ g.timer = FALSE /\ g.pending = <<>> /\ g.mark = 0
      /\ \/ f.failed /\ g.position = f.position /\ g.batch = f.batch
         \/ /\ ~f.failed /\ f.pending = <<>>
            /\ g.position = Higher(f.position, f.mark) /\ g.batch = f.batch
         \/ /\ ~f.failed /\ f.pending # <<>> /\ g.position = f.position
            /\ g.batch = b
  BY FlushedFields
<1>2. f.pending \in Seq(Matching) /\ f.mark \in 0 .. N /\ f.mem \in Seq(Matching)
      /\ f.position \in 0 .. N
  BY DEF TypeOf
<1>3. f.pending # <<>> =>
        /\ b.todo = f.pending /\ b.mark = f.mark /\ b.last = 0 /\ b.as = 0
        /\ b.pk = Global /\ b.at = (IF Managed THEN "load" ELSE "handle")
        /\ b.st[Global] = f.mem /\ b # NoBatch
  <2> SUFFICES ASSUME f.pending # <<>>
               PROVE  /\ b.todo = f.pending /\ b.mark = f.mark /\ b.last = 0 /\ b.as = 0
                      /\ b.pk = Global /\ b.at = (IF Managed THEN "load" ELSE "handle")
                      /\ b.st[Global] = f.mem /\ b # NoBatch
    OBVIOUS
  <2>1. /\ b.todo = f.pending /\ b.mark = f.mark /\ b.last = 0 /\ b.as = 0
        /\ b.pk = Global /\ b.at = (IF Managed THEN "load" ELSE "handle")
    BY BatchStarts
  <2>2. b.st[Global] = f.mem
    BY <1>2, BatchStartsType, Bounds
  <2>3. b # NoBatch
    BY <1>2, BatchIs
  <2> QED BY <2>1, <2>2, <2>3
<1>4. /\ Len(f.pending) \in Nat
      /\ \A i \in 1 .. Len(f.pending) : f.pending[i] \in Nat /\ f.pending[i] # 0
  BY <1>2, Elements
<1> HIDE DEF g, b
<1>5. Ordered(f) /\ Got(f, c) /\ (l => Ahead(f, c) /\ (Managed => InStep(f, s)))
  BY DEF FlowOf
<1>6. Ordered(g)
  <2>1. Len(g.pending) = 0 /\ Incr(g.pending)
    BY <1>1 DEF Incr
  <2>2. f.pc = g.pc /\ f.reload = g.reload /\ f.streamed = g.streamed
    BY <1>1 DEF Same, Fields
  <2>3. f.mark \in Nat /\ 0 <= f.mark
    BY <1>2, Bounds
  <2>4. ASSUME g.batch # NoBatch
        PROVE  InOrder(g.batch) /\ (g.pc = "reading" => g.batch.mark <= g.streamed)
    <3>1. g.batch = b /\ f.pending # <<>>
      BY <1>1, <2>4
    <3>2. InOrder(b)
      BY <1>3, <1>4, <1>5, <2>3, <3>1 DEF InOrder, Ordered
    <3> QED BY <1>3, <1>5, <2>2, <3>1, <3>2 DEF Ordered
  <2>5. f.pc = "reading" => 0 <= f.streamed
    BY <1>5, <2>3, Bounds DEF Ordered, TypeOf
  <2> QED BY <1>1, <1>5, <2>1, <2>2, <2>4, <2>5 DEF Ordered, Before
<1>7. Got(g, c)
  <2>1. f.failed = g.failed /\ f.lost = g.lost /\ f.work = g.work /\ f.got = g.got
    BY <1>1 DEF Same, Fields
  <2> QED BY <1>1, <1>3, <1>5, <2>1 DEF Got
<1>8. ASSUME l PROVE Ahead(g, c)
  <2>1. f.failed = g.failed /\ f.pc = g.pc /\ f.streamed = g.streamed
    BY <1>1 DEF Same, Fields
  <2>2. Ahead(f, c)
    BY <1>5, <1>8
  <2>3. ASSUME ~f.failed, NEW e \in Matching, Somewhere(f, e, c)
        PROVE  Somewhere(g, e, c)
    BY <1>1, <1>3, <2>3 DEF Somewhere, In, InBatch
  <2>4. ASSUME NEW e \in Matching, e <= g.position PROVE e <= c
    <3>1. CASE g.position = f.position
      BY <2>2, <2>4, <3>1 DEF Ahead
    <3>2. CASE /\ ~f.failed /\ f.pending = <<>>
               /\ g.position = Higher(f.position, f.mark)
      <4>1. e <= f.position \/ e <= f.mark
        BY <2>4, <3>2 DEF Higher
      <4>2. e <= f.mark => Somewhere(f, e, c)
        BY <2>2, <3>2 DEF Ahead
      <4>3. Somewhere(f, e, c) => e <= c
        BY <3>2 DEF Somewhere, In
      <4> QED BY <2>2, <4>1, <4>2, <4>3 DEF Ahead
    <3> QED BY <1>1, <3>1, <3>2
  <2>5. \A e \in Matching : ~(e <= 0)
    BY Numbers
  <2> QED BY <1>1, <2>1, <2>2, <2>3, <2>4, <2>5 DEF Ahead
<1>9. ASSUME l, Managed PROVE InStep(g, s)
  <2>1. /\ f.failed = g.failed /\ f.pc = g.pc /\ f.reload = g.reload
        /\ f.mem = g.mem
    BY <1>1 DEF Same, Fields
  <2> QED BY <1>1, <1>5, <1>9, <2>1 DEF InStep
<1>10. ASSUME g.batch # NoBatch, l PROVE BatchAhead(g.batch, c, s, h, Managed)
  <2>1. g.batch = b /\ f.pending # <<>> /\ ~f.failed
    BY <1>1, <1>10
  <2>2. Ahead(f, c) /\ (Managed => f.mem = s[Global])
    BY <1>5, <1>10, <2>1 DEF InStep, Ordered
  <2>3. \A i \in 1 .. Len(b.todo) : c < b.todo[i]
    BY <1>3, <2>1, <2>2 DEF Ahead
  <2>4. b.at # "commit" /\ (Managed => b.at = "load")
    BY <1>3, <2>1
  <2>5. ASSUME NEW e \in Matching, e <= b.mark PROVE e <= c \/ InBatch(b, e)
    <3>1. Somewhere(f, e, c)
      BY <1>3, <2>1, <2>2, <2>5 DEF Ahead
    <3> QED BY <1>3, <2>1, <3>1 DEF Somewhere, InBatch
  <2>6. Managed => Folded(b, c, s)
    <3>1. Managed => b.last <= c /\ b.st[Global] = s[Global]
      BY <1>3, <2>1, <2>2
    <3> QED BY <2>4, <3>1 DEF Folded
  <2>7. Processing(b, c, h)
    <3>1. \A e \in Matching : ~(e <= 0)
      BY Numbers
    <3> QED BY <1>3, <2>1, <3>1 DEF Processing
  <2> QED BY <2>1, <2>3, <2>4, <2>5, <2>6, <2>7 DEF BatchAhead
<1>11. FlowOf(g, c, s, h, Managed, l, l)
  BY <1>6, <1>7, <1>8, <1>9, <1>10 DEF FlowOf
<1> QED BY <1>11 DEF g

\* The end of an iteration.
LEMMA NextIterationFlow ==
  ASSUME NEW f, DOMAIN f = Fields, f.pc \in Folding, f.batch = NoBatch,
         f.pending = <<>>, f.mark = 0, f.pc # "reading",
         NEW c \in Nat, NEW s, NEW h, NEW m, NEW l, NEW a,
         FlowOf(f, c, s, h, m, l, a)
  PROVE  FlowOf(NextIteration(f), c, s, h, m, l, a)
<1> DEFINE g == NextIteration(f)
<1>0. Got(f, c) /\ (l => Ahead(f, c) /\ (m => InStep(f, s)))
  BY DEF FlowOf
<1>1. \/ \E x \in BOOLEAN : g = Caught(f, x)
      \/ Same(f, g, {"pc"}) /\ g.pc = "ended"
      \/ /\ Same(f, g, {"pc", "pending", "mark", "got"})
         /\ g.pc = "open" /\ g.pending = <<>> /\ g.mark = 0 /\ g.got = 0
  BY NextIterationFields
<1>2. \/ Same(f, g, {"pc", "how"}) /\ g.pc # "reading"
      \/ /\ Same(f, g, {"pc", "pending", "mark", "got"})
         /\ g.pc = "open" /\ g.pending = <<>> /\ g.mark = 0 /\ g.got = 0
  <2>1. ASSUME NEW x \in BOOLEAN, g = Caught(f, x)
        PROVE  Same(f, g, {"pc", "how"}) /\ g.pc # "reading"
    <3>1. /\ Same(f, Caught(f, x), {"how", "pc"})
          /\ Caught(f, x).pc = IF f.stop THEN "ended" ELSE IF f.lost THEN "drop"
                               ELSE IF x THEN "release" ELSE "cool"
      BY CaughtFields
    <3> HIDE DEF g
    <3> QED BY <2>1, <3>1 DEF Same
  <2>2. Same(f, g, {"pc"}) => Same(f, g, {"pc", "how"})
    BY DEF Same
  <2> HIDE DEF g
  <2> QED BY <1>1, <2>1, <2>2
<1> HIDE DEF g
<1>3. /\ g.mem = f.mem /\ g.reload = f.reload /\ g.failed = f.failed
      /\ g.lost = f.lost /\ g.work = f.work
      /\ g.pending = <<>> /\ g.mark = 0 /\ g.position = f.position
      /\ g.got \in {f.got, 0} /\ g.batch = NoBatch /\ g.pc # "reading"
  BY <1>2 DEF Same, Fields
<1>4. Got(g, c)
  BY <1>0, <1>3 DEF Got
<1>5. l => \A e \in Matching : e <= g.position => e <= c
  BY <1>0, <1>3 DEF Ahead
<1>6. l /\ m => InStep(g, s)
  BY <1>0, <1>3 DEF InStep
<1>7. FlowOf(g, c, s, h, m, l, a)
  BY <1>3, <1>4, <1>5, <1>6, EmptyFlow
<1> QED BY <1>7 DEF g

\* flushPending(), whether the engine accepts the lease or not.
LEMMA FlushedFenced ==
  ASSUME NEW f, DOMAIN f = Fields, TypeOf(f), f.batch = NoBatch,
         NEW by \in {"chain", "end", "poll", "stop"},
         NEW c \in Nat, NEW s, NEW h, NEW e, NEW o, NEW a,
         FlowOf(f, c, s, h, Managed, ~Fenced(f.lease, e, o), a)
  PROVE  LET g == Flushed(f, by) IN
         /\ FlowOf(g, c, s, h, Managed, ~Fenced(g.lease, e, o), ~Fenced(AsOf(g), e, o))
         /\ Same(f, g, {"timer", "pending", "mark", "position", "batch"})
         /\ g.pending = <<>> /\ g.mark = 0 /\ DOMAIN g = Fields
<1> DEFINE g == Flushed(f, by)
           b == Batch(by, f.pending, f.mark, f.mem)
           l == ~Fenced(f.lease, e, o)
<1>1. FlowOf(g, c, s, h, Managed, l, l)
  <2>1. FlowOf(f, c, s, h, Managed, l, a)
    OBVIOUS
  <2> HIDE DEF l
  <2> QED BY <2>1, FlushedFlow
<1>2. /\ Same(f, g, {"timer", "pending", "mark", "position", "batch"})
      /\ g.timer = FALSE /\ g.pending = <<>> /\ g.mark = 0
      /\ DOMAIN g = Fields
      /\ \/ f.failed /\ g.position = f.position /\ g.batch = f.batch
         \/ /\ ~f.failed /\ f.pending = <<>>
            /\ g.position = Higher(f.position, f.mark) /\ g.batch = f.batch
         \/ /\ ~f.failed /\ f.pending # <<>> /\ g.position = f.position
            /\ g.batch = b
  BY FlushedFields
<1>3. f.pending # <<>> => b.as = 0
  BY BatchStarts
<1> HIDE DEF g, b
<1>4. g.lease = f.lease
  BY <1>2 DEF Same, Fields
<1>5. g.batch # NoBatch => AsOf(g) = f.lease
  BY <1>2, <1>3, <1>4 DEF AsOf
<1>6. FlowOf(g, c, s, h, Managed, ~Fenced(g.lease, e, o), ~Fenced(AsOf(g), e, o))
  BY <1>1, <1>4, <1>5, FlowFenced
<1> QED BY <1>2, <1>6 DEF g

\* A new epoch: no other runner holds the lease any longer.
LEMMA GrantFlow ==
  ASSUME RunnerInvs, NEW r \in Runners, Acquire(r) \/ AcquireUnheard(r)
  PROVE  FlowInv'
<1> DEFINE f == run[r]
           g == Granted(f, epoch + 1)
<1>1. /\ UNCHANGED <<log, config, handled>> /\ epoch' = epoch + 1
      /\ Set(r, g) \/ run' = run
      /\ f.pc = "standby"
  BY DEF Acquire, AcquireUnheard
<1>2. epoch \in Nat /\ DOMAIN run = Runners
  BY DEF RunnerInvs, LeaseInv
<1>3. ASSUME NEW q \in Runners
      PROVE  /\ run[q].lease # epoch + 1
             /\ run[q].batch # NoBatch => AsOf(run[q]) # epoch + 1
  <2>1. run[q].lease \in 0 .. epoch
        /\ (run[q].batch # NoBatch => run[q].batch.as \in 0 .. epoch)
    BY DEF RunnerInvs, LeaseInv, RunnerInv, BatchInv
  <2> QED BY <1>2, <2>1 DEF AsOf
<1>4. ASSUME NEW q \in Runners, run'[q] = run[q]
      PROVE  FlowOf(run'[q], cursor', state', handled', Managed,
                    ~Fenced(run'[q].lease, epoch', holder'),
                    ~Fenced(AsOf(run'[q]), epoch', holder'))
  <2>1. FlowOf(run[q], cursor, state, handled, Managed,
               ~Fenced(run[q].lease, epoch, holder),
               ~Fenced(AsOf(run[q]), epoch, holder))
    BY HasFlow
  <2>2. /\ Fenced(run[q].lease, epoch', holder')
        /\ run[q].batch # NoBatch => Fenced(AsOf(run[q]), epoch', holder')
    BY <1>1, <1>3 DEF Fenced
  <2>3. cursor' = cursor /\ state' = state /\ handled' = handled
    BY <1>1 DEF log
  <2>4. FlowOf(run[q], cursor', state', handled', Managed,
               ~Fenced(run[q].lease, epoch', holder'),
               ~Fenced(AsOf(run[q]), epoch', holder'))
    BY <2>1, <2>2, <2>3, FlowFenced
  <2> QED BY <1>4, <2>4
<1>5. ASSUME Set(r, g), f.pc = "standby"
      PROVE  FlowOf(run'[r], cursor', state', handled', Managed,
                    ~Fenced(run'[r].lease, epoch', holder'),
                    ~Fenced(AsOf(run'[r]), epoch', holder'))
  <2>1. run'[r] = g
    BY <1>2, <1>5 DEF Set
  <2>2. /\ DOMAIN f = Fields /\ Ordered(f) /\ PhaseOf(f, Managed) /\ cursor \in Nat
    BY HasFlow
  <2>3. /\ f.pending = <<>> /\ f.mark = 0 /\ f.batch = NoBatch /\ f.got = 0
    BY <1>5, <2>2 DEF PhaseOf, Ordered, Settled, Resting
  <2>4. /\ g.pending = <<>> /\ g.mark = 0 /\ g.batch = NoBatch /\ g.got = 0
        /\ g.position = 0 /\ g.pc \in {"ended", "poll", "load"}
    BY <2>2, <2>3 DEF Granted, Fields
  <2> HIDE DEF g
  <2>5. Got(g, cursor) /\ InStep(g, state) /\ g.pc # "reading"
    BY <2>2, <2>4 DEF Got, InStep, Folding
  <2>6. \A e \in Matching : e <= g.position => e <= cursor
    BY <2>2, <2>4, Numbers
  <2>7. \A h, l, a : FlowOf(g, cursor, state, h, Managed, l, a)
    BY <2>2, <2>4, <2>5, <2>6, EmptyFlow
  <2>8. cursor' = cursor /\ state' = state
    BY <1>1 DEF log
  <2> QED BY <2>1, <2>7, <2>8
<1>6. ASSUME NEW q \in Runners
      PROVE  FlowOf(run'[q], cursor', state', handled', Managed,
                    ~Fenced(run'[q].lease, epoch', holder'),
                    ~Fenced(AsOf(run'[q]), epoch', holder'))
  <2>1. CASE q = r /\ Set(r, g)
    <3>1. f.pc = "standby"
      BY DEF Acquire, AcquireUnheard
    <3> QED BY <1>5, <2>1, <3>1
  <2>2. CASE ~(q = r /\ Set(r, g))
    <3>1. run'[q] = run[q]
      BY <1>1, <1>2, <2>2 DEF Set
    <3> QED BY <1>4, <3>1
  <2> QED BY <2>1, <2>2
<1>7. Managed' = Managed /\ NothingSkipped'
  BY <1>1 DEF Managed, RunnerInvs, FlowInv, NothingSkipped, log, config
<1>8. \A q \in Runners : AsOf(run[q])' = AsOf(run'[q])
  BY DEF AsOf
<1> QED BY <1>6, <1>7, <1>8 DEF FlowInv

\* A step of one runner that saves nothing and leaves the lease alone.
LEMMA StepReads ==
  ASSUME RunnerInvs, NEW r \in Runners, NEW g, Set(r, g),
         UNCHANGED <<log, lease, config, handled>>,
         FlowOf(g, cursor, state, handled, Managed,
                ~Fenced(g.lease, epoch, holder), ~Fenced(AsOf(g), epoch, holder))
  PROVE  FlowInv'
<1>1. /\ cursor' = cursor /\ state' = state /\ handled' = handled
      /\ mode' = mode /\ epoch' = epoch /\ holder' = holder
  BY DEF log, lease, config
<1> QED BY <1>1, StepFlow DEF RunnerInvs

\* The steps before a stream or a poll, and the ends of a runner.
LEMMA QuietFlow ==
  ASSUME RunnerInvs, NEW r \in Runners,
         LoadState(r) \/ ReloadState(r) \/ CoolDown(r) \/ DropGrant(r) \/ Crash(r)
  PROVE  FlowInv'
<1> DEFINE f == run[r]
<1>f. /\ DOMAIN f = Fields /\ Ordered(f) /\ PhaseOf(f, Managed) /\ cursor \in Nat
      /\ FlowOf(f, cursor, state, handled, Managed,
                ~Fenced(f.lease, epoch, holder), ~Fenced(AsOf(f), epoch, holder))
  BY HasFlow
<1>a. /\ Got(f, cursor)
      /\ ~Fenced(f.lease, epoch, holder) =>
           Ahead(f, cursor) /\ (Managed => InStep(f, state))
  BY <1>f DEF FlowOf
<1>e. ASSUME NEW g, Set(r, g), UNCHANGED <<log, lease, config, handled>>,
             g.pending = <<>>, g.mark = 0, g.batch = NoBatch, g.pc # "reading",
             Got(g, cursor),
             g.position = 0 \/ (g.position = f.position /\ g.lease = f.lease),
             ~Fenced(g.lease, epoch, holder) /\ Managed => InStep(g, state)
      PROVE  FlowInv'
  <2>1. ~Fenced(g.lease, epoch, holder) =>
          \A e \in Matching : e <= g.position => e <= cursor
    BY <1>e, <1>a, <1>f, Numbers DEF Ahead
  <2>2. FlowOf(g, cursor, state, handled, Managed,
               ~Fenced(g.lease, epoch, holder), ~Fenced(AsOf(g), epoch, holder))
    BY <1>e, <1>f, <2>1, EmptyFlow
  <2> QED BY <1>e, <2>2, StepReads
<1>1. CASE LoadState(r)
  <2> DEFINE g == [f EXCEPT !.pc = "open",
                            !.mem = IF Managed THEN state[Global] ELSE @]
  <2>1. Set(r, g) /\ UNCHANGED <<log, lease, config, handled>> /\ f.pc = "load"
    BY <1>1 DEF LoadState
  <2>2. /\ g.pending = <<>> /\ g.mark = 0 /\ g.batch = NoBatch /\ g.pc = "open"
        /\ g.got = 0 /\ g.position = f.position /\ g.lease = f.lease
        /\ Managed => g.mem = state[Global]
    BY <1>f, <2>1 DEF PhaseOf, Ordered, Settled, Resting, Fields
  <2> HIDE DEF g
  <2>3. Got(g, cursor) /\ (Managed => InStep(g, state))
    BY <1>f, <2>2 DEF Got, InStep
  <2> QED BY <1>e, <2>1, <2>2, <2>3
<1>2. CASE ReloadState(r)
  <2> DEFINE g == [f EXCEPT !.reload = FALSE,
                            !.mem = IF Managed THEN state[Global] ELSE @]
  <2>1. Set(r, g) /\ UNCHANGED <<log, lease, config, handled>> /\ f.pc = "open"
    BY <1>2 DEF ReloadState
  <2>2. /\ g.pending = <<>> /\ g.mark = 0 /\ g.batch = NoBatch /\ g.pc = "open"
        /\ g.got = 0 /\ g.position = f.position /\ g.lease = f.lease
        /\ Managed => g.mem = state[Global]
    BY <1>f, <2>1 DEF PhaseOf, Ordered, Settled, Resting, Fields
  <2> HIDE DEF g
  <2>3. Got(g, cursor) /\ (Managed => InStep(g, state))
    BY <1>f, <2>2 DEF Got, InStep
  <2> QED BY <1>e, <2>1, <2>2, <2>3
<1>3. CASE CoolDown(r)
  <2> DEFINE g == [f EXCEPT !.pc = "open", !.pending = <<>>, !.mark = 0,
                            !.got = 0, !.reload = @ \/ f.failed,
                            !.failed = FALSE]
  <2>1. Set(r, g) /\ UNCHANGED <<log, lease, config, handled>> /\ f.pc = "cool"
        /\ f.pending = <<>> /\ f.batch = NoBatch
    BY <1>3, <1>f DEF CoolDown, Quiet, PhaseOf, Resting
  <2>2. /\ g.pending = <<>> /\ g.mark = 0 /\ g.batch = NoBatch /\ g.pc = "open"
        /\ g.got = 0 /\ g.position = f.position /\ g.lease = f.lease
        /\ g.mem = f.mem /\ (~g.reload => ~f.reload /\ ~f.failed)
    BY <1>f, <2>1 DEF Fields
  <2> HIDE DEF g
  <2>3. Got(g, cursor)
    BY <1>f, <2>2 DEF Got
  <2>4. ~Fenced(g.lease, epoch, holder) /\ Managed => InStep(g, state)
    BY <1>a, <2>1, <2>2 DEF InStep, Folding
  <2> QED BY <1>e, <2>1, <2>2, <2>3, <2>4
<1>4. CASE DropGrant(r)
  <2> DEFINE d == Dropped(f)
             g == [d EXCEPT !.pc = "standby"]
  <2>1. Set(r, g) /\ UNCHANGED <<log, lease, config, handled>> /\ f.batch = NoBatch
    BY <1>4 DEF DropGrant, Quiet
  <2>2. /\ Same(f, d, {"pending", "mark", "timer", "position", "failed",
                        "reload", "mem", "lease", "lost", "got"})
        /\ d.pending = <<>> /\ d.mark = 0 /\ d.lease = 0 /\ d.got = 0
        /\ d.position = 0 /\ DOMAIN d = Fields
    BY <1>f, DroppedFields
  <2> HIDE DEF d
  <2>3. /\ g.pending = <<>> /\ g.mark = 0 /\ g.batch = NoBatch /\ g.pc = "standby"
        /\ g.got = 0 /\ g.position = 0 /\ g.lease = 0
    BY <2>1, <2>2 DEF Same, Fields
  <2> HIDE DEF g
  <2>4. Got(g, cursor) /\ Fenced(g.lease, epoch, holder)
    BY <1>f, <2>3 DEF Got, Fenced
  <2> QED BY <1>e, <2>1, <2>3, <2>4
<1>5. CASE Crash(r)
  <2> DEFINE g == [Fresh EXCEPT !.pc = "dead"]
  <2>1. Set(r, g) /\ UNCHANGED <<log, lease, config, handled>>
    BY <1>5 DEF Crash
  <2>2. /\ g.pending = <<>> /\ g.mark = 0 /\ g.batch = NoBatch /\ g.pc = "dead"
        /\ g.got = 0 /\ g.position = 0 /\ g.lease = 0
    BY DEF Fresh
  <2> HIDE DEF g
  <2>3. Got(g, cursor) /\ Fenced(g.lease, epoch, holder)
    BY <1>f, <2>2 DEF Got, Fenced
  <2> QED BY <1>e, <2>1, <2>2, <2>3
<1> QED BY <1>1, <1>2, <1>3, <1>4, <1>5

\* The steps that start a batch, or find nothing to flush.
LEMMA FlushesFlow ==
  ASSUME RunnerInvs, NEW r \in Runners,
         ChainFlush(r) \/ FinalFlush(r) \/ FinishWork(r)
  PROVE  FlowInv'
<1> DEFINE f == run[r]
<1>f. /\ DOMAIN f = Fields /\ TypeOf(f) /\ PhaseOf(f, Managed) /\ cursor \in Nat
      /\ FlowOf(f, cursor, state, handled, Managed,
                ~Fenced(f.lease, epoch, holder), ~Fenced(AsOf(f), epoch, holder))
  BY HasFlow
<1>k. ASSUME NEW g, NEW k, Moves(g, k), g.pc \in Folding \/ k.pc \notin Folding,
             FlowOf(g, cursor, state, handled, Managed,
                    ~Fenced(g.lease, epoch, holder), ~Fenced(AsOf(g), epoch, holder))
      PROVE  FlowOf(k, cursor, state, handled, Managed,
                    ~Fenced(k.lease, epoch, holder), ~Fenced(AsOf(k), epoch, holder))
  BY <1>k, FlowKept
<1>g. ASSUME NEW by \in {"chain", "end", "poll", "stop"}, f.batch = NoBatch
      PROVE  LET g == Flushed(f, by) IN
             /\ FlowOf(g, cursor, state, handled, Managed,
                       ~Fenced(g.lease, epoch, holder), ~Fenced(AsOf(g), epoch, holder))
             /\ Same(f, g, {"timer", "pending", "mark", "position", "batch"})
             /\ g.pending = <<>> /\ g.mark = 0 /\ DOMAIN g = Fields
  BY <1>f, <1>g, FlushedFenced
<1>1. CASE ChainFlush(r)
  <2> DEFINE j == [f EXCEPT !.queued = FALSE]
             g == Flushed(j, "chain")
  <2>1. Set(r, g) /\ UNCHANGED <<log, lease, config, handled>> /\ f.batch = NoBatch
    BY <1>1 DEF ChainFlush
  <2>2. DOMAIN j = Fields /\ TypeOf(j) /\ Same(f, j, {"queued"})
    BY <1>f DEF TypeOf, Same, Fields
  <2> HIDE DEF j
  <2>3. Moves(f, j) /\ (j.pc = f.pc) /\ j.batch = NoBatch
    <3>1. Ordered(f)
      BY <1>f DEF FlowOf
    <3> QED BY <2>1, <2>2, <3>1 DEF Moves, Same, Aside, Fields, Settled, Ordered
  <2>4. FlowOf(j, cursor, state, handled, Managed,
               ~Fenced(j.lease, epoch, holder), ~Fenced(AsOf(j), epoch, holder))
    BY <1>f, <1>k, <2>3
  <2>5. FlowOf(g, cursor, state, handled, Managed,
               ~Fenced(g.lease, epoch, holder), ~Fenced(AsOf(g), epoch, holder))
    BY <1>f, <2>2, <2>3, <2>4, FlushedFenced
  <2> HIDE DEF g
  <2> QED BY <2>1, <2>5, StepReads
<1>2. CASE FinalFlush(r)
  <2> DEFINE g == Flushed(f, "end")
             k == [g EXCEPT !.pc = "finishing"]
             j == NextIteration(g)
  <2>1. /\ UNCHANGED <<log, lease, config, handled>> /\ f.batch = NoBatch
        /\ f.pc = "final"
        /\ (g.batch = NoBatch /\ Set(r, j)) \/ Set(r, k)
    BY <1>2 DEF FinalFlush, Quiet
  <2>2. /\ FlowOf(g, cursor, state, handled, Managed,
                  ~Fenced(g.lease, epoch, holder), ~Fenced(AsOf(g), epoch, holder))
        /\ Same(f, g, {"timer", "pending", "mark", "position", "batch"})
        /\ g.pending = <<>> /\ g.mark = 0 /\ DOMAIN g = Fields
    BY <1>g, <2>1
  <2> HIDE DEF g
  <2>3. g.pc = "final" /\ g.pc \in Folding /\ g.work = f.work /\ g.stop = f.stop
    BY <2>1, <2>2 DEF Same, Fields, Folding
  <2>4. Moves(g, k)
    BY <2>2, <2>3 DEF Moves, Same, Aside, Fields
  <2>5. FlowOf(k, cursor, state, handled, Managed,
               ~Fenced(k.lease, epoch, holder), ~Fenced(AsOf(k), epoch, holder))
    <3> HIDE DEF k
    <3> QED BY <1>k, <2>2, <2>3, <2>4
  <2>6. ASSUME g.batch = NoBatch
        PROVE  FlowOf(j, cursor, state, handled, Managed,
               ~Fenced(j.lease, epoch, holder), ~Fenced(AsOf(j), epoch, holder))
    <3>1. FlowOf(j, cursor, state, handled, Managed,
                 ~Fenced(g.lease, epoch, holder), ~Fenced(AsOf(g), epoch, holder))
      BY <1>f, <2>2, <2>3, <2>6, NextIterationFlow
    <3>2. j.lease = g.lease /\ j.batch = g.batch
      <4>1. \/ \E x \in BOOLEAN : j = Caught(g, x)
            \/ Same(g, j, {"pc"})
            \/ Same(g, j, {"pc", "pending", "mark", "got"})
        BY <2>2, NextIterationFields
      <4>2. \A x : Same(g, Caught(g, x), {"how", "pc"})
        BY <2>2, CaughtFields
      <4> HIDE DEF j
      <4> QED BY <4>1, <4>2 DEF Same, Fields
    <3> HIDE DEF j
    <3> QED BY <2>6, <3>1, <3>2, FlowFenced
  <2> HIDE DEF j, k
  <2> QED BY <2>1, <2>5, <2>6, StepReads
<1>3. CASE FinishWork(r)
  <2> DEFINE d == Dropped(f)
             g == Flushed(f, "stop")
             k1 == [d EXCEPT !.work = "done"]
             k2 == [g EXCEPT !.work = "done"]
             k3 == [g EXCEPT !.work = "flush"]
  <2>1. /\ UNCHANGED <<log, lease, config, handled>> /\ f.batch = NoBatch
        /\ f.pc = "ended" /\ f.work = "wait"
        /\ Set(r, k1) \/ Set(r, k2) \/ Set(r, k3)
    BY <1>3 DEF FinishWork, Quiet
  <2>2. /\ FlowOf(g, cursor, state, handled, Managed,
                  ~Fenced(g.lease, epoch, holder), ~Fenced(AsOf(g), epoch, holder))
        /\ Same(f, g, {"timer", "pending", "mark", "position", "batch"})
        /\ g.pending = <<>> /\ g.mark = 0 /\ DOMAIN g = Fields
    BY <1>g, <2>1
  <2>3. /\ Same(f, d, {"pending", "mark", "timer", "position", "failed",
                        "reload", "mem", "lease", "lost", "got"})
        /\ d.pending = <<>> /\ d.mark = 0 /\ d.lease = 0 /\ d.got = 0
        /\ d.position = 0 /\ DOMAIN d = Fields
    BY <1>f, DroppedFields
  <2> HIDE DEF d, g
  <2>4. FlowOf(k1, cursor, state, handled, Managed,
               ~Fenced(k1.lease, epoch, holder), ~Fenced(AsOf(k1), epoch, holder))
    <3>1. /\ k1.pending = <<>> /\ k1.mark = 0 /\ k1.batch = NoBatch /\ k1.pc = "ended"
          /\ k1.got = 0 /\ k1.position = 0 /\ k1.lease = 0
      BY <2>1, <2>3 DEF Same, Fields
    <3> HIDE DEF k1
    <3>2. Got(k1, cursor) /\ Fenced(k1.lease, epoch, holder)
      BY <1>f, <3>1 DEF Got, Fenced
    <3> QED BY <1>f, <3>1, <3>2, EmptyFlow
  <2>5. g.pc = "ended" /\ g.work = "wait"
    BY <2>1, <2>2 DEF Same, Fields
  <2>6. /\ Moves(g, k2) /\ k2.pc = "ended"
        /\ Moves(g, k3) /\ k3.pc = "ended"
    BY <2>2, <2>5 DEF Moves, Same, Aside, Fields
  <2> HIDE DEF k1, k2, k3
  <2>7. FlowOf(k2, cursor, state, handled, Managed,
               ~Fenced(k2.lease, epoch, holder), ~Fenced(AsOf(k2), epoch, holder))
    BY <1>k, <2>2, <2>6 DEF Folding
  <2>8. FlowOf(k3, cursor, state, handled, Managed,
               ~Fenced(k3.lease, epoch, holder), ~Fenced(AsOf(k3), epoch, holder))
    BY <1>k, <2>2, <2>6 DEF Folding
  <2> QED BY <2>1, <2>4, <2>7, <2>8, StepReads
<1> QED BY <1>1, <1>2, <1>3

\* One frame more.
LEMMA AppendOne ==
  ASSUME NEW s \in Seq(Matching), NEW e \in Matching
  PROVE  LET t == Append(s, e) IN
         /\ t \in Seq(Matching) /\ t # <<>>
         /\ Len(t) = Len(s) + 1 /\ Len(s) \in Nat /\ t[Len(t)] = e
         /\ \A i \in 1 .. Len(s) : i \in 1 .. Len(t) /\ t[i] = s[i]
         /\ \A i \in 1 .. Len(t) : i \in 1 .. Len(s) \/ (i = Len(s) + 1 /\ t[i] = e)
         /\ In(t, e)
         /\ \A d : In(s, d) => In(t, d)
<1> DEFINE t == Append(s, e)
<1>1. /\ t \in Seq(Matching) /\ Len(t) = Len(s) + 1 /\ Len(s) \in Nat
      /\ \A i \in 1 .. Len(s) : t[i] = s[i]
      /\ t[Len(s) + 1] = e
  BY AppendProperties
<1> HIDE DEF t
<1>2. Len(t) \in 1 .. Len(t) /\ t[Len(t)] = e
  BY <1>1
<1>3. \A i \in 1 .. Len(s) : i \in 1 .. Len(t)
  BY <1>1
<1>4. \A i \in 1 .. Len(t) : i \in 1 .. Len(s) \/ (i = Len(s) + 1 /\ t[i] = e)
  BY <1>1
<1>5. t # <<>>
  BY <1>1
<1> QED BY <1>1, <1>2, <1>3, <1>4, <1>5 DEF In, t

\* The numbers that a runner has.
LEMMA RunnerNumbers ==
  ASSUME NEW f, TypeOf(f)
  PROVE  /\ f.mark \in Nat /\ f.position \in Nat /\ f.streamed \in Nat /\ f.got \in Nat
         /\ f.pending \in Seq(Matching) /\ Len(f.pending) \in Nat
         /\ \A i \in 1 .. Len(f.pending) : f.pending[i] \in Nat /\ f.pending[i] # 0
         /\ f.batch # NoBatch =>
              /\ f.batch.mark \in Nat /\ f.batch.last \in Nat
              /\ f.batch.todo \in Seq(Matching) /\ Len(f.batch.todo) \in Nat
              /\ \A i \in 1 .. Len(f.batch.todo) :
                   f.batch.todo[i] \in Nat /\ f.batch.todo[i] # 0
<1>1. /\ f.mark \in 0 .. N /\ f.position \in 0 .. N /\ f.streamed \in 0 .. N
      /\ f.got \in 0 .. N /\ f.pending \in Seq(Matching)
      /\ f.batch # NoBatch =>
           /\ f.batch.mark \in 0 .. N /\ f.batch.last \in 0 .. N
           /\ f.batch.todo \in Seq(Matching)
  BY DEF TypeOf, BatchType, Batches
<1>2. \A s \in Seq(Matching) :
        /\ Len(s) \in Nat
        /\ \A i \in 1 .. Len(s) : s[i] \in Nat /\ s[i] # 0
  BY Elements
<1>3. \A n \in 0 .. N : n \in Nat
  BY Bounds
<1> QED BY <1>1, <1>2, <1>3

\* A stream starts where everything before is saved.
LEMMA OpenFlow ==
  ASSUME RunnerInvs, NEW r \in Runners, OpenStream(r)
  PROVE  FlowInv'
<1> DEFINE f == run[r]
           to == Higher(f.position, cursor)
           g == [f EXCEPT !.pc = "reading", !.streamed = to]
           l == ~Fenced(f.lease, epoch, holder)
<1>f. /\ DOMAIN f = Fields /\ TypeOf(f) /\ PhaseOf(f, Managed) /\ cursor \in Nat
      /\ FlowOf(f, cursor, state, handled, Managed, l, ~Fenced(AsOf(f), epoch, holder))
  BY HasFlow
<1>1. Set(r, g) /\ UNCHANGED <<log, lease, config, handled>> /\ f.pc = "open" /\ ~f.reload
  BY DEF OpenStream
<1>2. /\ f.pending = <<>> /\ f.mark = 0 /\ f.batch = NoBatch /\ f.got = 0
  BY <1>f, <1>1 DEF PhaseOf, FlowOf, Ordered, Settled, Resting
<1>3. /\ Same(f, g, {"pc", "streamed"}) /\ g.pc = "reading" /\ g.streamed = to
  BY <1>f DEF Same, Fields
<1>4. cursor <= to /\ to \in Nat /\ f.position \in Nat
      /\ \A e : e <= to => e <= f.position \/ e <= cursor
  <2>1. f.position \in Nat
    BY <1>f, RunnerNumbers
  <2> QED BY <1>f, <2>1 DEF Higher
<1> HIDE DEF g, to
<1>5. /\ g.pending = <<>> /\ g.mark = 0 /\ g.batch = NoBatch /\ g.got = 0
      /\ g.reload = f.reload /\ g.work = f.work /\ g.failed = f.failed
      /\ g.mem = f.mem /\ g.lease = f.lease /\ g.position = f.position
  BY <1>2, <1>3 DEF Same, Fields
<1>6. Ordered(g)
  <2>1. Len(g.pending) = 0 /\ Incr(g.pending)
    BY <1>5 DEF Incr
  <2> QED BY <1>1, <1>3, <1>4, <1>5, <2>1 DEF Ordered
<1>7. Got(g, cursor)
  BY <1>f, <1>5 DEF Got
<1>8. ASSUME l PROVE Ahead(g, cursor)
  <2>1. \A e \in Matching : ~(e <= 0)
    BY Numbers
  <2>2. \A e \in Matching : e <= f.position => e <= cursor
    BY <1>f, <1>8 DEF FlowOf, Ahead
  <2> QED BY <1>3, <1>4, <1>5, <2>1, <2>2 DEF Ahead, Somewhere
<1>9. l /\ Managed => InStep(g, state)
  BY <1>f, <1>1, <1>2, <1>5 DEF FlowOf, InStep, Folding
<1>10. FlowOf(g, cursor, state, handled, Managed,
             ~Fenced(g.lease, epoch, holder), ~Fenced(AsOf(g), epoch, holder))
  BY <1>5, <1>6, <1>7, <1>8, <1>9 DEF FlowOf
<1> QED BY <1>1, <1>10, StepReads

\* A frame is taken in.
LEMMA ReceiveFlow ==
  ASSUME RunnerInvs, NEW r \in Runners, Receive(r)
  PROVE  FlowInv'
<1> DEFINE f == run[r]
           l == ~Fenced(f.lease, epoch, holder)
           a == ~Fenced(AsOf(f), epoch, holder)
<1>f. /\ DOMAIN f = Fields /\ TypeOf(f) /\ PhaseOf(f, Managed) /\ cursor \in Nat
      /\ published \in 0 .. N /\ FlowOf(f, cursor, state, handled, Managed, l, a)
  BY HasFlow
<1>1. PICK e \in NextAfter(f.streamed) :
        LET full == Len(f.pending) + 1 >= BatchSize IN
        Set(r, [f EXCEPT !.pending = Append(@, e), !.streamed = e, !.got = e,
                         !.mark = Higher(@, e),
                         !.queued = @ \/ full, !.timer = @ \/ ~full])
  BY DEF Receive
<1> DEFINE full == Len(f.pending) + 1 >= BatchSize
           g == [f EXCEPT !.pending = Append(@, e), !.streamed = e, !.got = e,
                          !.mark = Higher(@, e),
                          !.queued = @ \/ full, !.timer = @ \/ ~full]
           t == Append(f.pending, e)
<1>2. Set(r, g) /\ UNCHANGED <<log, lease, config, handled>> /\ f.pc = "reading"
  BY <1>1 DEF Receive
<1>3. /\ Same(f, g, {"pending", "streamed", "got", "mark", "queued", "timer"})
      /\ g.pending = t /\ g.streamed = e /\ g.got = e /\ g.mark = Higher(f.mark, e)
  <2> HIDE DEF full
  <2> QED BY <1>f DEF Same, Fields
<1>n. /\ f.mark \in Nat /\ f.position \in Nat /\ f.streamed \in Nat
      /\ f.pending \in Seq(Matching) /\ Len(f.pending) \in Nat
      /\ \A i \in 1 .. Len(f.pending) : f.pending[i] \in Nat /\ f.pending[i] # 0
      /\ f.batch # NoBatch =>
           /\ f.batch.mark \in Nat /\ f.batch.last \in Nat
           /\ Len(f.batch.todo) \in Nat
           /\ \A i \in 1 .. Len(f.batch.todo) :
                f.batch.todo[i] \in Nat /\ f.batch.todo[i] # 0
  BY <1>f, RunnerNumbers
<1>4. /\ e \in Matching /\ e \in Nat /\ f.streamed < e
      /\ \A d \in Matching : f.streamed < d => e <= d
  BY <1>f, <1>n, <1>1, NextAfterOne, Bounds
<1>5. /\ t # <<>> /\ Len(t) = Len(f.pending) + 1 /\ t[Len(t)] = e
      /\ \A i \in 1 .. Len(f.pending) : i \in 1 .. Len(t) /\ t[i] = f.pending[i]
      /\ \A i \in 1 .. Len(t) : i \in 1 .. Len(f.pending) \/ (i = Len(f.pending) + 1 /\ t[i] = e)
      /\ In(t, e)
      /\ \A d : In(f.pending, d) => In(t, d)
  BY <1>n, <1>4, AppendOne
<1> HIDE DEF t, g
<1>6. /\ Ordered(f) /\ Got(f, cursor)
      /\ l => Ahead(f, cursor) /\ (Managed => InStep(f, state))
      /\ f.batch # NoBatch /\ a => BatchAhead(f.batch, cursor, state, handled, Managed)
  BY <1>f DEF FlowOf
<1>7. /\ g.pc = "reading" /\ g.batch = f.batch /\ g.work = f.work
      /\ g.reload = f.reload /\ g.failed = f.failed /\ g.mem = f.mem
      /\ g.lease = f.lease /\ g.position = f.position /\ AsOf(g) = AsOf(f)
  BY <1>2, <1>3 DEF Same, Fields, AsOf
<1>8. f.mark <= f.streamed /\ g.mark = e
      /\ \A i \in 1 .. Len(f.pending) : f.pending[i] < e
  <2>1. f.mark <= f.streamed
    BY <1>2, <1>6 DEF Ordered
  <2>2. g.mark = e
    BY <1>3, <1>4, <1>n, <2>1 DEF Higher
  <2>3. ASSUME NEW i \in 1 .. Len(f.pending) PROVE f.pending[i] < e
    <3>1. f.pending[i] <= f.mark /\ f.pending[i] \in Nat
      BY <1>6, <1>n DEF Ordered
    <3> QED BY <1>4, <1>n, <2>1, <3>1
  <2> QED BY <2>1, <2>2, <2>3
<1>9. Incr(t) /\ \A i \in 1 .. Len(t) : t[i] <= e
  <2>1. ASSUME NEW i \in 1 .. Len(t) PROVE t[i] <= e
    <3>1. CASE i \in 1 .. Len(f.pending)
      <4>1. t[i] = f.pending[i] /\ f.pending[i] < e /\ f.pending[i] \in Nat
        BY <1>5, <1>8, <1>n, <3>1
      <4> QED BY <1>4, <4>1
    <3>2. CASE t[i] = e
      BY <1>4, <3>2
    <3> QED BY <1>5, <3>1, <3>2
  <2>2. ASSUME NEW i \in 1 .. Len(t), NEW j \in 1 .. Len(t), i < j PROVE t[i] < t[j]
    <3>1. i \in 1 .. Len(f.pending)
      BY <1>5, <1>n, <2>2
    <3>2. CASE j \in 1 .. Len(f.pending)
      BY <1>5, <1>6, <2>2, <3>1, <3>2 DEF Ordered, Incr
    <3>3. CASE t[j] = e
      BY <1>5, <1>8, <3>1, <3>3
    <3> QED BY <1>5, <3>2, <3>3
  <2> QED BY <2>1, <2>2 DEF Incr
<1>10. ~Settled(g)
  BY <1>2, <1>7, <1>f DEF Settled, Resting, PhaseOf
<1>11. ASSUME f.batch # NoBatch
       PROVE  Before(f.batch, t) /\ f.batch.mark <= e
  <2>1. InOrder(f.batch) /\ Before(f.batch, f.pending) /\ f.batch.mark <= f.streamed
    BY <1>2, <1>6, <1>11 DEF Ordered
  <2>2. f.batch.mark < e /\ f.batch.last < e
        /\ \A i \in 1 .. Len(f.batch.todo) : f.batch.todo[i] < e
    <3>1. f.batch.mark \in Int /\ f.streamed \in Int /\ e \in Int /\ f.streamed < e
      BY <1>4, <1>11, <1>n
    <3>2. f.batch.mark < e
      BY <1>n, <2>1, <3>1
    <3>3. f.batch.last \in Int /\ f.batch.last <= f.batch.mark
      BY <1>11, <1>n, <2>1 DEF InOrder
    <3>4. f.batch.last < e
      BY <1>n, <3>1, <3>2, <3>3
    <3>5. ASSUME NEW i \in 1 .. Len(f.batch.todo) PROVE f.batch.todo[i] < e
      <4>1. f.batch.todo[i] \in Int /\ f.batch.todo[i] <= f.batch.mark
        BY <1>11, <1>n, <2>1 DEF InOrder
      <4> QED BY <1>n, <3>1, <3>2, <4>1
    <3> QED BY <3>2, <3>4, <3>5
  <2>3. ASSUME NEW j \in 1 .. Len(t)
        PROVE  /\ f.batch.last < t[j]
               /\ \A i \in 1 .. Len(f.batch.todo) : f.batch.todo[i] < t[j]
    <3>1. CASE j \in 1 .. Len(f.pending)
      BY <1>5, <2>1, <3>1 DEF Before
    <3>2. CASE t[j] = e
      BY <2>2, <3>2
    <3> QED BY <1>5, <3>1, <3>2
  <2>4. Before(f.batch, t)
    BY <2>3 DEF Before
  <2>5. f.batch.mark <= e
    BY <1>4, <1>11, <1>n, <2>2
  <2> QED BY <2>4, <2>5
<1>12. Ordered(g)
  <2>1. ~f.reload
    BY <1>2, <1>6 DEF Ordered
  <2> QED BY <1>3, <1>4, <1>7, <1>8, <1>9, <1>10, <1>11, <1>6, <2>1 DEF Ordered
<1>13. Got(g, cursor)
  BY <1>3, <1>5 DEF Got
<1>14. ASSUME l PROVE Ahead(g, cursor)
  <2>1. Ahead(f, cursor) /\ cursor <= f.streamed
    BY <1>2, <1>6, <1>14 DEF Ahead
  <2>2. cursor < e
    BY <1>4, <1>f, <1>n, <2>1
  <2>3. \A i \in 1 .. Len(t) : cursor < t[i]
    <3> TAKE i \in 1 .. Len(t)
    <3>1. CASE i \in 1 .. Len(f.pending)
      BY <1>5, <2>1, <3>1 DEF Ahead
    <3>2. CASE t[i] = e
      BY <2>2, <3>2
    <3> QED BY <1>5, <3>1, <3>2
  <2>4. \A d \in Matching : Somewhere(f, d, cursor) => Somewhere(g, d, cursor)
    BY <1>3, <1>5, <1>7 DEF Somewhere
  <2>5. ASSUME NEW d \in Matching, d <= e, ~f.failed PROVE Somewhere(g, d, cursor)
    <3>1. d \in Nat
      BY Numbers
    <3>2. CASE d <= f.streamed
      BY <1>2, <2>1, <2>4, <2>5, <3>2 DEF Ahead
    <3>3. CASE d = e
      BY <1>3, <1>5, <3>3 DEF Somewhere
    <3> QED BY <1>4, <1>n, <2>5, <3>1, <3>2, <3>3
  <2>6. cursor <= e
    BY <1>4, <1>f, <2>2
  <2> QED BY <1>3, <1>7, <1>8, <2>1, <2>3, <2>5, <2>6 DEF Ahead
<1>15. l /\ Managed => InStep(g, state)
  BY <1>2, <1>6, <1>7 DEF InStep, Folding
<1>16. FlowOf(g, cursor, state, handled, Managed, l, a)
  BY <1>6, <1>7, <1>12, <1>13, <1>14, <1>15 DEF FlowOf
<1>17. FlowOf(g, cursor, state, handled, Managed,
              ~Fenced(g.lease, epoch, holder), ~Fenced(AsOf(g), epoch, holder))
  BY <1>7, <1>16
<1> QED BY <1>2, <1>17, StepReads

\* A watermark is taken in.
LEMMA HeartbeatFlow ==
  ASSUME RunnerInvs, NEW r \in Runners, Heartbeat(r)
  PROVE  FlowInv'
<1> DEFINE f == run[r]
           l == ~Fenced(f.lease, epoch, holder)
           a == ~Fenced(AsOf(f), epoch, holder)
           g == [f EXCEPT !.streamed = published, !.timer = TRUE,
                          !.mark = Higher(@, published)]
<1>f. /\ DOMAIN f = Fields /\ TypeOf(f) /\ PhaseOf(f, Managed) /\ cursor \in Nat
      /\ published \in 0 .. N /\ FlowOf(f, cursor, state, handled, Managed, l, a)
  BY HasFlow
<1>1. /\ Set(r, g) /\ UNCHANGED <<log, lease, config, handled>>
      /\ f.pc = "reading" /\ f.streamed < published /\ NextAfter(f.streamed) = {}
  BY DEF Heartbeat
<1>2. /\ Same(f, g, {"streamed", "timer", "mark"})
      /\ g.streamed = published /\ g.mark = Higher(f.mark, published)
  BY <1>f DEF Same, Fields
<1>n. /\ f.mark \in Nat /\ f.streamed \in Nat
      /\ \A i \in 1 .. Len(f.pending) : f.pending[i] \in Nat
      /\ f.batch # NoBatch => f.batch.mark \in Nat
  BY <1>f, RunnerNumbers
<1>p. published \in Nat
  BY <1>f, Bounds
<1> HIDE DEF g
<1>6. /\ Ordered(f) /\ Got(f, cursor)
      /\ l => Ahead(f, cursor) /\ (Managed => InStep(f, state))
      /\ f.batch # NoBatch /\ a => BatchAhead(f.batch, cursor, state, handled, Managed)
  BY <1>f DEF FlowOf
<1>7. /\ g.pc = "reading" /\ g.batch = f.batch /\ g.work = f.work /\ g.lost = f.lost
      /\ g.reload = f.reload /\ g.failed = f.failed /\ g.mem = f.mem
      /\ g.pending = f.pending /\ g.got = f.got
      /\ g.lease = f.lease /\ g.position = f.position /\ AsOf(g) = AsOf(f)
  BY <1>1, <1>2 DEF Same, Fields, AsOf
<1>8. f.mark <= f.streamed /\ g.mark = published /\ f.mark <= published
  <2>1. f.mark <= f.streamed
    BY <1>1, <1>6 DEF Ordered
  <2> QED BY <1>1, <1>2, <1>n, <1>p, <2>1 DEF Higher
<1>10. ~Settled(g)
  BY <1>1, <1>7, <1>f DEF Settled, Resting, PhaseOf
<1>11. Ordered(g)
  <2>1. \A i \in 1 .. Len(f.pending) : f.pending[i] <= published
    BY <1>6, <1>8, <1>n, <1>p DEF Ordered
  <2>2. f.batch # NoBatch => f.batch.mark <= published
    BY <1>1, <1>6, <1>n, <1>p DEF Ordered
  <2>3. published <= published
    BY <1>p
  <2> QED BY <1>1, <1>2, <1>6, <1>7, <1>8, <1>10, <2>1, <2>2, <2>3 DEF Ordered
<1>13. Got(g, cursor)
  BY <1>6, <1>7 DEF Got
<1>14. ASSUME l PROVE Ahead(g, cursor)
  <2>1. Ahead(f, cursor) /\ cursor <= f.streamed
    BY <1>1, <1>6, <1>14 DEF Ahead
  <2>2. cursor <= published
    BY <1>1, <1>f, <1>n, <1>p, <2>1
  <2>4. \A d \in Matching : Somewhere(f, d, cursor) => Somewhere(g, d, cursor)
    BY <1>7 DEF Somewhere
  <2>5. ASSUME NEW d \in Matching, d <= published, ~f.failed PROVE Somewhere(g, d, cursor)
    <3>1. d \in Nat
      BY Numbers
    <3>2. d <= f.streamed
      <4>1. f.streamed < d => published < d
        BY <1>1, <1>n, <1>p, NextAfterNone
      <4> QED BY <1>n, <1>p, <2>5, <3>1, <4>1
    <3> QED BY <1>1, <2>1, <2>4, <2>5, <3>2 DEF Ahead
  <2> QED BY <1>2, <1>7, <1>8, <2>1, <2>2, <2>5 DEF Ahead
<1>15. l /\ Managed => InStep(g, state)
  BY <1>1, <1>6, <1>7 DEF InStep, Folding
<1>16. FlowOf(g, cursor, state, handled, Managed, l, a)
  BY <1>6, <1>7, <1>11, <1>13, <1>14, <1>15 DEF FlowOf
<1>17. FlowOf(g, cursor, state, handled, Managed,
              ~Fenced(g.lease, epoch, holder), ~Fenced(AsOf(g), epoch, holder))
  BY <1>7, <1>16
<1> QED BY <1>1, <1>17, StepReads

\* What a poll delivers.
LEMMA PollIs ==
  ASSUME NEW c \in 0 .. N, published \in 0 .. N
  PROVE  LET events == Delivery(c, BatchSize)
             mark   == IF Len(events) < BatchSize THEN published
                       ELSE events[Len(events)]
         IN
         /\ events \in Seq(Matching) /\ mark \in 0 .. N /\ Incr(events)
         /\ \A i \in 1 .. Len(events) : c < events[i] /\ events[i] <= mark
         /\ \A e \in Matching : c < e /\ e <= mark => In(events, e)
         /\ events = <<>> => mark = published
<1> DEFINE events == Delivery(c, BatchSize)
           mark   == IF Len(events) < BatchSize THEN published
                     ELSE events[Len(events)]
           l      == LastOr(c, events)
<1>1. c \in Nat /\ published \in Nat /\ BatchSize \in Nat \ {0}
  BY Bounds, Numbers
<1>2. Leads(c, events, BatchSize)
  BY <1>1, DeliveryIs
<1> HIDE DEF events
<1>3. /\ events \in Seq(Matching) /\ Incr(events) /\ Len(events) <= BatchSize
      /\ \A i \in 1 .. Len(events) : c < events[i] /\ events[i] <= published
      /\ \A e \in Matching : c < e /\ e <= l => In(events, e)
      /\ Len(events) < BatchSize => NextAfter(l) = {}
  BY <1>2 DEF Leads
<1>4. /\ Len(events) \in Nat
      /\ \A i \in 1 .. Len(events) : events[i] \in Matching /\ events[i] \in Nat
      /\ events # <<>> => Len(events) \in 1 .. Len(events)
  BY <1>3, Elements
<1>5. events # <<>> => l = events[Len(events)] /\ l \in Matching /\ l \in Nat
  BY <1>4 DEF LastOr
<1>6. l \in Nat
  BY <1>1, <1>5 DEF LastOr
<1>7. ~(Len(events) < BatchSize) => events # <<>> /\ mark = l
  <2>1. ~(Len(events) < BatchSize) => events # <<>>
    BY <1>1, <1>4
  <2> QED BY <1>5, <2>1
<1>8. Len(events) < BatchSize => mark = published
  OBVIOUS
<1>9. mark \in 0 .. N
  BY <1>5, <1>7, <1>8, Bounds
<1>10. ASSUME NEW i \in 1 .. Len(events) PROVE events[i] <= mark
  <2>1. CASE Len(events) < BatchSize
    BY <1>3, <1>8, <2>1
  <2>2. CASE ~(Len(events) < BatchSize)
    <3>1. mark = events[Len(events)]
      BY <2>2
    <3>2. i < Len(events) \/ i = Len(events)
      BY <1>4
    <3>3. i < Len(events) => events[i] < events[Len(events)]
      BY <1>3, <1>4, <1>7, <2>2 DEF Incr
    <3> QED BY <1>4, <1>7, <2>2, <3>1, <3>2, <3>3
  <2> QED BY <2>1, <2>2
<1>11. ASSUME NEW e \in Matching, c < e, e <= mark PROVE In(events, e)
  <2>1. e \in Nat
    BY Numbers
  <2>2. CASE e <= l
    BY <1>3, <1>11, <2>2
  <2>3. CASE ~(e <= l)
    <3>1. l < e
      BY <1>6, <2>1, <2>3
    <3>2. Len(events) < BatchSize
      BY <1>7, <1>11, <2>3
    <3>3. published < e
      BY <1>1, <1>3, <1>6, <3>1, <3>2, NextAfterNone
    <3> QED BY <1>1, <1>8, <1>11, <2>1, <3>2, <3>3
  <2> QED BY <2>2, <2>3
<1>12. events = <<>> => mark = published
  BY <1>7, <1>8
<1> HIDE DEF mark
<1>13. /\ events \in Seq(Matching) /\ mark \in 0 .. N /\ Incr(events)
       /\ \A i \in 1 .. Len(events) : c < events[i] /\ events[i] <= mark
       /\ \A e \in Matching : c < e /\ e <= mark => In(events, e)
       /\ events = <<>> => mark = published
  BY <1>3, <1>9, <1>10, <1>11, <1>12
<1> QED BY <1>13 DEF events, mark

\* poll() takes in what is after the cursor, and nothing else.
LEMMA PollFlow ==
  ASSUME RunnerInvs, NEW r \in Runners, Poll(r)
  PROVE  FlowInv'
<1> DEFINE f == run[r]
           l == ~Fenced(f.lease, epoch, holder)
           from == Higher(f.position, cursor)
           events == Delivery(from, BatchSize)
           mark == IF Len(events) < BatchSize THEN published
                   ELSE events[Len(events)]
           b == Batch("poll", events, mark, state[Global])
           j == [f EXCEPT !.position = mark]
           k == [f EXCEPT !.pc = "polled", !.batch = b]
<1>f. /\ DOMAIN f = Fields /\ TypeOf(f) /\ PhaseOf(f, Managed) /\ cursor \in Nat
      /\ FlowOf(f, cursor, state, handled, Managed, l, ~Fenced(AsOf(f), epoch, holder))
      /\ cursor \in 0 .. N /\ published \in 0 .. N
      /\ state \in [Parts -> Seq(Matching)]
  BY HasFlow
<1>1. /\ UNCHANGED <<log, lease, config, handled>> /\ f.pc = "poll" /\ Current(f.lease)
      /\ \/ events = <<>> /\ Set(r, j)
         \/ events # <<>> /\ Set(r, k)
  BY DEF Poll
<1>2. /\ f.pending = <<>> /\ f.mark = 0 /\ f.batch = NoBatch /\ f.got = 0
  BY <1>f, <1>1 DEF PhaseOf, FlowOf, Ordered, Settled, Resting
<1>3. l /\ \A e \in Matching : e <= f.position => e <= cursor
  BY <1>f, <1>1 DEF FlowOf, Ahead, Current, Fenced
<1>4. /\ from \in 0 .. N /\ cursor <= from
      /\ \A e : e <= from => e <= f.position \/ e <= cursor
  <2>1. f.position \in 0 .. N
    BY <1>f DEF TypeOf
  <2>2. from \in 0 .. N /\ cursor <= from
    BY <1>f, <2>1, HigherIs
  <2> QED BY <2>2 DEF Higher
<1>5. \A e \in Matching : e <= from => e <= cursor
  BY <1>3, <1>4
<1> HIDE DEF from
<1>6. /\ events \in Seq(Matching) /\ mark \in 0 .. N /\ Incr(events)
      /\ \A i \in 1 .. Len(events) : from < events[i] /\ events[i] <= mark
      /\ \A e \in Matching : from < e /\ e <= mark => In(events, e)
      /\ events = <<>> => mark = published
  BY <1>f, <1>4, PollIs
<1> HIDE DEF events, mark
<1>7. \A e \in Matching : e <= from \/ from < e
  BY <1>4, Numbers, Bounds
<1>j. Same(f, j, {"position"}) /\ j.position = mark
  BY <1>f DEF Same, Fields
<1>k. Same(f, k, {"pc", "batch"}) /\ k.pc = "polled" /\ k.batch = b
  BY <1>f DEF Same, Fields
<1>8. ASSUME events = <<>>
      PROVE  FlowOf(j, cursor, state, handled, Managed,
                    ~Fenced(j.lease, epoch, holder), ~Fenced(AsOf(j), epoch, holder))
  <2> HIDE DEF j
  <2>1. /\ j.pending = <<>> /\ j.mark = 0 /\ j.batch = NoBatch /\ j.got = 0
        /\ j.pc = "poll"
    BY <1>1, <1>2, <1>j DEF Same, Fields
  <2>2. Got(j, cursor) /\ InStep(j, state)
    BY <1>f, <2>1 DEF Got, InStep, Folding
  <2>3. \A e \in Matching : ~In(events, e)
    BY <1>8 DEF In
  <2>4. \A e \in Matching : e <= j.position => e <= cursor
    BY <1>5, <1>6, <1>7, <1>j, <2>3
  <2> QED BY <1>f, <2>1, <2>2, <2>4, EmptyFlow
<1>9. ASSUME events # <<>>
      PROVE  FlowOf(k, cursor, state, handled, Managed,
                    ~Fenced(k.lease, epoch, holder), ~Fenced(AsOf(k), epoch, holder))
  <2>1. state[Global] \in Seq(Matching)
    BY <1>f, Bounds
  <2>2. /\ b.todo = events /\ b.mark = mark /\ b.last = 0 /\ b.as = 0
        /\ b.pk = Global /\ b.at = (IF Managed THEN "load" ELSE "handle")
        /\ b.st[Global] = state[Global]
    BY <1>6, <1>9, <2>1, BatchStarts, BatchStartsType, Bounds
  <2> HIDE DEF b, k
  <2>3. /\ k.pending = <<>> /\ k.mark = 0 /\ k.got = 0 /\ k.pc = "polled"
        /\ k.position = f.position /\ k.batch = b
    BY <1>2, <1>k DEF Same, Fields
  <2>n. /\ Len(events) \in Nat
        /\ \A i \in 1 .. Len(events) : events[i] \in Nat /\ events[i] # 0
    BY <1>6, Elements
  <2>4. InOrder(b)
    <3>1. 0 <= mark /\ mark \in Nat
      BY <1>6, Bounds
    <3>2. \A i \in 1 .. Len(events) : 0 < events[i]
      BY <2>n
    <3> QED BY <1>6, <2>2, <3>1, <3>2 DEF InOrder
  <2>5. Ordered(k)
    <3>1. Len(k.pending) = 0
      BY <2>3
    <3> QED BY <2>3, <2>4, <3>1 DEF Ordered, Incr, Before
  <2>6. Got(k, cursor) /\ InStep(k, state)
    BY <1>f, <2>3 DEF Got, InStep, Folding
  <2>7. \A e \in Matching : ~(e <= 0)
    BY Numbers
  <2>8. Ahead(k, cursor)
    <3>1. Len(k.pending) = 0
      BY <2>3
    <3> QED BY <1>3, <2>3, <2>7, <3>1 DEF Ahead
  <2>9. BatchAhead(b, cursor, state, handled, Managed)
    <3>1. \A i \in 1 .. Len(b.todo) : cursor < b.todo[i]
      <4> TAKE i \in 1 .. Len(b.todo)
      <4>1. from < events[i] /\ events[i] \in Nat
        BY <1>6, <2>2, <2>n
      <4> QED BY <1>f, <1>4, <2>2, <4>1, Bounds
    <3>2. \A e \in Matching : e <= b.mark => e <= cursor \/ InBatch(b, e)
      BY <1>5, <1>6, <1>7, <2>2 DEF InBatch
    <3>3. b.at # "commit" /\ (Managed => b.at = "load")
      BY <2>2
    <3>4. Managed => Folded(b, cursor, state)
      <4>1. b.last <= cursor
        BY <1>f, <2>2
      <4> QED BY <2>2, <3>3, <4>1 DEF Folded
    <3>5. Processing(b, cursor, handled)
      BY <1>9, <2>2, <2>7 DEF Processing
    <3> QED BY <3>1, <3>2, <3>3, <3>4, <3>5 DEF BatchAhead
  <2> QED BY <2>3, <2>5, <2>6, <2>8, <2>9 DEF FlowOf
<1> HIDE DEF j, k
<1> QED BY <1>1, <1>8, <1>9, StepReads

\* Of the cursor c, where the runner stands if its lease is accepted.
Stands(f, c) ==
  /\ f.pc = "reading" => c <= f.streamed
  /\ \A e \in Matching : e <= f.position => e <= c

\* A failed batch, whether its save has landed or not.
LEMMA FailsFlow ==
  ASSUME NEW f, DOMAIN f = Fields, TypeOf(f), NEW m, PhaseOf(f, m), Ordered(f),
         f.batch # NoBatch, f.batch.by \in {"chain", "end", "poll", "stop"},
         NEW c \in Nat, NEW s, NEW h, NEW l, NEW a, l => Stands(f, c)
  PROVE  FlowOf(BatchFails(f), c, s, h, m, l, a)
<1> DEFINE k == [f EXCEPT !.batch = NoBatch, !.failed = TRUE]
           g == BatchFails(f)
<1>1. /\ Same(f, k, {"batch", "failed"}) /\ DOMAIN k = Fields
      /\ k.batch = NoBatch /\ k.failed = TRUE
      /\ f.batch.by = "chain" =>
           /\ Same(f, g, {"batch", "failed", "pending", "mark", "cut"})
           /\ g.batch = NoBatch /\ g.failed = TRUE /\ g.pending = <<>> /\ g.mark = 0
      /\ f.batch.by = "end" => g = Caught(k, f.how = "fatal")
      /\ f.batch.by = "poll" => /\ Same(f, g, {"batch", "pc"}) /\ g.batch = NoBatch
                                /\ g.pc = IF f.stop THEN "ended"
                                          ELSE IF f.lost THEN "drop" ELSE "poll"
      /\ f.batch.by = "stop" => /\ Same(f, g, {"batch", "work"}) /\ g.batch = NoBatch
                                /\ g.work = "rejected"
  BY BatchFailsFields
<1>2. /\ Same(k, Caught(k, f.how = "fatal"), {"how", "pc"})
      /\ Caught(k, f.how = "fatal").pc =
           IF k.stop THEN "ended" ELSE IF k.lost THEN "drop"
           ELSE IF f.how = "fatal" THEN "release" ELSE "cool"
  BY <1>1, CaughtFields
<1>n. f.streamed \in Nat /\ f.mark \in Nat
  BY RunnerNumbers
<1> HIDE DEF k, g
<1>3. CASE f.batch.by = "chain"
  <2>1. /\ g.pc = f.pc /\ g.streamed = f.streamed /\ g.position = f.position
        /\ g.work = f.work /\ g.reload = f.reload /\ g.pending = <<>> /\ g.mark = 0
        /\ g.batch = NoBatch /\ g.failed = TRUE
    BY <1>1, <1>3 DEF Same, Fields
  <2>2. Len(g.pending) = 0
    BY <2>1
  <2>3. Ordered(g)
    BY <1>n, <2>1, <2>2 DEF Ordered, Incr
  <2>4. l => Ahead(g, c)
    BY <2>1, <2>2 DEF Ahead, Stands
  <2>5. Got(g, c) /\ InStep(g, s)
    BY <2>1 DEF Got, InStep
  <2>6. FlowOf(g, c, s, h, m, l, a)
    BY <2>1, <2>3, <2>4, <2>5 DEF FlowOf
  <2> QED BY <2>6 DEF g
<1>4. CASE f.batch.by # "chain"
  <2>1. /\ f.pending = <<>> /\ f.mark = 0 /\ f.pc \in {"finishing", "polled", "ended"}
        /\ f.batch.by = "poll" => f.got = 0 /\ f.pc = "polled"
        /\ f.batch.by = "stop" => f.pc = "ended"
    BY <1>4 DEF PhaseOf, Ordered, Settled, Resting
  <2>2. /\ g.batch = NoBatch /\ g.pending = <<>> /\ g.mark = 0
        /\ g.pc # "reading" /\ g.position = f.position
    <3>1. CASE f.batch.by = "end"
      BY <1>1, <1>2, <2>1, <3>1 DEF Same, Fields
    <3>2. CASE f.batch.by = "poll"
      BY <1>1, <2>1, <3>2 DEF Same, Fields
    <3>3. CASE f.batch.by = "stop"
      BY <1>1, <2>1, <3>3 DEF Same, Fields
    <3> QED BY <1>4, <3>1, <3>2, <3>3
  <2>3. Got(g, c) /\ InStep(g, s)
    <3>1. CASE f.batch.by = "end"
      <4>1. g.failed = TRUE
        BY <1>1, <1>2, <3>1 DEF Same, Fields
      <4> QED BY <4>1 DEF Got, InStep
    <3>2. CASE f.batch.by = "poll"
      <4>1. g.got = 0 /\ g.pc \in {"ended", "drop", "poll"}
        BY <1>1, <2>1, <3>2 DEF Same, Fields
      <4> QED BY <2>2, <4>1 DEF Got, InStep, Folding
    <3>3. CASE f.batch.by = "stop"
      <4>1. g.work = "rejected" /\ g.pc = "ended"
        BY <1>1, <2>1, <3>3 DEF Same, Fields
      <4> QED BY <2>2, <4>1 DEF Got, InStep, Folding
    <3> QED BY <1>4, <3>1, <3>2, <3>3
  <2>4. l => \A e \in Matching : e <= g.position => e <= c
    BY <2>2 DEF Stands
  <2>5. FlowOf(g, c, s, h, m, l, a)
    BY <2>2, <2>3, <2>4, EmptyFlow
  <2> QED BY <2>5 DEF g
<1> QED BY <1>3, <1>4

\* What the steps of a batch rest on.
LEMMA HasBatch ==
  ASSUME RunnerInvs, NEW r \in Runners, run[r].batch # NoBatch
  PROVE  /\ DOMAIN run[r].batch = BatchFields
         /\ run[r].batch.by \in {"chain", "end", "poll", "stop"}
         /\ BatchType(run[r].batch) /\ BatchShape(run[r].batch, Managed)
         /\ run[r].lease \in {0, run[r].batch.as} \/ run[r].batch.as = 0
         /\ InOrder(run[r].batch) /\ Before(run[r].batch, run[r].pending)
         /\ ~Fenced(AsOf(run[r]), epoch, holder) =>
              BatchAhead(run[r].batch, cursor, state, handled, Managed)
         /\ ~Fenced(run[r].lease, epoch, holder) => Stands(run[r], cursor)
<1>1. /\ DOMAIN run[r].batch = BatchFields
      /\ run[r].batch.by \in {"chain", "end", "poll", "stop"}
      /\ BatchType(run[r].batch) /\ BatchShape(run[r].batch, Managed)
  BY HasType DEF RunnerInvs
<1>2. run[r].lease \in {0, run[r].batch.as} \/ run[r].batch.as = 0
  BY DEF RunnerInvs, LeaseInv, RunnerInv, BatchInv
<1>3. FlowOf(run[r], cursor, state, handled, Managed,
             ~Fenced(run[r].lease, epoch, holder),
             ~Fenced(AsOf(run[r]), epoch, holder))
  BY HasFlow
<1>4. InOrder(run[r].batch) /\ Before(run[r].batch, run[r].pending)
  BY <1>3 DEF FlowOf, Ordered
<1>5. ~Fenced(AsOf(run[r]), epoch, holder) =>
         BatchAhead(run[r].batch, cursor, state, handled, Managed)
  BY <1>3 DEF FlowOf
<1>6. ~Fenced(run[r].lease, epoch, holder) => Stands(run[r], cursor)
  BY <1>3 DEF FlowOf, Ahead, Stands
<1> QED BY <1>1, <1>2, <1>3, <1>4, <1>5, <1>6

\* A batch that fails without a save.
LEMMA FailuresFlow ==
  ASSUME RunnerInvs, NEW r \in Runners,
         \/ BatchStops(r) \/ SaveRefused(r)
         \/ BatchFault(r) /\ UNCHANGED <<cursor, state>>
  PROVE  FlowInv'
<1> DEFINE f == run[r]
           b == run[r].batch
<1>1. b # NoBatch /\ UNCHANGED <<log, lease, config, handled>>
  BY DEF BatchStops, SaveRefused, BatchFault, log
<1>f. /\ DOMAIN f = Fields /\ TypeOf(f) /\ PhaseOf(f, Managed) /\ Ordered(f)
      /\ cursor \in Nat
  BY HasFlow
<1>b. /\ b.by \in {"chain", "end", "poll", "stop"}
      /\ ~Fenced(f.lease, epoch, holder) => Stands(f, cursor)
  BY <1>1, HasBatch
<1>2. ASSUME NEW g, g = f \/ g = LoseLease(f), Set(r, BatchFails(g))
      PROVE  FlowInv'
  <2>1. Same(f, g, {"lost", "cut"}) /\ DOMAIN g = Fields /\ TypeOf(g)
    <3>1. Same(f, f, {"lost", "cut"})
      BY DEF Same
    <3> QED BY <1>f, <1>2, <3>1, LoseLeaseFields, LoseLeaseType
  <2>2. PhaseOf(g, Managed)
    BY <1>f, <2>1 DEF PhaseOf, Same, Fields
  <2>3. Ordered(g)
    BY <1>f, <2>1 DEF Ordered, Settled, Same, Fields
  <2>4. /\ g.batch = b /\ g.lease = f.lease
        /\ ~Fenced(g.lease, epoch, holder) => Stands(g, cursor)
    BY <1>b, <2>1 DEF Stands, Same, Fields
  <2>5. \A a : FlowOf(BatchFails(g), cursor, state, handled, Managed,
                      ~Fenced(g.lease, epoch, holder), a)
    <3> DEFINE l == ~Fenced(g.lease, epoch, holder)
    <3>1. l => Stands(g, cursor)
      BY <2>4
    <3> HIDE DEF l
    <3>2. \A a : FlowOf(BatchFails(g), cursor, state, handled, Managed, l, a)
      BY <1>1, <1>b, <1>f, <2>1, <2>2, <2>3, <2>4, <3>1, FailsFlow
    <3> QED BY <3>2 DEF l
  <2>6. BatchFails(g).lease = g.lease
    <3> DEFINE k == [g EXCEPT !.batch = NoBatch, !.failed = TRUE]
    <3>1. /\ Same(g, k, {"batch", "failed"}) /\ DOMAIN k = Fields
          /\ g.batch.by = "chain" =>
               Same(g, BatchFails(g), {"batch", "failed", "pending", "mark", "cut"})
          /\ g.batch.by = "end" => BatchFails(g) = Caught(k, g.how = "fatal")
          /\ g.batch.by = "poll" => Same(g, BatchFails(g), {"batch", "pc"})
          /\ g.batch.by = "stop" => Same(g, BatchFails(g), {"batch", "work"})
      BY <2>1, BatchFailsFields
    <3>2. Same(k, Caught(k, g.how = "fatal"), {"how", "pc"})
      BY <3>1, CaughtFields
    <3> HIDE DEF k
    <3> QED BY <1>b, <2>4, <3>1, <3>2 DEF Same, Fields
  <2>7. FlowOf(BatchFails(g), cursor, state, handled, Managed,
               ~Fenced(BatchFails(g).lease, epoch, holder),
               ~Fenced(AsOf(BatchFails(g)), epoch, holder))
    BY <2>5, <2>6
  <2> QED BY <1>1, <1>2, <2>7, StepReads
<1> QED BY <1>2 DEF BatchStops, SaveRefused, BatchFault

\* The last event that a batch has or had.
EndOf(b) == IF b.todo = <<>> THEN b.last ELSE b.todo[Len(b.todo)]

\* A batch goes on: what is done and what is left of it.
LEMMA BatchMovesFlow ==
  ASSUME NEW f, DOMAIN f = Fields, f.batch # NoBatch,
         NEW d, BatchType(d), InOrder(d), Before(d, f.pending),
         d.mark = f.batch.mark, EndOf(d) = EndOf(f.batch),
         \A e \in Matching : InBatch(f.batch, e) => InBatch(d, e),
         NEW c, NEW s, NEW h, NEW m, NEW l, NEW a, NEW j,
         FlowOf(f, c, s, h, m, l, a), j => BatchAhead(d, c, s, h, m)
  PROVE  FlowOf([f EXCEPT !.batch = d], c, s, h, m, l, j)
<1> DEFINE g == [f EXCEPT !.batch = d]
<1>1. Same(f, g, {"batch"}) /\ g.batch = d
  BY DEF Same, Fields
<1>2. d # NoBatch
  BY BatchAssumption DEF BatchType
<1> HIDE DEF g
<1>3. /\ g.pc = f.pc /\ g.work = f.work /\ g.failed = f.failed /\ g.lost = f.lost
      /\ g.reload = f.reload /\ g.mem = f.mem /\ g.pending = f.pending
      /\ g.mark = f.mark /\ g.position = f.position /\ g.streamed = f.streamed
      /\ g.got = f.got
  BY <1>1 DEF Same, Fields
<1>4. Ordered(g)
  BY <1>1, <1>3 DEF FlowOf, Ordered, Settled
<1>5. Got(g, c)
  BY <1>1, <1>2, <1>3 DEF FlowOf, Got, EndOf
<1>6. l => Ahead(g, c)
  <2>1. ASSUME NEW e \in Matching, Somewhere(f, e, c) PROVE Somewhere(g, e, c)
    BY <1>1, <1>2, <1>3, <2>1 DEF Somewhere
  <2> QED BY <1>3, <2>1 DEF FlowOf, Ahead
<1>7. l /\ m => InStep(g, s)
  BY <1>3 DEF FlowOf, InStep
<1>8. FlowOf(g, c, s, h, m, l, j)
  BY <1>1, <1>4, <1>5, <1>6, <1>7 DEF FlowOf
<1> QED BY <1>8 DEF g

\* The same, of the step.
LEMMA BatchStep ==
  ASSUME RunnerInvs, NEW r \in Runners, run[r].batch # NoBatch, NEW d,
         Set(r, [run[r] EXCEPT !.batch = d]), UNCHANGED <<log, lease, config>>,
         handled \subseteq handled',
         BatchType(d), InOrder(d), Before(d, run[r].pending),
         d.mark = run[r].batch.mark, EndOf(d) = EndOf(run[r].batch),
         \A e \in Matching : InBatch(run[r].batch, e) => InBatch(d, e),
         d.as \in {run[r].batch.as, run[r].lease},
         run[r].batch.as = 0,
         ~Fenced(run[r].lease, epoch, holder) =>
           BatchAhead(d, cursor, state, handled', Managed)
  PROVE  FlowInv'
<1> DEFINE f == run[r]
           g == [f EXCEPT !.batch = d]
           l == ~Fenced(f.lease, epoch, holder)
<1>1. /\ FlowOf(f, cursor, state, handled, Managed, l, ~Fenced(AsOf(f), epoch, holder))
      /\ DOMAIN f = Fields
  BY HasFlow
<1>2. FlowOf(f, cursor, state, handled', Managed, l, ~Fenced(AsOf(f), epoch, holder))
  BY <1>1, FlowHandled
<1>3. FlowOf(g, cursor, state, handled', Managed, l, l)
  <2>1. l => BatchAhead(d, cursor, state, handled', Managed)
    OBVIOUS
  <2> HIDE DEF l
  <2> QED BY <1>1, <1>2, <2>1, BatchMovesFlow
<1>4. g.batch = d /\ g.lease = f.lease
  BY <1>1 DEF Fields
<1>5. AsOf(g) = f.lease
  BY <1>4 DEF AsOf
<1>6. FlowOf(g, cursor, state, handled', Managed,
             ~Fenced(g.lease, epoch, holder), ~Fenced(AsOf(g), epoch, holder))
  BY <1>3, <1>4, <1>5
<1>7. /\ cursor' = cursor /\ state' = state /\ mode' = mode
      /\ epoch' = epoch /\ holder' = holder
  BY DEF log, lease, config
<1> HIDE DEF g
<1>8. Set(r, g)
  BY DEF g
<1> QED BY <1>6, <1>7, <1>8, StepFlow DEF RunnerInvs

\* The states of the partitions are loaded: they are the engine's.
LEMMA LoadFlow ==
  ASSUME RunnerInvs, NEW r \in Runners, LoadPartitions(r)
  PROVE  FlowInv'
<1> DEFINE f == run[r]
           b == run[r].batch
           st == [p \in Parts |->
          IF p # Global /\ \E i \in 1 .. Len(b.todo) : Part[b.todo[i]] = p
          THEN state[p] ELSE b.st[p]]
           d == [b EXCEPT !.at = "handle", !.st = st]
<1>f. DOMAIN f = Fields /\ state \in [Parts -> Seq(Matching)]
  BY HasFlow
<1>1. /\ Set(r, [f EXCEPT !.batch = d]) /\ UNCHANGED <<log, lease, config, handled>>
      /\ b # NoBatch /\ b.at = "load"
  <2>1. [f EXCEPT !.batch.at = "handle", !.batch.st = st] = [f EXCEPT !.batch = d]
    BY <1>f DEF Fields
  <2> QED BY <2>1 DEF LoadPartitions
<1>b. /\ DOMAIN b = BatchFields
      /\ BatchType(b) /\ BatchShape(b, Managed)
      /\ InOrder(b) /\ Before(b, f.pending)
      /\ ~Fenced(AsOf(f), epoch, holder) =>
           BatchAhead(b, cursor, state, handled, Managed)
  BY <1>1, HasBatch
<1>2. Managed /\ b.as = 0 /\ AsOf(f) = f.lease
  BY <1>1, <1>b DEF BatchShape, AsOf
<1>3. /\ st \in [Parts -> Seq(Matching)] /\ st[Global] = b.st[Global]
      /\ \A i \in 1 .. Len(b.todo) : Part[b.todo[i]] # Global =>
           st[Part[b.todo[i]]] = state[Part[b.todo[i]]]
  <2>1. b.todo \in Seq(Matching)
    BY <1>b DEF BatchType, Batches
  <2>2. \A i \in 1 .. Len(b.todo) : Part[b.todo[i]] \in Parts
    BY <2>1, Elements, Bounds
  <2>3. st \in [Parts -> Seq(Matching)]
    BY <1>f, <1>b DEF BatchType, Batches
  <2> QED BY <2>2, <2>3, Bounds
<1> HIDE DEF st
<1>4. /\ d.todo = b.todo /\ d.mark = b.mark /\ d.last = b.last /\ d.as = b.as
      /\ d.at = "handle" /\ d.st = st /\ d.pk = b.pk
  BY <1>b DEF BatchFields
<1>5. BatchType(d)
  BY <1>b, <1>3 DEF BatchType, Batches, BatchFields
<1> HIDE DEF d
<1>6. InOrder(d) /\ Before(d, f.pending) /\ EndOf(d) = EndOf(b)
  BY <1>b, <1>4 DEF InOrder, Before, EndOf
<1>7. \A e \in Matching : InBatch(b, e) => InBatch(d, e)
  BY <1>4 DEF InBatch
<1>8. ASSUME ~Fenced(f.lease, epoch, holder)
      PROVE  BatchAhead(d, cursor, state, handled', Managed)
  <2>1. BatchAhead(b, cursor, state, handled, Managed)
    BY <1>2, <1>8, <1>b
  <2>2. b.last <= cursor /\ b.st[Global] = state[Global]
    BY <1>1, <1>2, <2>1 DEF BatchAhead, Folded
  <2>3. Folded(d, cursor, state)
    BY <1>3, <1>4, <2>2 DEF Folded
  <2> QED BY <1>2, <1>4, <2>1, <2>3 DEF BatchAhead, InBatch
<1> QED BY <1>1, <1>2, <1>4, <1>5, <1>6, <1>7, <1>8, BatchStep

\* The handler is through with the batch, which is acknowledged at its end.
LEMMA AcknowledgeFlow ==
  ASSUME RunnerInvs, NEW r \in Runners, Acknowledge(r)
  PROVE  FlowInv'
<1> DEFINE f == run[r]
           b == run[r].batch
           d == [b EXCEPT !.at = "commit", !.as = f.lease]
<1>f. DOMAIN f = Fields
  BY HasFlow
<1>1. /\ Set(r, [f EXCEPT !.batch = d]) /\ UNCHANGED <<log, lease, config, handled>>
      /\ b # NoBatch /\ b.at = "handle" /\ ~Managed /\ b.todo = <<>>
  <2>1. [f EXCEPT !.batch.at = "commit", !.batch.as = f.lease] = [f EXCEPT !.batch = d]
    BY <1>f DEF Fields
  <2> QED BY <2>1 DEF Acknowledge
<1>b. /\ DOMAIN b = BatchFields
      /\ BatchType(b) /\ BatchShape(b, Managed)
      /\ InOrder(b) /\ Before(b, f.pending)
      /\ ~Fenced(AsOf(f), epoch, holder) =>
           BatchAhead(b, cursor, state, handled, Managed)
      /\ f.lease \in Nat
  BY <1>1, HasBatch, HasType DEF RunnerInvs
<1>2. b.as = 0 /\ AsOf(f) = f.lease
  BY <1>1, <1>b DEF BatchShape, AsOf
<1>4. /\ d.todo = b.todo /\ d.mark = b.mark /\ d.last = b.last /\ d.as = f.lease
      /\ d.at = "commit" /\ d.st = b.st /\ d.pk = b.pk
  BY <1>b DEF BatchFields
<1>5. BatchType(d)
  BY <1>b DEF BatchType, Batches, BatchFields
<1> HIDE DEF d
<1>6. InOrder(d) /\ Before(d, f.pending) /\ EndOf(d) = EndOf(b)
  BY <1>b, <1>4 DEF InOrder, Before, EndOf
<1>7. \A e \in Matching : InBatch(b, e) => InBatch(d, e)
  BY <1>4 DEF InBatch
<1>8. ASSUME ~Fenced(f.lease, epoch, holder)
      PROVE  BatchAhead(d, cursor, state, handled', Managed)
  <2>1. BatchAhead(b, cursor, state, handled, Managed)
    BY <1>2, <1>8, <1>b
  <2>2. Processing(b, cursor, handled)
    BY <1>1, <2>1 DEF BatchAhead
  <2>3. Processing(d, cursor, handled) /\ cursor < d.last
    BY <1>1, <1>4, <2>2 DEF Processing
  <2> QED BY <1>1, <1>4, <2>1, <2>3 DEF BatchAhead, InBatch
<1> QED BY <1>1, <1>2, <1>4, <1>5, <1>6, <1>7, <1>8, BatchStep

\* The tail of a sequence.
LEMMA TailIs ==
  ASSUME NEW s \in Seq(Matching), s # <<>>
  PROVE  /\ Head(s) = s[1] /\ Tail(s) \in Seq(Matching) /\ Len(Tail(s)) = Len(s) - 1
         /\ Len(s) \in Nat \ {0}
         /\ \A i \in 1 .. Len(Tail(s)) : i + 1 \in 1 .. Len(s) /\ Tail(s)[i] = s[i + 1]
         /\ \A i \in 1 .. Len(s) : i = 1 \/ (/\ i - 1 \in 1 .. Len(Tail(s))
                                              /\ Tail(s)[i - 1] = s[i])
         /\ Tail(s) = <<>> => Len(s) = 1
         /\ Tail(s) # <<>> => Tail(s)[Len(Tail(s))] = s[Len(s)]
<1>1. Head(s) = s[1] /\ Tail(s) \in Seq(Matching) /\ Len(Tail(s)) = Len(s) - 1
  BY HeadTailProperties
<1>2. Len(s) \in Nat \ {0}
  BY EmptySeq
<1>3. \A i \in 1 .. Len(Tail(s)) : Tail(s)[i] = s[i + 1]
  BY HeadTailProperties
<1>4. ASSUME NEW i \in 1 .. Len(Tail(s)) PROVE i + 1 \in 1 .. Len(s)
  BY <1>1, <1>2
<1>5. ASSUME NEW i \in 1 .. Len(s), i # 1
      PROVE  i - 1 \in 1 .. Len(Tail(s)) /\ Tail(s)[i - 1] = s[i]
  <2>1. i - 1 \in 1 .. Len(Tail(s)) /\ (i - 1) + 1 = i
    BY <1>1, <1>2, <1>5
  <2> QED BY <1>3, <2>1
<1>6. Tail(s) = <<>> => Len(s) = 1
  <2>1. Tail(s) = <<>> => Len(Tail(s)) = 0
    BY <1>1, EmptySeq
  <2> QED BY <1>1, <1>2, <2>1
<1>7. Tail(s) # <<>> => Tail(s)[Len(Tail(s))] = s[Len(s)]
  <2>1. Tail(s) # <<>> => Len(Tail(s)) # 0
    BY <1>1, EmptySeq
  <2>2. Tail(s) # <<>> => Len(Tail(s)) \in 1 .. Len(Tail(s)) /\ Len(Tail(s)) + 1 = Len(s)
    BY <1>1, <1>2, <2>1
  <2> QED BY <1>3, <2>2
<1> QED BY <1>1, <1>2, <1>3, <1>4, <1>5, <1>6, <1>7

\* The handler has processed one event more.
LEMMA HandleFlow ==
  ASSUME RunnerInvs, NEW r \in Runners, Handle(r)
  PROVE  FlowInv'
<1> DEFINE f == run[r]
           b == run[r].batch
           t == Tail(b.todo)
           x == Head(b.todo)
           d == [b EXCEPT !.todo = t, !.last = x]
<1>f. DOMAIN f = Fields /\ cursor \in Nat
  BY HasFlow
<1>1. /\ Set(r, [f EXCEPT !.batch = d]) /\ UNCHANGED <<log, lease, config>>
      /\ b # NoBatch /\ b.at = "handle" /\ ~Managed /\ b.todo # <<>>
      /\ handled' = handled \cup {x}
  BY DEF Handle
<1>b. /\ DOMAIN b = BatchFields
      /\ BatchType(b) /\ BatchShape(b, Managed)
      /\ InOrder(b) /\ Before(b, f.pending)
      /\ ~Fenced(AsOf(f), epoch, holder) =>
           BatchAhead(b, cursor, state, handled, Managed)
  BY <1>1, HasBatch
<1>2. b.as = 0 /\ AsOf(f) = f.lease
  BY <1>1, <1>b DEF BatchShape, AsOf
<1>3. b.todo \in Seq(Matching) /\ b.last \in Nat
  BY <1>b, Bounds DEF BatchType, Batches
<1>n. \A i \in 1 .. Len(b.todo) : b.todo[i] \in Matching /\ b.todo[i] \in Nat
  BY <1>3, Elements
<1>t. /\ x = b.todo[1] /\ t \in Seq(Matching) /\ Len(t) = Len(b.todo) - 1
      /\ Len(b.todo) \in Nat \ {0}
      /\ \A i \in 1 .. Len(t) : i + 1 \in 1 .. Len(b.todo) /\ t[i] = b.todo[i + 1]
      /\ \A i \in 1 .. Len(b.todo) : i = 1 \/ (i - 1 \in 1 .. Len(t) /\ t[i - 1] = b.todo[i])
      /\ t = <<>> => Len(b.todo) = 1
      /\ t # <<>> => t[Len(t)] = b.todo[Len(b.todo)]
  BY <1>1, <1>3, TailIs
<1> HIDE DEF t, x
<1>x. 1 \in 1 .. Len(b.todo) /\ x \in Matching /\ x \in Nat
  BY <1>n, <1>t
<1>4. /\ d.todo = t /\ d.mark = b.mark /\ d.last = x /\ d.as = b.as
      /\ d.at = "handle" /\ d.st = b.st /\ d.pk = b.pk
  BY <1>1, <1>b DEF BatchFields
<1>5. BatchType(d)
  BY <1>b, <1>t, <1>x, Bounds DEF BatchType, Batches, BatchFields
<1> HIDE DEF d
<1>l. \A i \in 1 .. Len(t) : x < t[i]
  <2> TAKE i \in 1 .. Len(t)
  <2>1. i + 1 \in 1 .. Len(b.todo) /\ t[i] = b.todo[i + 1] /\ 1 < i + 1
    BY <1>t
  <2> QED BY <1>b, <1>t, <1>x, <2>1 DEF InOrder, Incr
<1>6. InOrder(d) /\ Before(d, f.pending) /\ EndOf(d) = EndOf(b)
  <2>1. Incr(t)
    <3> SUFFICES ASSUME NEW i \in 1 .. Len(t), NEW j \in 1 .. Len(t), i < j
                 PROVE  t[i] < t[j]
      BY DEF Incr
    <3>1. /\ i + 1 \in 1 .. Len(b.todo) /\ j + 1 \in 1 .. Len(b.todo) /\ i + 1 < j + 1
          /\ t[i] = b.todo[i + 1] /\ t[j] = b.todo[j + 1]
      BY <1>t
    <3> QED BY <1>b, <3>1 DEF InOrder, Incr
  <2>2. x <= b.mark /\ \A i \in 1 .. Len(t) : t[i] <= b.mark
    BY <1>b, <1>t, <1>x DEF InOrder
  <2>3. InOrder(d)
    BY <1>4, <1>l, <2>1, <2>2 DEF InOrder
  <2>4. Before(d, f.pending)
    BY <1>4, <1>b, <1>t, <1>x DEF Before
  <2>5. EndOf(d) = EndOf(b)
    BY <1>1, <1>4, <1>t DEF EndOf
  <2> QED BY <2>3, <2>4, <2>5
<1>7. ASSUME NEW e \in Matching, InBatch(b, e) PROVE InBatch(d, e)
  <2>1. e \in Nat
    BY Numbers
  <2>2. CASE e <= b.last
    <3>1. b.last < x
      BY <1>b, <1>t, <1>x DEF InOrder
    <3> QED BY <1>3, <1>4, <1>x, <2>1, <2>2, <3>1 DEF InBatch
  <2>3. CASE In(b.todo, e)
    <3>1. PICK i \in 1 .. Len(b.todo) : b.todo[i] = e
      BY <2>3 DEF In
    <3>2. i = 1 => e <= x
      BY <1>t, <1>x, <3>1
    <3>3. i # 1 => In(t, e)
      BY <1>t, <3>1 DEF In
    <3> QED BY <1>4, <3>2, <3>3 DEF InBatch
  <2> QED BY <1>7, <2>2, <2>3 DEF InBatch
<1>8. ASSUME ~Fenced(f.lease, epoch, holder)
      PROVE  BatchAhead(d, cursor, state, handled', Managed)
  <2>1. BatchAhead(b, cursor, state, handled, Managed)
    BY <1>2, <1>8, <1>b
  <2>2. Processing(b, cursor, handled) /\ cursor < x
    BY <1>1, <1>t, <1>x, <2>1 DEF BatchAhead
  <2>3. \A e \in Matching : e <= cursor => e \in handled
    BY <1>1 DEF RunnerInvs, FlowInv, NothingSkipped
  <2>4. ASSUME NEW e \in Matching, e <= x PROVE e \in handled \cup {x}
    <3>1. e \in Nat /\ b.mark \in Nat /\ x <= b.mark
      BY <1>b, <1>t, <1>x, Numbers, Bounds DEF InOrder, BatchType, Batches
    <3>2. e <= b.mark
      BY <1>x, <2>4, <3>1
    <3>3. e <= cursor \/ e <= b.last \/ In(b.todo, e)
      BY <2>1, <3>2 DEF BatchAhead, InBatch
    <3>4. In(b.todo, e) => e = x
      <4>1. ASSUME NEW i \in 1 .. Len(b.todo), b.todo[i] = e PROVE e = x
        <5>1. i = 1 \/ x < b.todo[i]
          BY <1>l, <1>t
        <5> QED BY <1>t, <1>x, <2>4, <3>1, <4>1, <5>1
      <4> QED BY <4>1 DEF In
    <3> QED BY <2>2, <2>3, <3>3, <3>4 DEF Processing
  <2>5. Processing(d, cursor, handled')
    BY <1>1, <1>4, <2>2, <2>4 DEF Processing
  <2>6. \A i \in 1 .. Len(t) : cursor < t[i]
    <3> TAKE i \in 1 .. Len(t)
    <3>1. i + 1 \in 1 .. Len(b.todo) /\ t[i] = b.todo[i + 1]
      BY <1>t
    <3> QED BY <2>1, <3>1 DEF BatchAhead
  <2>7. \A e \in Matching : e <= d.mark => e <= cursor \/ InBatch(d, e)
    BY <1>4, <1>7, <2>1 DEF BatchAhead
  <2> QED BY <1>1, <1>4, <2>5, <2>6, <2>7 DEF BatchAhead
<1> QED BY <1>1, <1>2, <1>4, <1>5, <1>6, <1>7, <1>8, BatchStep

\* A batch is cut after its first n events.
LEMMA SplitIs ==
  ASSUME NEW s \in Seq(Matching), NEW n \in 1 .. Len(s)
  PROVE  LET q == SubSeq(s, 1, n)
             t == SubSeq(s, n + 1, Len(s))
         IN
         /\ q \in Seq(Matching) /\ t \in Seq(Matching)
         /\ q # <<>> /\ Len(q) = n /\ n \in Nat /\ Len(s) \in Nat
         /\ \A i \in 1 .. n : i \in 1 .. Len(s) /\ q[i] = s[i]
         /\ \A i \in 1 .. Len(t) : n + i \in 1 .. Len(s) /\ t[i] = s[n + i]
         /\ \A i \in 1 .. Len(s) :
              i <= n \/ (i - n \in 1 .. Len(t) /\ t[i - n] = s[i])
         /\ t = <<>> => n = Len(s)
         /\ t # <<>> => t[Len(t)] = s[Len(s)]
<1> DEFINE q == SubSeq(s, 1, n)
           t == SubSeq(s, n + 1, Len(s))
<1>1. /\ Len(s) \in Nat /\ n \in Nat /\ n <= Len(s) /\ 1 <= n
      /\ \A i \in 1 .. Len(s) : s[i] \in Matching
  OBVIOUS
<1>2. q \in Seq(Matching) /\ Len(q) = n /\ \A i \in 1 .. n : q[i] = s[i]
  <2>1. \A i \in 1 .. n : s[i] \in Matching
    BY <1>1
  <2>2. n \in 1 - 1 .. Len(s)
    BY <1>1
  <2>3. /\ q \in Seq(Matching)
        /\ Len(q) = IF 1 <= n THEN n - 1 + 1 ELSE 0
        /\ \A i \in 1 .. n - 1 + 1 : q[i] = s[1 + i - 1]
    BY <2>1, <1>1, SubSeqProperties
  <2>4. n - 1 + 1 = n /\ \A i \in 1 .. n : 1 + i - 1 = i
    BY <1>1
  <2> HIDE DEF q
  <2> QED BY <1>1, <2>3, <2>4
<1>3. /\ t \in Seq(Matching) /\ Len(t) = Len(s) - n
      /\ \A i \in 1 .. Len(t) : t[i] = s[n + i]
  <2>1. \A i \in n + 1 .. Len(s) : s[i] \in Matching
    BY <1>1
  <2>2. n + 1 \in Int /\ Len(s) \in Int
    BY <1>1
  <2>3. /\ t \in Seq(Matching)
        /\ Len(t) = IF n + 1 <= Len(s) THEN Len(s) - (n + 1) + 1 ELSE 0
        /\ \A i \in 1 .. Len(s) - (n + 1) + 1 : t[i] = s[(n + 1) + i - 1]
    BY <2>1, <2>2, <1>1, SubSeqProperties
  <2>4. Len(s) - (n + 1) + 1 = Len(s) - n
    BY <1>1
  <2> HIDE DEF t
  <2>5. Len(t) = Len(s) - n
    <3>1. Len(t) = IF n + 1 <= Len(s) THEN Len(s) - (n + 1) + 1 ELSE 0
      BY <2>3
    <3>2. CASE n + 1 <= Len(s)
      BY <2>4, <3>1, <3>2
    <3>3. CASE ~(n + 1 <= Len(s))
      <4>1. Len(s) = n
        BY <1>1, <3>3
      <4> QED BY <1>1, <3>1, <3>3, <4>1
    <3> QED BY <3>2, <3>3
  <2>6. \A i \in 1 .. Len(t) : (n + 1) + i - 1 = n + i
    BY <1>1
  <2> QED BY <1>1, <2>3, <2>4, <2>5, <2>6
<1> HIDE DEF q, t
<1>4. q # <<>>
  BY <1>1, <1>2, EmptySeq
<1>5. \A i \in 1 .. n : i \in 1 .. Len(s)
  BY <1>1
<1>6. \A i \in 1 .. Len(t) : n + i \in 1 .. Len(s)
  BY <1>1, <1>3
<1>7. ASSUME NEW i \in 1 .. Len(s), ~(i <= n)
      PROVE  i - n \in 1 .. Len(t) /\ t[i - n] = s[i]
  <2>1. i - n \in 1 .. Len(t) /\ n + (i - n) = i
    BY <1>1, <1>3, <1>7
  <2> QED BY <1>3, <2>1
<1>8. t = <<>> => n = Len(s)
  <2>1. t = <<>> => Len(t) = 0
    OBVIOUS
  <2> QED BY <1>1, <1>3, <2>1
<1>9. t # <<>> => t[Len(t)] = s[Len(s)]
  <2>1. t # <<>> => Len(t) # 0
    BY <1>3, EmptySeq
  <2>2. t # <<>> => Len(t) \in 1 .. Len(t) /\ n + Len(t) = Len(s)
    BY <1>1, <1>3, <2>1
  <2> QED BY <1>3, <2>2
<1> QED BY <1>1, <1>2, <1>3, <1>4, <1>5, <1>6, <1>7, <1>8, <1>9 DEF q, t

\* The next run of a managed batch is folded into the state of its partition.
LEMMA ReduceFlow ==
  ASSUME RunnerInvs, NEW r \in Runners, Reduce(r)
  PROVE  FlowInv'
<1> DEFINE f == run[r]
           b == run[r].batch
           n == RunLength(b.todo)
           pk == Part[b.todo[1]]
           q == SubSeq(b.todo, 1, n)
           t == SubSeq(b.todo, n + 1, Len(b.todo))
           d == [b EXCEPT !.at = "commit", !.as = f.lease, !.pk = pk,
                          !.last = b.todo[n], !.st[pk] = @ \o q, !.todo = t]
<1>f. DOMAIN f = Fields /\ cursor \in Nat
  BY HasFlow
<1>1. /\ Set(r, [f EXCEPT !.batch = d]) /\ UNCHANGED <<log, lease, config, handled>>
      /\ b # NoBatch /\ b.at = "handle" /\ Managed
  BY DEF Reduce
<1>b. /\ DOMAIN b = BatchFields
      /\ BatchType(b) /\ BatchShape(b, Managed)
      /\ InOrder(b) /\ Before(b, f.pending)
      /\ ~Fenced(AsOf(f), epoch, holder) =>
           BatchAhead(b, cursor, state, handled, Managed)
      /\ f.lease \in Nat
  BY <1>1, HasBatch, HasType DEF RunnerInvs
<1>2. b.as = 0 /\ AsOf(f) = f.lease /\ b.todo # <<>>
  BY <1>1, <1>b DEF BatchShape, AsOf
<1>3. b.todo \in Seq(Matching) /\ b.last \in Nat /\ b.mark \in Nat
  BY <1>b, Bounds DEF BatchType, Batches
<1>n. /\ \A i \in 1 .. Len(b.todo) : b.todo[i] \in Matching /\ b.todo[i] \in Nat
      /\ 1 \in 1 .. Len(b.todo) /\ Len(b.todo) \in Nat
  BY <1>2, <1>3, Elements
<1>r. n \in 1 .. Len(b.todo) /\ \A i \in 1 .. n : Part[b.todo[i]] = pk
  BY <1>2, <1>3, RunLengthIs
<1> HIDE DEF n
<1>t. /\ q \in Seq(Matching) /\ t \in Seq(Matching)
      /\ q # <<>> /\ Len(q) = n /\ n \in Nat /\ Len(b.todo) \in Nat
      /\ \A i \in 1 .. n : i \in 1 .. Len(b.todo) /\ q[i] = b.todo[i]
      /\ \A i \in 1 .. Len(t) : n + i \in 1 .. Len(b.todo) /\ t[i] = b.todo[n + i]
      /\ \A i \in 1 .. Len(b.todo) :
           i <= n \/ (i - n \in 1 .. Len(t) /\ t[i - n] = b.todo[i])
      /\ t = <<>> => n = Len(b.todo)
      /\ t # <<>> => t[Len(t)] = b.todo[Len(b.todo)]
  BY <1>3, <1>r, SplitIs
<1> HIDE DEF q, t
<1>p. pk \in Parts /\ b.st \in [Parts -> Seq(Matching)]
  BY <1>b, <1>n, Bounds DEF BatchType, Batches
<1> HIDE DEF pk
<1>4. /\ d.todo = t /\ d.mark = b.mark /\ d.last = b.todo[n] /\ d.as = f.lease
      /\ d.at = "commit" /\ d.pk = pk /\ d.by = b.by
      /\ d.st = [b.st EXCEPT ![pk] = @ \o q]
      /\ DOMAIN d = BatchFields
  BY <1>b DEF BatchFields
<1>s. /\ d.st \in [Parts -> Seq(Matching)] /\ d.st[pk] = b.st[pk] \o q
      /\ \A p \in Parts : p # pk => d.st[p] = b.st[p]
  <2>1. b.st[pk] \in Seq(Matching)
    BY <1>p
  <2>2. b.st[pk] \o q \in Seq(Matching)
    BY <2>1, <1>t
  <2> HIDE DEF d
  <2> QED BY <1>4, <1>p, <2>2
<1>5. BatchType(d)
  <2> DEFINE st == [b.st EXCEPT ![pk] = @ \o q]
             k == [b EXCEPT !.at = "commit", !.as = f.lease, !.pk = pk,
                            !.last = b.todo[n], !.st = st, !.todo = t]
  <2>1. d = k
    BY <1>b DEF BatchType, Batches
  <2>2. st \in [Parts -> Seq(Matching)]
    <3> HIDE DEF d
    <3> QED BY <1>4, <1>s
  <2> HIDE DEF st, d
  <2>3. b.todo[n] \in 0 .. N
    BY <1>n, <1>r, Bounds
  <2>4. BatchType(k)
    BY <1>b, <1>p, <1>t, <2>2, <2>3 DEF BatchType, Batches
  <2> QED BY <2>1, <2>4
<1> HIDE DEF d
<1>l. /\ \A i \in 1 .. Len(t) : b.todo[n] < t[i]
      /\ \A i \in 1 .. n : b.todo[i] <= b.todo[n]
  <2>1. ASSUME NEW i \in 1 .. Len(t) PROVE b.todo[n] < t[i]
    <3>1. n + i \in 1 .. Len(b.todo) /\ n < n + i /\ t[i] = b.todo[n + i]
      BY <1>t
    <3> QED BY <1>b, <1>r, <3>1 DEF InOrder, Incr
  <2>2. ASSUME NEW i \in 1 .. n PROVE b.todo[i] <= b.todo[n]
    <3>1. i < n \/ i = n
      BY <1>t
    <3>2. i < n => b.todo[i] < b.todo[n]
      BY <1>b, <1>r, <1>t DEF InOrder, Incr
    <3>3. b.todo[i] \in Nat /\ b.todo[n] \in Nat
      BY <1>n, <1>r, <1>t
    <3> QED BY <3>1, <3>2, <3>3
  <2> QED BY <2>1, <2>2
<1>6. InOrder(d) /\ Before(d, f.pending) /\ EndOf(d) = EndOf(b)
  <2>1. Incr(t)
    <3> SUFFICES ASSUME NEW i \in 1 .. Len(t), NEW j \in 1 .. Len(t), i < j
                 PROVE  t[i] < t[j]
      BY DEF Incr
    <3>1. /\ n + i \in 1 .. Len(b.todo) /\ n + j \in 1 .. Len(b.todo) /\ n + i < n + j
          /\ t[i] = b.todo[n + i] /\ t[j] = b.todo[n + j]
      BY <1>t
    <3> QED BY <1>b, <3>1 DEF InOrder, Incr
  <2>2. b.todo[n] <= b.mark /\ \A i \in 1 .. Len(t) : t[i] <= b.mark
    BY <1>b, <1>t, <1>r DEF InOrder
  <2>3. InOrder(d)
    BY <1>4, <1>l, <2>1, <2>2 DEF InOrder
  <2>4. Before(d, f.pending)
    <3>1. ASSUME NEW j \in 1 .. Len(f.pending)
          PROVE  /\ b.todo[n] < f.pending[j]
                 /\ \A i \in 1 .. Len(t) : t[i] < f.pending[j]
      BY <1>b, <1>t, <1>r DEF Before
    <3> QED BY <1>4, <3>1 DEF Before
  <2>5. EndOf(d) = EndOf(b)
    BY <1>2, <1>4, <1>t DEF EndOf
  <2> QED BY <2>3, <2>4, <2>5
<1>7. ASSUME NEW e \in Matching, InBatch(b, e) PROVE InBatch(d, e)
  <2>1. e \in Nat /\ b.todo[n] \in Nat
    BY <1>n, <1>r, Numbers
  <2>2. CASE e <= b.last
    <3>1. b.last < b.todo[n]
      BY <1>b, <1>r DEF InOrder
    <3> QED BY <1>3, <1>4, <2>1, <2>2, <3>1 DEF InBatch
  <2>3. CASE In(b.todo, e)
    <3>1. PICK i \in 1 .. Len(b.todo) : b.todo[i] = e
      BY <2>3 DEF In
    <3>2. i <= n => i \in 1 .. n
      BY <1>t
    <3>3. i <= n => e <= b.todo[n]
      BY <1>l, <3>1, <3>2
    <3>4. ~(i <= n) => In(t, e)
      BY <1>t, <3>1 DEF In
    <3> QED BY <1>4, <3>3, <3>4 DEF InBatch
  <2> QED BY <1>7, <2>2, <2>3 DEF InBatch
<1>8. ASSUME ~Fenced(f.lease, epoch, holder)
      PROVE  BatchAhead(d, cursor, state, handled', Managed)
  <2>1. BatchAhead(b, cursor, state, handled, Managed)
    BY <1>2, <1>8, <1>b
  <2>2. /\ b.last <= cursor /\ b.st[Global] = state[Global]
        /\ \A i \in 1 .. Len(b.todo) : b.st[Part[b.todo[i]]] = state[Part[b.todo[i]]]
    BY <1>1, <2>1 DEF BatchAhead, Folded
  <2>3. \A i \in 1 .. Len(b.todo) : cursor < b.todo[i]
    BY <2>1 DEF BatchAhead
  <2>4. RunOf(d, q, cursor, state)
    <3>1. Incr(q)
      BY <1>b, <1>t DEF InOrder, Incr
    <3>2. q[Len(q)] = d.last
      BY <1>4, <1>r, <1>t
    <3>3. ASSUME NEW i \in 1 .. Len(q) PROVE cursor < q[i] /\ Part[q[i]] = d.pk
      <4>1. i \in 1 .. n /\ i \in 1 .. Len(b.todo) /\ q[i] = b.todo[i]
        BY <1>t
      <4> QED BY <1>4, <1>r, <2>3, <4>1
    <3>4. ASSUME NEW e \in Matching, cursor < e, e <= d.last PROVE In(q, e)
      <4>1. e \in Nat /\ b.todo[n] \in Nat /\ b.todo[n] <= b.mark
        BY <1>b, <1>n, <1>r, Numbers DEF InOrder
      <4>2. e <= b.mark /\ ~(e <= cursor) /\ ~(e <= b.last)
        <5>1. cursor \in Nat /\ b.last \in Nat /\ b.mark \in Nat /\ b.last <= cursor
          BY <1>3, <1>f, <2>2
        <5>2. e <= b.todo[n] /\ cursor < e
          BY <1>4, <3>4
        <5> QED BY <4>1, <5>1, <5>2
      <4>3. PICK i \in 1 .. Len(b.todo) : b.todo[i] = e
        BY <2>1, <4>2 DEF BatchAhead, InBatch, In
      <4>4. i <= n
        <5>1. ~(i <= n) => i - n \in 1 .. Len(t) /\ t[i - n] = e
          BY <1>t, <4>3
        <5>2. ~(i <= n) => b.todo[n] < e
          BY <1>l, <5>1
        <5> QED BY <1>4, <3>4, <4>1, <5>2
      <4>5. i \in 1 .. n
        BY <1>t, <4>4
      <4> QED BY <1>t, <4>3, <4>5 DEF In
    <3>5. d.st[d.pk] = state[d.pk] \o q
      <4>1. b.st[pk] = state[pk]
        BY <1>n, <2>2 DEF pk
      <4> QED BY <1>4, <1>s, <4>1
    <3> QED BY <1>t, <3>1, <3>2, <3>3, <3>4, <3>5 DEF RunOf
  <2>5. Folded(d, cursor, state)
    <3>1. d.pk # Global => d.st[Global] = state[Global]
      BY <1>4, <1>s, <2>2, Bounds
    <3>2. ASSUME NEW i \in 1 .. Len(t), pk # Part[t[i]]
          PROVE  d.st[Part[t[i]]] = state[Part[t[i]]]
      <4>1. n + i \in 1 .. Len(b.todo) /\ t[i] = b.todo[n + i]
        BY <1>t
      <4>2. Part[t[i]] \in Parts
        BY <1>n, <4>1, Bounds
      <4> QED BY <1>s, <2>2, <3>2, <4>1, <4>2
    <3> QED BY <1>4, <1>t, <2>4, <3>1, <3>2 DEF Folded
  <2>6. \A i \in 1 .. Len(t) : cursor < t[i]
    BY <1>t, <2>3
  <2>7. \A e \in Matching : e <= d.mark => e <= cursor \/ InBatch(d, e)
    BY <1>4, <1>7, <2>1 DEF BatchAhead
  <2>8. cursor < d.last
    BY <1>4, <1>r, <2>3
  <2> QED BY <1>1, <1>4, <2>5, <2>6, <2>7, <2>8 DEF BatchAhead
<1> QED BY <1>1, <1>2, <1>4, <1>5, <1>6, <1>7, <1>8, BatchStep

\* A batch is committed.
LEMMA DoneFlow ==
  ASSUME NEW f, DOMAIN f = Fields, TypeOf(f), NEW m, PhaseOf(f, m),
         f.batch # NoBatch, f.batch.by \in {"chain", "end", "poll", "stop"},
         f.batch.todo = <<>>,
         NEW c \in Nat, c = f.batch.last,
         NEW s, NEW h, NEW l, NEW a, NEW j, FlowOf(f, c, s, h, m, l, a),
         l => \A e \in Matching : e <= f.batch.mark => e <= c
  PROVE  FlowOf(BatchDone(f), c, s, h, m, l, j)
<1> DEFINE k == [f EXCEPT !.batch = NoBatch, !.position = Higher(@, f.batch.mark)]
           g == BatchDone(f)
<1>1. /\ Same(f, k, {"batch", "position"}) /\ DOMAIN k = Fields
      /\ k.batch = NoBatch /\ k.position = Higher(f.position, f.batch.mark)
      /\ f.batch.by = "chain" => g = k
      /\ f.batch.by = "end" => g = NextIteration(k)
      /\ f.batch.by = "poll" => /\ Same(f, g, {"batch", "position", "pc"})
                                /\ g.batch = NoBatch
                                /\ g.position = k.position /\ g.pc = "poll"
      /\ f.batch.by = "stop" => /\ Same(f, g, {"batch", "position", "work"})
                                /\ g.batch = NoBatch
                                /\ g.position = k.position /\ g.work = "done"
  BY BatchDoneFields
<1> HIDE DEF k, g
<1>2. /\ k.pc = f.pc /\ k.work = f.work /\ k.failed = f.failed /\ k.lost = f.lost
      /\ k.reload = f.reload /\ k.mem = f.mem /\ k.pending = f.pending
      /\ k.mark = f.mark /\ k.streamed = f.streamed /\ k.got = f.got
  BY <1>1 DEF Same, Fields
<1>3. /\ Ordered(f) /\ Got(f, c) /\ (l => Ahead(f, c) /\ (m => InStep(f, s)))
  BY DEF FlowOf
<1>4. Ordered(k)
  BY <1>1, <1>2, <1>3 DEF Ordered, Settled
<1>5. Got(k, c)
  BY <1>1, <1>2, <1>3 DEF Got
<1>6. l => \A e \in Matching : e <= k.position => e <= c
  BY <1>1, <1>3 DEF Ahead, Higher
<1>7. l => Ahead(k, c)
  <2>1. ASSUME NEW e \in Matching, Somewhere(f, e, c) PROVE Somewhere(k, e, c)
    <3>1. ~In(f.batch.todo, e)
      BY DEF In
    <3> QED BY <1>2, <2>1, <3>1 DEF Somewhere, InBatch
  <2> QED BY <1>2, <1>3, <1>6, <2>1 DEF Ahead
<1>8. l /\ m => InStep(k, s)
  BY <1>2, <1>3 DEF InStep
<1>9. \A i : FlowOf(k, c, s, h, m, l, i)
  BY <1>1, <1>4, <1>5, <1>7, <1>8 DEF FlowOf
<1>10. CASE f.batch.by = "chain"
  BY <1>1, <1>9, <1>10 DEF g
<1>11. CASE f.batch.by # "chain"
  <2>1. /\ f.pending = <<>> /\ f.mark = 0 /\ f.pc \in {"finishing", "polled", "ended"}
        /\ f.batch.by = "end" => f.pc = "finishing"
        /\ f.batch.by = "poll" => f.got = 0 /\ f.pc = "polled"
        /\ f.batch.by = "stop" => f.pc = "ended"
    BY <1>3, <1>11 DEF PhaseOf, Ordered, Settled, Resting
  <2>2. CASE f.batch.by = "end"
    <3>1. k.pc \in Folding /\ k.pending = <<>> /\ k.mark = 0 /\ k.pc # "reading"
      BY <1>2, <2>1, <2>2 DEF Folding
    <3>2. FlowOf(NextIteration(k), c, s, h, m, l, j)
      BY <1>1, <1>9, <3>1, NextIterationFlow
    <3> QED BY <1>1, <2>2, <3>2 DEF g
  <2>3. CASE f.batch.by # "end"
    <3>1. /\ g.batch = NoBatch /\ g.pending = <<>> /\ g.mark = 0
          /\ g.pc \in {"poll", "ended"} /\ g.position = k.position
          /\ g.got = f.got /\ g.failed = f.failed /\ g.lost = f.lost
          /\ f.work # "rejected"
      <4>1. CASE f.batch.by = "poll"
        BY <1>1, <2>1, <4>1 DEF Same, Fields, PhaseOf
      <4>2. CASE f.batch.by = "stop"
        <5>1. f.work = "flush"
          BY <4>2 DEF PhaseOf
        <5> QED BY <1>1, <2>1, <4>2, <5>1 DEF Same, Fields
      <4> QED BY <1>11, <2>3, <4>1, <4>2
    <3>2. Got(g, c)
      BY <1>1, <1>3, <2>1, <3>1 DEF Got
    <3>3. InStep(g, s) /\ g.pc # "reading"
      BY <3>1 DEF InStep, Folding
    <3>4. FlowOf(g, c, s, h, m, l, j)
      BY <1>6, <3>1, <3>2, <3>3, EmptyFlow
    <3> QED BY <3>4 DEF g
  <2> QED BY <2>2, <2>3
<1> QED BY <1>10, <1>11

\* A save that the engine accepts.
LEMMA LandsIs ==
  ASSUME RunnerInvs, NEW r \in Runners, run[r].batch # NoBatch,
         run[r].batch.at = "commit", Current(run[r].batch.as), Landed(run[r].batch)
  PROVE  LET f == run[r]
             b == run[r].batch
         IN
         /\ cursor' = b.last /\ cursor' \in Nat /\ cursor < cursor'
         /\ ~Fenced(b.as, epoch, holder) /\ f.lease \in {0, b.as}
         /\ ~Fenced(f.lease, epoch, holder) => Stands(f, cursor')
         /\ \A i \in 1 .. Len(b.todo) : cursor' < b.todo[i]
         /\ \A e \in Matching : e <= b.mark => e <= cursor' \/ In(b.todo, e)
         /\ Managed =>
              /\ state'[Global] = b.st[Global]
              /\ b.pk # Global => state'[Global] = state[Global]
              /\ \A i \in 1 .. Len(b.todo) :
                   state'[Part[b.todo[i]]] = b.st[Part[b.todo[i]]]
         /\ ~Managed => b.todo = <<>>
         /\ ~Managed => \A e \in Matching : e <= cursor' => e \in handled
<1> DEFINE f == run[r]
           b == run[r].batch
<1>f. /\ DOMAIN f = Fields /\ TypeOf(f) /\ PhaseOf(f, Managed) /\ cursor \in Nat
      /\ Ordered(f) /\ state \in [Parts -> Seq(Matching)]
  BY HasFlow
<1>b. /\ BatchType(b) /\ BatchShape(b, Managed)
      /\ f.lease \in {0, b.as} \/ b.as = 0
      /\ InOrder(b)
      /\ ~Fenced(AsOf(f), epoch, holder) =>
           BatchAhead(b, cursor, state, handled, Managed)
      /\ ~Fenced(f.lease, epoch, holder) => Stands(f, cursor)
  BY HasBatch
<1>1. b.as # 0 /\ AsOf(f) = b.as /\ ~Fenced(b.as, epoch, holder)
  BY DEF Current, AsOf, Fenced
<1>2. BatchAhead(b, cursor, state, handled, Managed)
  BY <1>1, <1>b
<1>3. cursor' = b.last /\ cursor' \in Nat /\ cursor < cursor'
  BY <1>2, <1>b, Bounds DEF Landed, BatchAhead, BatchType, Batches
<1>4. ASSUME ~Fenced(f.lease, epoch, holder) PROVE Stands(f, cursor')
  <2>1. Stands(f, cursor)
    BY <1>4, <1>b
  <2>2. \A e \in Matching : e <= cursor => e <= cursor'
    BY <1>3, <1>f, Numbers
  <2>3. f.pc = "reading" => cursor' <= f.streamed
    <3>1. f.pc = "reading" => b.last <= b.mark /\ b.mark <= f.streamed
      BY <1>b, <1>f DEF InOrder, Ordered
    <3>2. b.mark \in Nat /\ b.last \in Nat /\ f.streamed \in Nat
      BY <1>f, RunnerNumbers
    <3> QED BY <1>3, <3>1, <3>2
  <2> QED BY <2>1, <2>2, <2>3 DEF Stands
<1>5. \A i \in 1 .. Len(b.todo) : cursor' < b.todo[i]
  BY <1>3, <1>b DEF InOrder
<1>6. \A e \in Matching : e <= b.mark => e <= cursor' \/ In(b.todo, e)
  <2>1. \A e \in Matching : e <= cursor => e <= cursor'
    BY <1>3, <1>f, Numbers
  <2> QED BY <1>2, <1>3, <2>1 DEF BatchAhead, InBatch
<1>7. ASSUME Managed
      PROVE  /\ state'[Global] = b.st[Global]
             /\ b.pk # Global => state'[Global] = state[Global]
             /\ \A i \in 1 .. Len(b.todo) :
                  state'[Part[b.todo[i]]] = b.st[Part[b.todo[i]]]
  <2>1. state' = [state EXCEPT ![b.pk] = b.st[b.pk]]
    BY <1>7 DEF Landed
  <2>2. /\ b.pk # Global => b.st[Global] = state[Global]
        /\ \A i \in 1 .. Len(b.todo) : b.pk # Part[b.todo[i]] =>
             b.st[Part[b.todo[i]]] = state[Part[b.todo[i]]]
    BY <1>2, <1>7 DEF BatchAhead, Folded
  <2>3. \A p \in Parts : state'[p] = IF p = b.pk THEN b.st[b.pk] ELSE state[p]
    BY <1>f, <2>1
  <2>4. \A i \in 1 .. Len(b.todo) : Part[b.todo[i]] \in Parts
    <3>1. b.todo \in Seq(Matching)
      BY <1>b DEF BatchType, Batches
    <3> QED BY <3>1, Elements, Bounds
  <2> QED BY <2>2, <2>3, <2>4, Bounds
<1>8. ~Managed => b.todo = <<>>
  BY <1>b DEF BatchShape
<1>9. ~Managed => \A e \in Matching : e <= cursor' => e \in handled
  BY <1>2, <1>3 DEF BatchAhead, Processing
<1> QED BY <1>1, <1>3, <1>4, <1>5, <1>6, <1>7, <1>8, <1>9, <1>b

\* A step that saves: no other runner holds the lease.
LEMMA StepLands ==
  ASSUME RunnerInvs, NEW r \in Runners, run[r].batch # NoBatch,
         run[r].batch.at = "commit", Current(run[r].batch.as), Landed(run[r].batch),
         NEW g, Set(r, g), UNCHANGED <<lease, config, handled>>,
         FlowOf(g, cursor', state', handled, Managed,
                ~Fenced(g.lease, epoch, holder), ~Fenced(AsOf(g), epoch, holder))
  PROVE  FlowInv'
<1>1. /\ mode' = mode /\ epoch' = epoch /\ holder' = holder /\ handled' = handled
  BY DEF lease, config
<1>2. /\ cursor' \in Nat /\ cursor < cursor'
      /\ ~Managed => \A e \in Matching : e <= cursor' => e \in handled
  BY LandsIs
<1>3. holder = r
  BY DEF RunnerInvs, ShapeInv, HoldOf, Current
<1>4. ASSUME NEW q \in Runners
      PROVE  FlowOf(run'[q], cursor', state', handled', Managed,
                    ~Fenced(run'[q].lease, epoch', holder'),
                    ~Fenced(AsOf(run'[q]), epoch', holder'))
  <2>1. CASE q = r
    <3>1. run'[q] = g
      BY <2>1 DEF RunnerInvs, LeaseInv, Set
    <3> QED BY <1>1, <3>1
  <2>2. CASE q # r
    <3> DEFINE f == run[q]
    <3>1. run'[q] = f
      BY <2>2 DEF RunnerInvs, LeaseInv, Set
    <3>2. /\ FlowOf(f, cursor, state, handled, Managed,
                    ~Fenced(f.lease, epoch, holder), ~Fenced(AsOf(f), epoch, holder))
          /\ TypeOf(f) /\ cursor \in Nat
      BY HasFlow
    <3>3. r # NoRunner
      BY RunnerAssumption
    <3>4. /\ Fenced(f.lease, epoch, holder)
          /\ f.batch # NoBatch => Fenced(AsOf(f), epoch, holder)
      BY <1>3, <2>2, <3>3 DEF RunnerInvs, ShapeInv, HoldOf, Fenced, AsOf
    <3>5. Ordered(f) /\ Got(f, cursor)
      BY <3>2 DEF FlowOf
    <3>6. f.got \in Nat
      BY <3>2, RunnerNumbers
    <3>7. Got(f, cursor')
      <4>1. f.got <= cursor => f.got <= cursor'
        BY <1>2, <3>2, <3>6
      <4> QED BY <3>5, <4>1 DEF Got
    <3>8. FlowOf(f, cursor', state', handled, Managed,
                 ~Fenced(f.lease, epoch, holder), ~Fenced(AsOf(f), epoch, holder))
      BY <3>4, <3>5, <3>7 DEF FlowOf
    <3> QED BY <1>1, <3>1, <3>8
  <2> QED BY <2>1, <2>2
<1>5. Managed' = Managed
  BY <1>1 DEF Managed
<1>6. NothingSkipped'
  BY <1>1, <1>2, <1>5 DEF NothingSkipped
<1>7. \A q \in Runners : AsOf(run[q])' = AsOf(run'[q])
  BY DEF AsOf
<1> QED BY <1>4, <1>5, <1>6, <1>7 DEF FlowInv

\* A save that landed though its answer was lost.
LEMMA LostSaveFlow ==
  ASSUME RunnerInvs, NEW r \in Runners, BatchFault(r),
         run[r].batch.at = "commit", Current(run[r].batch.as), Landed(run[r].batch)
  PROVE  FlowInv'
<1> DEFINE f == run[r]
           b == run[r].batch
           g == BatchFails(f)
           l == ~Fenced(f.lease, epoch, holder)
<1>1. b # NoBatch /\ UNCHANGED <<lease, config, handled>> /\ Set(r, g)
  BY DEF BatchFault
<1>f. /\ DOMAIN f = Fields /\ TypeOf(f) /\ PhaseOf(f, Managed) /\ Ordered(f)
  BY HasFlow
<1>b. /\ b.by \in {"chain", "end", "poll", "stop"}
  BY <1>1, HasBatch
<1>2. cursor' \in Nat /\ (l => Stands(f, cursor'))
  BY <1>1, LandsIs
<1>3. g.lease = f.lease
  <2> DEFINE k == [f EXCEPT !.batch = NoBatch, !.failed = TRUE]
  <2>1. /\ Same(f, k, {"batch", "failed"}) /\ DOMAIN k = Fields
        /\ b.by = "chain" => Same(f, g, {"batch", "failed", "pending", "mark", "cut"})
        /\ b.by = "end" => g = Caught(k, f.how = "fatal")
        /\ b.by = "poll" => Same(f, g, {"batch", "pc"})
        /\ b.by = "stop" => Same(f, g, {"batch", "work"})
    BY <1>f, BatchFailsFields
  <2>2. Same(k, Caught(k, f.how = "fatal"), {"how", "pc"})
    BY <2>1, CaughtFields
  <2> HIDE DEF k, g
  <2> QED BY <1>b, <2>1, <2>2 DEF Same, Fields
<1> HIDE DEF l
<1>4. \A a : FlowOf(g, cursor', state', handled, Managed, l, a)
  BY <1>1, <1>b, <1>f, <1>2, FailsFlow
<1>5. FlowOf(g, cursor', state', handled, Managed,
             ~Fenced(g.lease, epoch, holder), ~Fenced(AsOf(g), epoch, holder))
  BY <1>3, <1>4 DEF l
<1> QED BY <1>1, <1>5, StepLands

\* The save of a batch succeeds: the cursor moves to the last event of it.
LEMMA SavedFlow ==
  ASSUME RunnerInvs, NEW r \in Runners, Saved(r)
  PROVE  FlowInv'
<1> DEFINE f == run[r]
           b == run[r].batch
           g == IF Managed /\ b.pk = Global THEN [f EXCEPT !.mem = b.st[Global]] ELSE f
           d == [b EXCEPT !.at = "handle", !.pk = Global, !.as = 0]
           k == [g EXCEPT !.batch = d]
           l == ~Fenced(f.lease, epoch, holder)
<1>f. /\ DOMAIN f = Fields /\ TypeOf(f) /\ PhaseOf(f, Managed) /\ cursor \in Nat
      /\ FlowOf(f, cursor, state, handled, Managed, l, ~Fenced(AsOf(f), epoch, holder))
  BY HasFlow
<1>1. /\ b # NoBatch /\ b.at = "commit" /\ Current(b.as) /\ Landed(b)
      /\ UNCHANGED <<lease, config, handled>>
      /\ \/ b.todo = <<>> /\ Set(r, BatchDone(g))
         \/ b.todo # <<>> /\ Set(r, [g EXCEPT !.batch.at = "handle", !.batch.pk = Global,
                                              !.batch.as = 0])
  BY DEF Saved
<1>b. /\ DOMAIN b = BatchFields
      /\ b.by \in {"chain", "end", "poll", "stop"}
      /\ BatchType(b) /\ BatchShape(b, Managed)
      /\ InOrder(b) /\ Before(b, f.pending)
  BY <1>1, HasBatch
<1>2. /\ cursor' = b.last /\ cursor' \in Nat /\ cursor < cursor'
      /\ ~Fenced(b.as, epoch, holder) /\ f.lease \in {0, b.as}
      /\ l => Stands(f, cursor')
      /\ \A i \in 1 .. Len(b.todo) : cursor' < b.todo[i]
      /\ \A e \in Matching : e <= b.mark => e <= cursor' \/ In(b.todo, e)
      /\ Managed =>
           /\ state'[Global] = b.st[Global]
           /\ b.pk # Global => state'[Global] = state[Global]
           /\ \A i \in 1 .. Len(b.todo) :
                state'[Part[b.todo[i]]] = b.st[Part[b.todo[i]]]
      /\ ~Managed => b.todo = <<>>
  BY <1>1, LandsIs
<1>3. /\ Same(f, g, {"mem"}) /\ DOMAIN g = Fields /\ g.batch = b /\ TypeOf(g)
      /\ Managed => g.mem = IF b.pk = Global THEN state'[Global] ELSE f.mem
  <2>1. b.st[Global] \in Seq(Matching)
    BY <1>b, Bounds DEF BatchType, Batches
  <2>2. CASE Managed /\ b.pk = Global
    BY <1>f, <1>2, <2>1, <2>2 DEF TypeOf, Same, Fields
  <2>3. CASE ~(Managed /\ b.pk = Global)
    BY <1>f, <2>3 DEF Same
  <2> QED BY <2>2, <2>3
<1> HIDE DEF g
<1>4. /\ g.pc = f.pc /\ g.work = f.work /\ g.failed = f.failed /\ g.lost = f.lost
      /\ g.reload = f.reload /\ g.pending = f.pending /\ g.mark = f.mark
      /\ g.position = f.position /\ g.streamed = f.streamed /\ g.got = f.got
      /\ g.lease = f.lease /\ g.queued = f.queued /\ g.timer = f.timer
      /\ g.stop = f.stop /\ PhaseOf(g, Managed)
  BY <1>f, <1>3 DEF Same, Fields, PhaseOf
<1>5. \A j : ~j => FlowOf(g, cursor', state', handled, Managed, l, j)
  <2>1. /\ Ordered(f) /\ Got(f, cursor)
        /\ l => Ahead(f, cursor) /\ (Managed => InStep(f, state))
    BY <1>f DEF FlowOf
  <2>2. Ordered(g)
    BY <1>3, <1>4, <2>1 DEF Ordered, Settled
  <2>3. Got(g, cursor')
    <3>1. f.got \in Nat
      BY <1>f, RunnerNumbers
    <3>2. f.got <= cursor => f.got <= cursor'
      BY <1>2, <1>f, <3>1
    <3> QED BY <1>3, <1>4, <2>1, <3>2 DEF Got
  <2>4. ASSUME l PROVE Ahead(g, cursor')
    <3>1. \A i \in 1 .. Len(f.pending) : cursor' < f.pending[i]
      BY <1>2, <1>b DEF Before
    <3>2. \A e \in Matching : Somewhere(f, e, cursor) => Somewhere(g, e, cursor')
      <4>1. \A e \in Matching : e <= cursor => e <= cursor'
        BY <1>2, <1>f, Numbers
      <4> QED BY <1>3, <1>4, <4>1 DEF Somewhere
    <3>3. Stands(f, cursor')
      BY <1>2, <2>4
    <3>4. Ahead(f, cursor)
      BY <2>1, <2>4
    <3> QED BY <1>4, <3>1, <3>2, <3>3, <3>4 DEF Ahead, Stands
  <2>5. l /\ Managed => InStep(g, state')
    BY <1>2, <1>3, <1>4, <2>1 DEF InStep
  <2> QED BY <2>2, <2>3, <2>4, <2>5 DEF FlowOf
<1>6. CASE b.todo = <<>>
  <2>1. l => \A e \in Matching : e <= b.mark => e <= cursor'
    BY <1>2, <1>6 DEF In
  <2>2. FlowOf(g, cursor', state', handled, Managed, l, FALSE)
    BY <1>5
  <2>3. BatchDone(g).lease = g.lease
    <3> DEFINE x == [g EXCEPT !.batch = NoBatch, !.position = Higher(@, g.batch.mark)]
               y == BatchDone(g)
    <3>1. /\ Same(g, x, {"batch", "position"}) /\ DOMAIN x = Fields
          /\ b.by = "chain" => y = x
          /\ b.by = "end" => y = NextIteration(x)
          /\ b.by = "poll" => Same(g, y, {"batch", "position", "pc"})
          /\ b.by = "stop" => Same(g, y, {"batch", "position", "work"})
      BY <1>3, BatchDoneFields
    <3> HIDE DEF x, y
    <3>2. NextIteration(x).lease = x.lease
      <4>1. \/ \E z \in BOOLEAN : NextIteration(x) = Caught(x, z)
            \/ Same(x, NextIteration(x), {"pc"})
            \/ Same(x, NextIteration(x), {"pc", "pending", "mark", "got"})
        BY <3>1, NextIterationFields
      <4>2. \A z : Same(x, Caught(x, z), {"how", "pc"})
        BY <3>1, CaughtFields
      <4> QED BY <4>1, <4>2 DEF Same, Fields
    <3>3. y.lease = g.lease
      BY <1>b, <3>1, <3>2 DEF Same, Fields
    <3> QED BY <3>3 DEF y
  <2> HIDE DEF l
  <2>4. \A j : FlowOf(BatchDone(g), cursor', state', handled, Managed, l, j)
    BY <1>1, <1>2, <1>3, <1>4, <1>6, <1>b, <2>1, <2>2, DoneFlow
  <2>5. FlowOf(BatchDone(g), cursor', state', handled, Managed,
               ~Fenced(BatchDone(g).lease, epoch, holder),
               ~Fenced(AsOf(BatchDone(g)), epoch, holder))
    BY <1>4, <2>3, <2>4 DEF l
  <2> QED BY <1>1, <1>6, <2>5, StepLands
<1>7. CASE b.todo # <<>>
  <2>1. [g EXCEPT !.batch.at = "handle", !.batch.pk = Global, !.batch.as = 0] = k
    BY <1>3 DEF Fields
  <2>2. /\ d.todo = b.todo /\ d.mark = b.mark /\ d.last = b.last /\ d.as = 0
        /\ d.at = "handle" /\ d.st = b.st /\ d.pk = Global
    BY <1>b DEF BatchFields
  <2>3. BatchType(d)
    BY <1>b, Bounds DEF BatchType, Batches, BatchFields
  <2> HIDE DEF d
  <2>4. InOrder(d) /\ Before(d, g.pending) /\ EndOf(d) = EndOf(b)
    BY <1>b, <1>4, <2>2 DEF InOrder, Before, EndOf
  <2>5. \A e \in Matching : InBatch(b, e) => InBatch(d, e)
    BY <2>2 DEF InBatch
  <2>6. BatchAhead(d, cursor', state', handled, Managed)
    <3>1. Managed
      BY <1>2, <1>7
    <3>2. d.last <= cursor'
      BY <1>2, <2>2
    <3>3. Folded(d, cursor', state')
      BY <1>2, <2>2, <3>1, <3>2 DEF Folded
    <3> QED BY <1>2, <2>2, <3>1, <3>3 DEF BatchAhead, InBatch
  <2>7. FlowOf(g, cursor', state', handled, Managed, l, FALSE)
    BY <1>5
  <2> HIDE DEF l
  <2>8. \A j : FlowOf(k, cursor', state', handled, Managed, l, j)
    BY <1>1, <1>3, <2>2, <2>3, <2>4, <2>5, <2>6, <2>7, BatchMovesFlow
  <2>9. k.lease = f.lease
    BY <1>3, <1>4 DEF Fields
  <2> HIDE DEF k
  <2>10. FlowOf(k, cursor', state', handled, Managed,
                ~Fenced(k.lease, epoch, holder), ~Fenced(AsOf(k), epoch, holder))
    BY <2>8, <2>9 DEF l
  <2> QED BY <1>1, <1>7, <2>1, <2>10, StepLands
<1> QED BY <1>6, <1>7

\* Nothing has been delivered yet.
LEMMA FlowStarts == Init => FlowInv
<1> SUFFICES ASSUME Init PROVE FlowInv
  OBVIOUS
<1>1. cursor = 0 /\ \A r \in Runners : run[r] = Fresh
  BY DEF Init
<1>2. NothingSkipped
  BY <1>1, Numbers DEF NothingSkipped
<1>3. \A l, a : FlowOf(Fresh, 0, state, handled, Managed, l, a)
  <2>1. /\ Fresh.pending = <<>> /\ Fresh.mark = 0 /\ Fresh.batch = NoBatch
        /\ Fresh.pc = "register" /\ Fresh.got = 0 /\ Fresh.position = 0
    BY DEF Fresh
  <2>2. Got(Fresh, 0) /\ InStep(Fresh, state)
    BY <2>1 DEF Got, InStep, Folding
  <2> QED BY <2>1, <2>2, EmptyFlow
<1> QED BY <1>1, <1>2, <1>3 DEF FlowInv

\* The steps of the engine and of the world.
LEMMA EngineFlow ==
  ASSUME RunnerInvs, Publish \/ ExpireAbandoned \/ ExpireLate \/ Rest \/ UNCHANGED vars
  PROVE  FlowInv'
<1>1. /\ run' = run /\ cursor' = cursor /\ state' = state /\ handled' = handled
      /\ mode' = mode /\ epoch' = epoch /\ holder' \in {holder, NoRunner}
  BY DEF Publish, ExpireAbandoned, ExpireLate, Rest, vars, log, lease, config
<1>2. ASSUME NEW f
      PROVE  /\ ~Fenced(f.lease, epoch', holder') => ~Fenced(f.lease, epoch, holder)
             /\ ~Fenced(AsOf(f), epoch', holder') => ~Fenced(AsOf(f), epoch, holder)
  BY <1>1 DEF Fenced
<1>3. ASSUME NEW q \in Runners
      PROVE  FlowOf(run'[q], cursor', state', handled', Managed,
                    ~Fenced(run'[q].lease, epoch', holder'),
                    ~Fenced(AsOf(run'[q]), epoch', holder'))
  <2>1. FlowOf(run[q], cursor, state, handled, Managed,
               ~Fenced(run[q].lease, epoch, holder), ~Fenced(AsOf(run[q]), epoch, holder))
    BY HasFlow
  <2>2. FlowOf(run[q], cursor, state, handled, Managed,
               ~Fenced(run[q].lease, epoch', holder'), ~Fenced(AsOf(run[q]), epoch', holder'))
    BY <1>2, <2>1, FlowFenced
  <2> QED BY <1>1, <2>2
<1>4. Managed' = Managed
  BY <1>1 DEF Managed
<1>5. NothingSkipped'
  BY <1>1, <1>4 DEF RunnerInvs, FlowInv, NothingSkipped
<1>6. \A q \in Runners : AsOf(run[q])' = AsOf(run'[q])
  BY DEF AsOf
<1> QED BY <1>3, <1>4, <1>5, <1>6 DEF FlowInv

\* The flow of the events is inductive, given types, leases and shape.
LEMMA FlowInductive == RunnerInvs /\ [Next]_vars => FlowInv'
<1> SUFFICES ASSUME RunnerInvs, [Next]_vars PROVE FlowInv'
  OBVIOUS
<1>1. ASSUME NEW r \in Runners, Main(r) PROVE FlowInv'
  BY <1>1, MovesFlow, GrantFlow, QuietFlow, OpenFlow, ReceiveFlow, HeartbeatFlow,
     FlushesFlow, PollFlow DEF Main
<1>2. ASSUME NEW r \in Runners, Flush(r) PROVE FlowInv'
  BY <1>2, FlushesFlow, LoadFlow, ReduceFlow, HandleFlow, AcknowledgeFlow,
     FailuresFlow, SavedFlow DEF Flush
<1>3. ASSUME NEW r \in Runners, TimerFires(r) \/ Renew(r) \/ StopWork(r)
      PROVE  FlowInv'
  BY <1>3, MovesFlow, FlushesFlow DEF Renew, StopWork
<1>4. ASSUME NEW r \in Runners, BatchFault(r) PROVE FlowInv'
  <2>1. \/ UNCHANGED <<cursor, state>>
        \/ /\ run[r].batch.at = "commit" /\ Current(run[r].batch.as)
           /\ Landed(run[r].batch)
    BY <1>4 DEF BatchFault
  <2> QED BY <1>4, <2>1, FailuresFlow, LostSaveFlow DEF BatchFault
<1>5. ASSUME NEW r \in Runners, Misfortune(r) PROVE FlowInv'
  BY <1>4, <1>5, GrantFlow, MovesFlow, QuietFlow DEF Misfortune
<1> QED BY <1>1, <1>2, <1>3, <1>5, EngineFlow DEF Next

\* All four at once.
LEMMA RunnersInvariant == Spec => []RunnerInvs
<1>1. Init => RunnerInvs
  BY FlowStarts, TypeInductive, LeaseInductive, ShapeInductive DEF RunnerInvs
<1>2. RunnerInvs /\ [Next]_vars => RunnerInvs'
  BY FlowInductive, TypeInductive, LeaseInductive, ShapeInductive DEF RunnerInvs
<1> QED BY <1>1, <1>2, PTL DEF Spec

\* An external projection acknowledges no event that its handler has not
\* processed: whatever runners hand over, fail, stop or crash in between, the
\* cursor of the engine never passes an event unprocessed (flushChain() acks
\* after the handler, and a failed batch is not acked).
THEOREM NoEventIsSkipped == Spec => []NothingSkipped
<1>1. RunnerInvs => NothingSkipped
  BY DEF RunnerInvs, FlowInv
<1> QED BY <1>1, RunnersInvariant, PTL

\* A stop() that resolves, of a runner that still has its lease and whose
\* flushes succeeded, has saved the last event it was given: the final flush
\* waits for the chain before it, and the timer it clears leaves nothing behind.
THEOREM StopsAreSafe == Spec => []StopSaves
<1>1. RunnerInvs => StopSaves
  <2> SUFFICES ASSUME RunnerInvs, NEW r \in Runners, run[r].work = "done",
                      ~run[r].failed, ~run[r].lost
               PROVE  run[r].got <= cursor
    BY DEF StopSaves
  <2>1. Got(run[r], cursor) /\ PhaseOf(run[r], Managed)
    BY HasFlow DEF FlowOf
  <2> QED BY <2>1 DEF PhaseOf, Got
<1> QED BY <1>1, RunnersInvariant, PTL

\* The position a runner resumes its stream from is covered by the cursor: what a
\* runner with an accepted lease has passed over is saved (a flush moves the
\* position when its save has succeeded, or past events that do not match).
THEOREM PositionsAreCovered == Spec => []PositionCovered
<1>1. RunnerInvs => PositionCovered
  <2> SUFFICES ASSUME RunnerInvs, NEW r \in Runners, Current(run[r].lease),
                      NEW e \in Matching, e <= run[r].position
               PROVE  e <= cursor
    BY DEF PositionCovered
  <2>1. ~Fenced(run[r].lease, epoch, holder)
    BY DEF Current, Fenced
  <2> QED BY <2>1, HasFlow DEF FlowOf, Ahead
<1> QED BY <1>1, RunnersInvariant, PTL

\* Every variable keeps its type, the fields of a batch under way included.
THEOREM RunnersAreTyped == Spec => []TypeOK
<1>1. RunnerInvs => TypeOK
  <2> SUFFICES ASSUME RunnerInvs PROVE TypeOK
    OBVIOUS
  <2>1. /\ GlobalTypes /\ epoch \in Nat
    BY DEF RunnerInvs, TypeInv, LeaseInv
  <2>2. ASSUME NEW r \in Runners PROVE RunnerTypes(run[r])
    <3> DEFINE f == run[r]
    <3>1. /\ TypeOf(f) /\ PhaseOf(f, Managed) /\ Ordered(f)
          /\ f.pending \in Seq(Matching)
      BY HasFlow
    <3>2. /\ f.lease \in 0 .. epoch /\ f.fenced \in 0 .. epoch
          /\ f.batch # NoBatch => f.batch.as \in 0 .. epoch
      BY DEF RunnerInvs, LeaseInv, RunnerInv, BatchInv
    <3>3. f.batch # NoBatch => f.batch.as <= epoch
      BY <2>1, <3>2
    <3>4. \A i \in 1 .. Len(f.pending) - 1 : f.pending[i] < f.pending[i + 1]
      <4>1. Len(f.pending) \in Nat
        BY <3>1
      <4> TAKE i \in 1 .. Len(f.pending) - 1
      <4>2. i \in 1 .. Len(f.pending) /\ i + 1 \in 1 .. Len(f.pending) /\ i < i + 1
        BY <4>1
      <4> QED BY <3>1, <4>2 DEF Ordered, Incr
    <3>5. f.pc \in Phases /\ f.work \in {"none", "wait", "flush", "done", "rejected"}
      BY <3>1 DEF PhaseOf, Works
    <3> HIDE DEF f
    <3>6. {f.stop, f.late, f.released, f.polling, f.lost, f.reload, f.failed,
           f.timer, f.queued, f.cut} \subseteq BOOLEAN
      BY <3>1 DEF TypeOf
    <3>7. /\ {f.lease, f.fenced} \subseteq 0 .. epoch
          /\ {f.mark, f.position, f.streamed, f.got} \subseteq 0 .. N
      BY <3>1, <3>2 DEF TypeOf
    <3>8. /\ f.how \in {"clean", "error", "fatal"} /\ f.mem \in Seq(Matching)
          /\ f.batch # NoBatch => f.batch \in Batches
      BY <3>1 DEF TypeOf, BatchType
    <3>9. RunnerTypes(f)
      BY <3>1, <3>3, <3>4, <3>5, <3>6, <3>7, <3>8 DEF RunnerTypes
    <3> QED BY <3>9 DEF f
  <2> QED BY <2>1, <2>2 DEF GlobalTypes, TypeOK
<1> QED BY <1>1, RunnersInvariant, PTL

\* f[n] is the events of S after c, as far as n, that are in partition p.
Gathers(f, S, p, c, to) ==
  f = [n \in c .. to |->
         IF n = c THEN <<>>
         ELSE IF n \in S /\ Part[n] = p THEN Append(f[n - 1], n)
         ELSE f[n - 1]]

\* For any set of events there is such a function.
LEMMA GatherExists ==
  ASSUME NEW c \in Nat, NEW to \in Nat, c <= to, NEW S, NEW p
  PROVE  \E f : Gathers(f, S, p, c, to)
<1> DEFINE X == Seq(Nat)
           step == [y \in (c .. to) \X X |->
                      IF y[1] \in S /\ Part[y[1]] = p THEN Append(y[2], y[1])
                      ELSE y[2]]
<1>1. step \in [(c .. to) \X X -> X]
  <2> SUFFICES ASSUME NEW y \in (c .. to) \X X PROVE step[y] \in X
    OBVIOUS
  <2>1. y[1] \in Nat /\ y[2] \in Seq(Nat)
    OBVIOUS
  <2> QED BY <2>1
<1>2. <<>> \in X
  OBVIOUS
<1>3. \A n \in c .. to, s \in X :
        step[<<n, s>>] = IF n \in S /\ Part[n] = p THEN Append(s, n) ELSE s
  OBVIOUS
<1>4. PICK f : Recursion(f, X, c, to, <<>>, step)
  <2> HIDE DEF step, X
  <2>1. c \in Int /\ to \in Int /\ c <= to
    OBVIOUS
  <2> QED BY <1>1, <1>2, <2>1, RecursionExists
<1> HIDE DEF step
<1>5. ASSUME NEW n \in c .. to
      PROVE  f[n] = IF n = c THEN <<>>
                    ELSE IF n \in S /\ Part[n] = p THEN Append(f[n - 1], n)
                    ELSE f[n - 1]
  <2>1. CASE n = c
    BY <1>4, <2>1 DEF Recursion
  <2>2. CASE n # c
    <3>1. n \in c + 1 .. to /\ n - 1 \in c .. to
      BY <2>2
    <3>2. f[n] = step[<<n, f[n - 1]>>] /\ f[n - 1] \in X
      BY <1>4, <3>1 DEF Recursion
    <3> HIDE DEF X
    <3> QED BY <1>3, <2>2, <3>2
  <2> QED BY <2>1, <2>2
<1>6. f = [n \in c .. to |-> f[n]]
  BY <1>4 DEF Recursion
<1> QED BY <1>5, <1>6 DEF Gathers

\* q is the events of S after c, as far as to, that are in p, in order.
Gathered(q, S, p, c, to) ==
  /\ q \in Seq(Nat) /\ Incr(q)
  /\ \A i \in 1 .. Len(q) : c < q[i] /\ q[i] <= to /\ q[i] \in S /\ Part[q[i]] = p
  /\ \A e \in S : c < e /\ e <= to /\ Part[e] = p => In(q, e)

\* After c as far as c there is none.
LEMMA GatheredNone ==
  ASSUME NEW c \in Nat, NEW S \in SUBSET Nat, NEW p
  PROVE  Gathered(<<>>, S, p, c, c)
<1>1. \A e \in S : ~(c < e /\ e <= c)
  OBVIOUS
<1> QED BY <1>1 DEF Gathered, Incr

\* The last event is not one of them.
LEMMA GatheredNotLast ==
  ASSUME NEW c \in Nat, NEW n \in Nat, c < n, NEW S \in SUBSET Nat, NEW p, NEW q,
         ~(n \in S /\ Part[n] = p)
  PROVE  Gathered(q, S, p, c, n) <=> Gathered(q, S, p, c, n - 1)
<1>1. \A e \in S : Part[e] = p => e # n
  OBVIOUS
<1>2. \A e \in Nat : e # n => (e <= n <=> e <= n - 1)
  OBVIOUS
<1>3. ASSUME q \in Seq(Nat), NEW i \in 1 .. Len(q) PROVE q[i] \in Nat
  BY <1>3
<1> QED BY <1>1, <1>2, <1>3 DEF Gathered

\* The last event is the last of them.
LEMMA GatheredLast ==
  ASSUME NEW c \in Nat, NEW n \in Nat, c < n, NEW S \in SUBSET Nat, NEW p,
         n \in S, Part[n] = p, NEW q \in Seq(Nat)
  PROVE  Gathered(q, S, p, c, n - 1) => Gathered(Append(q, n), S, p, c, n)
<1> SUFFICES ASSUME Gathered(q, S, p, c, n - 1)
             PROVE  Gathered(Append(q, n), S, p, c, n)
  OBVIOUS
<1> DEFINE t == Append(q, n)
<1>1. /\ t \in Seq(Nat) /\ Len(t) = Len(q) + 1 /\ Len(q) \in Nat
      /\ t[Len(t)] = n
      /\ \A i \in 1 .. Len(q) : t[i] = q[i] /\ q[i] \in Nat
      /\ \A i \in 1 .. Len(t) : i \in 1 .. Len(q) \/ (i = Len(q) + 1 /\ t[i] = n)
  OBVIOUS
<1> HIDE DEF t
<1>2. \A i \in 1 .. Len(q) : c < q[i] /\ q[i] < n /\ q[i] \in S /\ Part[q[i]] = p
  BY <1>1 DEF Gathered
<1>3. Incr(t)
  <2> SUFFICES ASSUME NEW i \in 1 .. Len(t), NEW j \in 1 .. Len(t), i < j
               PROVE  t[i] < t[j]
    BY DEF Incr
  <2>1. i \in 1 .. Len(q)
    BY <1>1
  <2>2. CASE j \in 1 .. Len(q)
    BY <1>1, <2>1, <2>2 DEF Gathered, Incr
  <2>3. CASE j \notin 1 .. Len(q)
    BY <1>1, <1>2, <2>1, <2>3
  <2> QED BY <2>2, <2>3
<1>4. \A i \in 1 .. Len(t) : c < t[i] /\ t[i] <= n /\ t[i] \in S /\ Part[t[i]] = p
  BY <1>1, <1>2, SMTT(20)
<1>5. ASSUME NEW e \in S, c < e, e <= n, Part[e] = p PROVE In(t, e)
  <2>1. CASE e = n
    <3>1. Len(t) \in 1 .. Len(t)
      BY <1>1
    <3> QED BY <1>1, <2>1, <3>1 DEF In
  <2>2. CASE e # n
    <3>1. e <= n - 1
      BY <1>5, <2>2
    <3>2. In(q, e)
      BY <1>5, <3>1 DEF Gathered
    <3>3. \A i \in 1 .. Len(q) : i \in 1 .. Len(t)
      BY <1>1
    <3> QED BY <1>1, <3>2, <3>3 DEF In
  <2> QED BY <2>1, <2>2
<1> QED BY <1>1, <1>3, <1>4, <1>5 DEF Gathered, t

\* And what is before it is those before.
LEMMA GatheredFront ==
  ASSUME NEW c \in Nat, NEW n \in Nat, c < n, NEW S \in SUBSET Nat, NEW p,
         n \in S, Part[n] = p, NEW q, Gathered(q, S, p, c, n)
  PROVE  \E s \in Seq(Nat) : q = Append(s, n) /\ Gathered(s, S, p, c, n - 1)
<1> DEFINE s == SubSeq(q, 1, Len(q) - 1)
<1>1. q \in Seq(Nat) /\ In(q, n)
  BY DEF Gathered
<1>2. PICK k \in 1 .. Len(q) : q[k] = n
  BY <1>1 DEF In
<1>3. Len(q) \in Nat /\ Len(q) \in 1 .. Len(q) /\ k \in Nat /\ q # <<>>
  BY <1>1, <1>2
<1>4. \A i \in 1 .. Len(q) : q[i] \in Nat
  BY <1>1
<1>5. k = Len(q)
  <2> SUFFICES ASSUME k < Len(q) PROVE FALSE
    BY <1>2, <1>3
  <2>1. q[k] < q[Len(q)] /\ q[Len(q)] <= n
    BY <1>2, <1>3 DEF Gathered, Incr
  <2> QED BY <1>2, <1>3, <1>4, <2>1
<1>6. /\ s \in Seq(Nat) /\ Len(s) = Len(q) - 1
      /\ \A i \in 1 .. Len(s) : s[i] = q[i] /\ i \in 1 .. Len(q) /\ i < Len(q)
  <2>1. Len(q) - 1 \in 0 .. Len(q) /\ Len(q) - 1 \in Nat
    BY <1>3
  <2>2. s = [i \in 1 .. Len(q) - 1 |-> q[i]]
    BY <1>1, <2>1
  <2> HIDE DEF s
  <2>3. \A i \in 1 .. Len(q) - 1 : i \in 1 .. Len(q) /\ i < Len(q) /\ q[i] \in Nat
    BY <1>3, <1>4
  <2>4. s \in [1 .. Len(q) - 1 -> Nat]
    BY <2>2, <2>3
  <2>5. s \in Seq(Nat) /\ Len(s) = Len(q) - 1
    BY <2>1, <2>4
  <2> QED BY <2>2, <2>3, <2>5
<1>7. q = Append(s, n)
  <2>1. /\ Append(s, n) \in Seq(Nat) /\ Len(Append(s, n)) = Len(q)
        /\ \A i \in 1 .. Len(q) : Append(s, n)[i] = q[i]
    BY <1>1, <1>2, <1>3, <1>5, <1>6
  <2> HIDE DEF s
  <2> QED BY <1>1, <2>1, SeqEqual
<1> HIDE DEF s
<1>8. Incr(s)
  BY <1>6 DEF Gathered, Incr
<1>9. ASSUME NEW i \in 1 .. Len(s) PROVE s[i] \in Nat /\ s[i] < n
  <2>1. s[i] = q[i] /\ i \in 1 .. Len(q) /\ i < Len(q)
    BY <1>6
  <2>2. q[i] < q[Len(q)]
    BY <1>3, <2>1 DEF Gathered, Incr
  <2> QED BY <1>2, <1>4, <1>5, <2>1, <2>2
<1>10. ASSUME NEW i \in 1 .. Len(s)
       PROVE  c < s[i] /\ s[i] <= n - 1 /\ s[i] \in S /\ Part[s[i]] = p
  <2>1. s[i] = q[i] /\ i \in 1 .. Len(q)
    BY <1>6
  <2>2. c < q[i] /\ q[i] \in S /\ Part[q[i]] = p
    BY <2>1 DEF Gathered
  <2>3. s[i] \in Nat /\ s[i] < n
    BY <1>9
  <2> QED BY <2>1, <2>2, <2>3
<1>11. ASSUME NEW e \in S, c < e, e <= n - 1, Part[e] = p PROVE In(s, e)
  <2>1. In(q, e) /\ e # n
    BY <1>11 DEF Gathered
  <2>2. PICK i \in 1 .. Len(q) : q[i] = e
    BY <2>1 DEF In
  <2>3. i \in 1 .. Len(s)
    BY <1>2, <1>3, <1>5, <1>6, <2>1, <2>2
  <2> QED BY <1>6, <2>2, <2>3 DEF In
<1>12. Gathered(s, S, p, c, n - 1)
  BY <1>6, <1>8, <1>10, <1>11 DEF Gathered
<1> QED BY <1>6, <1>7, <1>12

\* What is gathered is so, and nothing else is.
LEMMA GathersIs ==
  ASSUME NEW c \in Nat, NEW to \in Nat, c <= to, NEW S \in SUBSET Nat, NEW p,
         NEW f, Gathers(f, S, p, c, to)
  PROVE  /\ Gathered(f[to], S, p, c, to)
         /\ \A q : Gathered(q, S, p, c, to) => q = f[to]
<1> DEFINE Right(n) == /\ Gathered(f[n], S, p, c, n)
                       /\ \A q : Gathered(q, S, p, c, n) => q = f[n]
           W == {n \in c .. to : ~Right(n)}
<1>1. /\ f[c] = <<>>
      /\ \A n \in c .. to : n # c =>
           f[n] = IF n \in S /\ Part[n] = p THEN Append(f[n - 1], n) ELSE f[n - 1]
  <2>1. \A n \in c .. to :
          f[n] = IF n = c THEN <<>>
                 ELSE IF n \in S /\ Part[n] = p THEN Append(f[n - 1], n)
                 ELSE f[n - 1]
    BY DEF Gathers
  <2>2. c \in c .. to
    OBVIOUS
  <2> QED BY <2>1, <2>2
<1>2. W = {}
  <2> SUFFICES ASSUME W # {} PROVE FALSE
    OBVIOUS
  <2>1. W \in SUBSET Nat
    OBVIOUS
  <2>2. PICK n \in W : \A m \in W : n <= m
    BY <2>1, LeastOf
  <2>3. CASE n = c
    <3>1. ASSUME NEW q, Gathered(q, S, p, c, c) PROVE q = <<>>
      <4>1. q \in Seq(Nat) /\ \A i \in 1 .. Len(q) : c < q[i] /\ q[i] <= c
        BY <3>1 DEF Gathered
      <4>2. \A i \in 1 .. Len(q) : q[i] \in Nat
        BY <4>1
      <4>3. ~(1 \in 1 .. Len(q))
        BY <4>1, <4>2
      <4> QED BY <4>1, <4>3, EmptySeq
    <3>2. Right(c)
      BY <1>1, <3>1, GatheredNone
    <3> HIDE DEF Right
    <3> QED BY <2>2, <2>3, <3>2
  <2>4. CASE n # c
    <3>1. n - 1 \in c .. to /\ n - 1 \notin W /\ n \in Nat /\ c < n /\ n \in c .. to
      BY <2>2, <2>4
    <3>2. Right(n - 1)
      BY <3>1
    <3>3. Gathered(f[n - 1], S, p, c, n - 1) /\ f[n - 1] \in Seq(Nat)
      BY <3>2 DEF Gathered
    <3>4. CASE n \in S /\ Part[n] = p
      <4>1. f[n] = Append(f[n - 1], n)
        BY <1>1, <2>4, <3>1, <3>4
      <4>2. Gathered(f[n], S, p, c, n)
        BY <3>1, <3>3, <3>4, <4>1, GatheredLast
      <4>3. ASSUME NEW q, Gathered(q, S, p, c, n) PROVE q = f[n]
        <5>1. PICK s \in Seq(Nat) : q = Append(s, n) /\ Gathered(s, S, p, c, n - 1)
          BY <3>1, <3>4, <4>3, GatheredFront
        <5>2. s = f[n - 1]
          BY <3>2, <5>1
        <5> QED BY <4>1, <5>1, <5>2
      <4> QED BY <2>2, <4>2, <4>3
    <3>5. CASE ~(n \in S /\ Part[n] = p)
      <4>1. f[n] = f[n - 1]
        BY <1>1, <2>4, <3>1, <3>5
      <4>2. \A q : Gathered(q, S, p, c, n) <=> Gathered(q, S, p, c, n - 1)
        BY <3>1, <3>5, GatheredNotLast
      <4>3. Right(n)
        BY <3>2, <4>1, <4>2
      <4> HIDE DEF Right
      <4> QED BY <2>2, <4>3
    <3> QED BY <3>4, <3>5
  <2> QED BY <2>3, <2>4
<1>3. to \in c .. to
  OBVIOUS
<1>4. Right(to)
  <2> HIDE DEF Right
  <2> QED BY <1>2, <1>3
<1> QED BY <1>4

\* What is gathered up to c and after it, together.
LEMMA GatheredJoin ==
  ASSUME NEW c \in Nat, NEW to \in Nat, c <= to, NEW S \in SUBSET Nat, NEW p,
         NEW s, Gathered(s, S, p, 0, c), NEW q, Gathered(q, S, p, c, to)
  PROVE  Gathered(s \o q, S, p, 0, to)
<1> DEFINE t == s \o q
<1>1. s \in Seq(Nat) /\ q \in Seq(Nat)
  BY DEF Gathered
<1>2. /\ t \in Seq(Nat) /\ Len(t) = Len(s) + Len(q)
      /\ Len(s) \in Nat /\ Len(q) \in Nat
      /\ \A i \in 1 .. Len(s) : t[i] = s[i] /\ i \in 1 .. Len(t)
      /\ \A i \in 1 .. Len(q) : t[Len(s) + i] = q[i] /\ Len(s) + i \in 1 .. Len(t)
      /\ \A i \in 1 .. Len(t) : \/ i \in 1 .. Len(s)
                                \/ i - Len(s) \in 1 .. Len(q) /\ t[i] = q[i - Len(s)]
  BY <1>1
<1> HIDE DEF t
<1>3. \A i \in 1 .. Len(s) : s[i] \in Nat /\ s[i] <= c
  BY <1>1 DEF Gathered
<1>4. \A i \in 1 .. Len(q) : q[i] \in Nat /\ c < q[i]
  BY <1>1 DEF Gathered
<1>5. Incr(t)
  <2> SUFFICES ASSUME NEW i \in 1 .. Len(t), NEW j \in 1 .. Len(t), i < j
               PROVE  t[i] < t[j]
    BY DEF Incr
  <2>1. CASE j \in 1 .. Len(s)
    <3>1. i \in 1 .. Len(s)
      BY <1>2, <2>1
    <3> QED BY <1>2, <2>1, <3>1 DEF Gathered, Incr
  <2>2. CASE i \notin 1 .. Len(s)
    <3>1. i - Len(s) \in 1 .. Len(q) /\ t[i] = q[i - Len(s)]
      BY <1>2, <2>2
    <3>2. j \notin 1 .. Len(s)
      BY <1>2, <2>2
    <3>3. j - Len(s) \in 1 .. Len(q) /\ t[j] = q[j - Len(s)]
      BY <1>2, <3>2
    <3>4. i - Len(s) < j - Len(s)
      BY <1>2
    <3> QED BY <3>1, <3>3, <3>4 DEF Gathered, Incr
  <2>3. CASE i \in 1 .. Len(s) /\ j \notin 1 .. Len(s)
    <3>1. t[i] = s[i] /\ j - Len(s) \in 1 .. Len(q) /\ t[j] = q[j - Len(s)]
      BY <1>2, <2>3
    <3> QED BY <1>3, <1>4, <2>3, <3>1
  <2> QED BY <2>1, <2>2, <2>3
<1>6. ASSUME NEW i \in 1 .. Len(t)
      PROVE  0 < t[i] /\ t[i] <= to /\ t[i] \in S /\ Part[t[i]] = p
  <2>1. CASE i \in 1 .. Len(s)
    <3>1. t[i] = s[i] /\ 0 < s[i] /\ s[i] \in S /\ Part[s[i]] = p
      BY <1>2, <2>1 DEF Gathered
    <3>2. s[i] \in Nat /\ s[i] <= c
      BY <1>3, <2>1
    <3> QED BY <3>1, <3>2
  <2>2. CASE i \notin 1 .. Len(s)
    <3>1. i - Len(s) \in 1 .. Len(q) /\ t[i] = q[i - Len(s)]
      BY <1>2, <2>2
    <3> QED BY <1>4, <3>1 DEF Gathered
  <2> QED BY <2>1, <2>2
<1>7. ASSUME NEW e \in S, 0 < e, e <= to, Part[e] = p PROVE In(t, e)
  <2>1. CASE e <= c
    <3>1. In(s, e)
      BY <1>7, <2>1 DEF Gathered
    <3> QED BY <1>2, <3>1 DEF In
  <2>2. CASE c < e
    <3>1. In(q, e)
      BY <1>7, <2>2 DEF Gathered
    <3> QED BY <1>2, <3>1 DEF In
  <2> QED BY <2>1, <2>2
<1> QED BY <1>2, <1>5, <1>6, <1>7 DEF Gathered, t

\* The events of S up to c in partition p are what UpTo says.
LEMMA UpToIs ==
  ASSUME NEW c \in Nat, NEW S \in SUBSET Nat, NEW p
  PROVE  /\ Gathered(UpTo(S, p, c), S, p, 0, c)
         /\ \A q : Gathered(q, S, p, 0, c) => q = UpTo(S, p, c)
<1> DEFINE f == CHOOSE f : Gathers(f, S, p, 0, c)
<1>1. 0 \in Nat /\ 0 <= c
  OBVIOUS
<1>2. \E g : Gathers(g, S, p, 0, c)
  BY <1>1, GatherExists
<1>3. Gathers(f, S, p, 0, c)
  BY <1>2
<1>4. UpTo(S, p, c) = f[c]
  BY DEF UpTo, Gathers
<1> HIDE DEF f
<1> QED BY <1>1, <1>3, <1>4, GathersIs

\* And those after c what Between says.
LEMMA BetweenIs ==
  ASSUME NEW c \in Nat, NEW to \in Nat, c <= to, NEW p
  PROVE  /\ Gathered(Fold!Between(p, c, to), Matching, p, c, to)
         /\ \A q : Gathered(q, Matching, p, c, to) => q = Fold!Between(p, c, to)
<1> DEFINE f == CHOOSE f : Gathers(f, Matching, p, c, to)
<1>1. Matching \in SUBSET Nat
  BY Numbers
<1>2. \E g : Gathers(g, Matching, p, c, to)
  BY GatherExists
<1>3. Gathers(f, Matching, p, c, to)
  BY <1>2
<1>4. Fold!Between(p, c, to) = f[to]
  BY DEF Fold!Between, Gathers
<1> HIDE DEF f
<1> QED BY <1>1, <1>3, <1>4, GathersIs

\* What is folded up to a point, from what was folded before.
LEMMA UpToFurther ==
  ASSUME NEW c \in Nat, NEW to \in Nat, c <= to, NEW p
  PROVE  UpTo(Matching, p, to) = UpTo(Matching, p, c) \o Fold!Between(p, c, to)
<1>1. Matching \in SUBSET Nat
  BY Numbers
<1>2. /\ Gathered(UpTo(Matching, p, c), Matching, p, 0, c)
      /\ Gathered(Fold!Between(p, c, to), Matching, p, c, to)
  BY <1>1, UpToIs, BetweenIs
<1>3. Gathered(UpTo(Matching, p, c) \o Fold!Between(p, c, to), Matching, p, 0, to)
  BY <1>1, <1>2, GatheredJoin
<1> QED BY <1>1, <1>3, UpToIs

\* A save that lands folds the events up to the new cursor into their partitions.
LEMMA LandsFolds ==
  ASSUME RunnerInvs, NEW r \in Runners, run[r].batch # NoBatch,
         run[r].batch.at = "commit", Current(run[r].batch.as), Landed(run[r].batch)
  PROVE  /\ cursor' \in 1 .. N /\ cursor < cursor'
         /\ Managed => \A p \in Parts :
              state'[p] = state[p] \o Fold!Between(p, cursor, cursor')
<1> DEFINE b == run[r].batch
<1>1. /\ cursor' = b.last /\ cursor' \in Nat /\ cursor < cursor' /\ cursor \in Nat
      /\ b.last \in 0 .. N /\ state \in [Parts -> Seq(Matching)] /\ N \in Nat
  BY LandsIs, HasFlow, HasBatch, Bounds DEF BatchType, Batches
<1>2. cursor' \in 1 .. N
  BY <1>1
<1>3. ASSUME Managed, NEW p \in Parts
      PROVE  state'[p] = state[p] \o Fold!Between(p, cursor, cursor')
  <2>1. ~Fenced(AsOf(run[r]), epoch, holder)
    BY DEF AsOf, Current, Fenced
  <2>2. Folded(b, cursor, state)
    BY <1>3, <2>1, HasBatch DEF BatchAhead
  <2>3. PICK q \in Seq(Matching) : RunOf(b, q, cursor, state)
    BY <2>2 DEF Folded
  <2>4. state' = [state EXCEPT ![b.pk] = b.st[b.pk]]
    BY <1>3 DEF Landed
  <2>5. \A t : Gathered(t, Matching, p, cursor, b.last) =>
                 t = Fold!Between(p, cursor, b.last)
    BY <1>1, BetweenIs
  <2>6. CASE p = b.pk
    <3>1. q \in Seq(Nat) /\ \A i \in 1 .. Len(q) : q[i] \in Matching /\ q[i] \in Nat
      <4>1. \A i \in 1 .. Len(q) : q[i] \in Matching /\ q[i] \in Nat
        BY Elements
      <4>2. Matching \subseteq Nat
        BY Numbers
      <4> QED BY <4>1, <4>2
    <3>2. ASSUME NEW i \in 1 .. Len(q) PROVE q[i] <= b.last
      <4>1. Len(q) \in 1 .. Len(q) /\ q[Len(q)] = b.last
        BY <2>3, <3>2, Elements DEF RunOf
      <4>2. i < Len(q) => q[i] < q[Len(q)]
        BY <2>3, <4>1 DEF RunOf, Incr
      <4> QED BY <1>1, <3>1, <4>1, <4>2
    <3>3. Gathered(q, Matching, p, cursor, b.last)
      BY <2>3, <2>6, <3>1, <3>2 DEF RunOf, Gathered
    <3>4. q = Fold!Between(p, cursor, b.last)
      BY <2>5, <3>3
    <3>5. state'[p] = state[p] \o q
      BY <1>1, <2>3, <2>4, <2>6 DEF RunOf
    <3> QED BY <1>1, <3>4, <3>5
  <2>7. CASE p # b.pk
    <3>1. \A e \in Matching : cursor < e /\ e <= b.last => Part[e] = b.pk
      BY <2>3 DEF RunOf, In
    <3>2. Gathered(<<>>, Matching, p, cursor, b.last)
      BY <2>7, <3>1 DEF Gathered, Incr
    <3>3. <<>> = Fold!Between(p, cursor, b.last)
      BY <2>5, <3>2
    <3>4. state'[p] = state[p] /\ state[p] \in Seq(Matching)
      BY <1>1, <2>4, <2>7
    <3>5. state[p] \o <<>> = state[p]
      BY <3>4
    <3> QED BY <1>1, <3>3, <3>4, <3>5
  <2> QED BY <2>6, <2>7
<1> QED BY <1>1, <1>2, <1>3

\* Nothing else moves the cursor or changes the saved states.
LEMMA OnlySavesFold ==
  ASSUME RunnerInvs, [Next]_vars
  PROVE  /\ mode' = mode
         /\ \/ UNCHANGED <<cursor, state>>
            \/ \E r \in Runners :
                 /\ run[r].batch # NoBatch /\ run[r].batch.at = "commit"
                 /\ Current(run[r].batch.as) /\ Landed(run[r].batch)
<1> DEFINE Lands == \E r \in Runners :
                      /\ run[r].batch # NoBatch /\ run[r].batch.at = "commit"
                      /\ Current(run[r].batch.as) /\ Landed(run[r].batch)
           Keeps == mode' = mode /\ UNCHANGED <<cursor, state>>
<1>1. ASSUME NEW r \in Runners, Main(r) PROVE Keeps
  BY <1>1 DEF Main, Register, Acquire, StandbyStops, LoadState, LeaveLoop,
     ReloadState, OpenStream, RequestFenced, FallBack, Receive, Heartbeat,
     StreamCut, StreamFenced, FinalFlush, CoolDown, Poll, DropGrant, RunEnds,
     Release, log, config
<1>2. ASSUME NEW r \in Runners, Flush(r) \/ TimerFires(r)
      PROVE  Keeps \/ (mode' = mode /\ Lands)
  <2>1. CASE Saved(r)
    BY <2>1 DEF Saved, config
  <2>2. CASE ~Saved(r)
    BY <1>2, <2>2 DEF Flush, TimerFires, ChainFlush, LoadPartitions, Reduce,
       Handle, Acknowledge, BatchStops, SaveRefused, log, config
  <2> QED BY <2>1, <2>2
<1>3. ASSUME NEW r \in Runners, Renew(r) \/ StopWork(r) PROVE Keeps
  BY <1>3 DEF Renew, StopWork, RenewRefused, RenewHeard, FinishWork, StopReleases,
     Release, log, config
<1>4. ASSUME NEW r \in Runners, Misfortune(r)
      PROVE  Keeps \/ (mode' = mode /\ Lands)
  <2>1. CASE BatchFault(r)
    BY <2>1 DEF BatchFault, config
  <2>2. CASE ~BatchFault(r)
    BY <1>4, <2>2 DEF Misfortune, AcquireUnheard, OpenFails, StreamEnds, Stop,
       StopTimesOut, Fatal, Crash, log, config
  <2> QED BY <2>1, <2>2
<1>5. CASE Publish \/ ExpireAbandoned \/ ExpireLate \/ Rest \/ UNCHANGED vars
  BY <1>5 DEF Publish, ExpireAbandoned, ExpireLate, Rest, vars, log, config
<1> DEFINE Goal == Keeps \/ (mode' = mode /\ Lands)
<1>6. Goal
  <2>1. ASSUME NEW r \in Runners,
               Main(r) \/ Flush(r) \/ TimerFires(r) \/ Renew(r)
               \/ StopWork(r) \/ Misfortune(r)
        PROVE  Goal
    <3> HIDE DEF Keeps, Lands
    <3> QED BY <2>1, <1>1, <1>2, <1>3, <1>4
  <2>2. CASE Publish \/ ExpireAbandoned \/ ExpireLate \/ Rest \/ UNCHANGED vars
    BY <1>5, <2>2
  <2> HIDE DEF Goal
  <2> QED BY <2>1, <2>2 DEF Next
<1> QED BY <1>6

\* The saved states are the fold of the log, from the start and after each step.
LEMMA FoldedInductive ==
  /\ Init => EventsFoldedOnce
  /\ RunnerInvs /\ EventsFoldedOnce /\ [Next]_vars => EventsFoldedOnce'
<1>1. ASSUME Init PROVE EventsFoldedOnce
  <2>1. cursor = 0 /\ \A p \in Parts : state[p] = <<>>
    BY <1>1 DEF Init
  <2>2. \A p : Gathered(<<>>, Matching, p, 0, 0)
    BY Numbers, GatheredNone
  <2>3. \A p : <<>> = UpTo(Matching, p, 0)
    BY <2>2, Numbers, UpToIs
  <2> QED BY <2>1, <2>3 DEF EventsFoldedOnce
<1>2. ASSUME RunnerInvs, EventsFoldedOnce, [Next]_vars PROVE EventsFoldedOnce'
  <2>1. Managed' = Managed
    BY <1>2, OnlySavesFold DEF Managed
  <2>2. CASE UNCHANGED <<cursor, state>>
    BY <1>2, <2>1, <2>2 DEF EventsFoldedOnce
  <2>3. CASE ~UNCHANGED <<cursor, state>>
    <3>1. PICK r \in Runners :
            /\ run[r].batch # NoBatch /\ run[r].batch.at = "commit"
            /\ Current(run[r].batch.as) /\ Landed(run[r].batch)
      BY <1>2, <2>3, OnlySavesFold
    <3>2. /\ cursor' \in 1 .. N /\ cursor < cursor'
          /\ Managed => \A p \in Parts :
               state'[p] = state[p] \o Fold!Between(p, cursor, cursor')
      BY <1>2, <3>1, LandsFolds
    <3>3. cursor \in Nat /\ cursor' \in Nat /\ cursor <= cursor'
      <4>1. cursor \in Nat
        BY <1>2, <3>1, HasFlow
      <4> QED BY <3>2, <4>1
    <3>4. ASSUME Managed, NEW p \in Parts
          PROVE  state'[p] = UpTo(Matching, p, cursor')
      BY <1>2, <3>2, <3>3, <3>4, UpToFurther DEF EventsFoldedOnce
    <3> QED BY <2>1, <3>4 DEF EventsFoldedOnce
  <2> QED BY <2>2, <2>3
<1> QED BY <1>1, <1>2

\* Of a managed projection the saved state of every partition is, at any time,
\* the events of the log up to the cursor, each folded once and in the order of
\* the log: whatever saves are lost, retried or refused, and whoever takes over
\* (the states of a batch are the engine's when it is loaded, and only the holder
\* of the lease saves).
THEOREM EventsAreFoldedOnce == Spec => []EventsFoldedOnce
BY RunnersInvariant, FoldedInductive, PTL DEF Spec

\* What counts as folded, of either kind of projection (see Fold).
View == IF Managed THEN state ELSE [p \in Parts |-> UpTo(handled, p, cursor)]

\* It is the fold of the log, of either kind.
LEMMA ViewIs ==
  RunnerInvs /\ EventsFoldedOnce
    => View = [p \in Parts |-> UpTo(Matching, p, cursor)]
<1> SUFFICES ASSUME RunnerInvs, EventsFoldedOnce
             PROVE  View = [p \in Parts |-> UpTo(Matching, p, cursor)]
  OBVIOUS
<1>1. /\ state \in [Parts -> Seq(Matching)] /\ cursor \in Nat
      /\ handled \subseteq Matching /\ Matching \subseteq Nat
  BY Numbers, Bounds DEF RunnerInvs, TypeInv, GlobalTypes
<1>2. CASE Managed
  BY <1>1, <1>2 DEF EventsFoldedOnce, View
<1>3. CASE ~Managed
  <2>1. \A e \in Matching : e <= cursor => e \in handled
    BY <1>3 DEF RunnerInvs, FlowInv, NothingSkipped
  <2>2. ASSUME NEW p \in Parts PROVE UpTo(handled, p, cursor) = UpTo(Matching, p, cursor)
    <3>1. Gathered(UpTo(handled, p, cursor), handled, p, 0, cursor)
      BY <1>1, UpToIs
    <3>2. Gathered(UpTo(handled, p, cursor), Matching, p, 0, cursor)
      BY <1>1, <2>1, <3>1 DEF Gathered
    <3> QED BY <1>1, <3>2, UpToIs
  <2> QED BY <1>3, <2>2 DEF View
<1> QED BY <1>2, <1>3

\* A step of the runners is a step of the projection, or none.
LEMMA StepMaps ==
  ASSUME RunnerInvs, RunnerInvs', EventsFoldedOnce, EventsFoldedOnce', [Next]_vars
  PROVE  [Fold!Next]_(Fold!vars)
<1>1. View = [p \in Parts |-> UpTo(Matching, p, cursor)]
  BY ViewIs
<1>2. View' = [p \in Parts |-> UpTo(Matching, p, cursor')]
  <2>1. (RunnerInvs /\ EventsFoldedOnce
           => View = [p \in Parts |-> UpTo(Matching, p, cursor)])'
    BY ViewIs, PTL
  <2> QED BY <2>1
<1>3. CASE cursor' = cursor
  <2>1. View' = View
    BY <1>1, <1>2, <1>3
  <2> QED BY <1>3, <2>1 DEF Fold!vars, View
<1>4. CASE cursor' # cursor
  <2>1. PICK r \in Runners :
          /\ run[r].batch # NoBatch /\ run[r].batch.at = "commit"
          /\ Current(run[r].batch.as) /\ Landed(run[r].batch)
    BY <1>4, OnlySavesFold
  <2>2. cursor' \in 1 .. N /\ cursor < cursor'
    BY <2>1, LandsFolds
  <2>3. cursor \in Nat /\ cursor' \in Nat /\ cursor <= cursor'
    <3>1. cursor \in Nat
      BY <2>1, HasFlow
    <3> QED BY <2>2, <3>1
  <2>4. View' = [p \in Parts |-> View[p] \o Fold!Between(p, cursor, cursor')]
    <3>1. \A p \in Parts : View[p] = UpTo(Matching, p, cursor)
      BY <1>1
    <3>2. \A p \in Parts : UpTo(Matching, p, cursor')
                             = UpTo(Matching, p, cursor) \o Fold!Between(p, cursor, cursor')
      BY <2>3, UpToFurther
    <3> QED BY <1>2, <3>1, <3>2
  <2>5. Fold!Fold(cursor')
    BY <2>2, <2>4 DEF Fold!Fold, View
  <2> QED BY <2>2, <2>5 DEF Fold!Next
<1> QED BY <1>3, <1>4

\* The runners implement a projection: every step folds the next events into it,
\* all of them once and in order, or leaves it as it is; and so does an external
\* handler, of whom an event is folded when it is handled.
THEOREM ImplementsProjection == Spec => FoldSpec
<1>1. Init => Fold!Init
  <2> SUFFICES ASSUME Init PROVE Fold!Init
    OBVIOUS
  <2>1. cursor = 0 /\ handled = {} /\ state = [p \in Parts |-> <<>>]
    BY DEF Init
  <2>2. \A p : UpTo({}, p, 0) = <<>>
    <3>1. \A p : Gathered(<<>>, {}, p, 0, 0)
      BY GatheredNone
    <3> QED BY <3>1, UpToIs
  <2> QED BY <2>1, <2>2 DEF Fold!Init
<1>2. RunnerInvs /\ RunnerInvs' /\ EventsFoldedOnce /\ EventsFoldedOnce' /\ [Next]_vars
        => [Fold!Next]_(Fold!vars)
  BY StepMaps
<1> QED BY <1>1, <1>2, RunnersInvariant, EventsAreFoldedOnce, PTL
        DEF Spec, FoldSpec, Fold!Spec

=============================================================================
