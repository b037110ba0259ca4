----------------------------- MODULE JobWorker -----------------------------
(***************************************************************************)
(* The pull worker of @ironflow/node (worker.ts): it registers, polls the  *)
(* engine for assignments, runs the function of each, checkpoints the      *)
(* steps it records and reports how it ended.                              *)
(*                                                                         *)
(* One coroutine (main) connects and polls; drain() and stop() may be      *)
(* called at any time; each assignment runs in a coroutine of its own (job)*)
(* next to its checkpointer, a debounce timer and a chain of sends.  They  *)
(* interleave at every await, and an action is what one of them does       *)
(* between two awaits.  A request is answered in an action of its own, in  *)
(* which the engine handles it; an answer may be lost on either way.       *)
(*                                                                         *)
(* The engine is external: a run is assigned as an execution <<job, seq>>  *)
(* under a lease.  When the lease expires, or the execution ends with the  *)
(* run unfinished, the run is queued again as the next execution, whose    *)
(* steps are numbered after every row it has, and which skips the steps    *)
(* that completed.  It refuses a request of a superseded execution.        *)
(*                                                                         *)
(* Abstracted: a function is the steps 1 .. Steps in order, a sleep it may *)
(* take between them and one compensation; backoffs, deadlines and the     *)
(* debounce are moments that come; heartbeats are sent while `heart' is on.*)
(* Assignments without a lease (older engines) and projections are left    *)
(* out.                                                                    *)
(***************************************************************************)
EXTENDS Integers, Sequences, FiniteSets

CONSTANTS
  Jobs,           \* runs the engine has for this worker
  MaxSeq,         \* bound: executions of a run
  Steps,          \* steps of the function
  MaxConcurrent,  \* maxConcurrentJobs
  Batch           \* MAX_CHECKPOINT_STEPS

ASSUME WorkerAssumption ==
  /\ IsFiniteSet(Jobs)
  /\ MaxSeq \in Nat \ {0} /\ Steps \in Nat
  /\ MaxConcurrent \in Nat \ {0} /\ Batch \in Nat \ {0}

Exec  == Jobs \X (1 .. MaxSeq)
Sleep == 0                          \* the step a yield leaves behind
Undo  == Steps + 1                  \* the compensation
Ids   == 0 .. Steps + 1
\* A recorded step: one that is "bad" has completed, but JSON cannot encode it.
Step  == [id : Ids, kind : {"done", "failed", "bad"}]

VARIABLES
  state,   \* WorkerState
  main,    \* where start() is
  drain,   \* drainPromise: none, waiting, late (past its deadline), over
  heart,   \* heartbeatTimer is set
  avail,   \* the free slots the poll in flight advertised
  batch,   \* the assignments in the response being read
  active,  \* keys of activeJobs
  job,     \* the coroutine and checkpointer of each execution
  run,     \* engine: the current execution of each run, and its lease
  rows,    \* engine: the steps persisted of each run, by sequence
  starts   \* history: how often the function was entered

worker == <<state, main, drain, heart, avail, batch>>
engine == <<run, rows>>
vars   == <<worker, active, job, engine, starts>>

Idle == [pc |-> "none", aborted |-> FALSE, memo |-> {}, base |-> 0,
         steps |-> <<>>, cursor |-> 0, sending |-> 0, queued |-> 0,
         timer |-> FALSE, off |-> FALSE, outcome |-> "none", heard |-> {}]

Over == [Idle EXCEPT !.pc = "over"]

-----------------------------------------------------------------------------
(* The engine, as far as the worker sees it. *)

NextSlot(j) == 1 + CHOOSE n \in -1 .. Cardinality(rows[j]) + MaxSeq * (Steps + 2) :
                     /\ \A r \in rows[j] : r.slot <= n
                     /\ n = -1 \/ \E r \in rows[j] : r.slot = n

Completed(j) == {r.id : r \in {q \in rows[j] : q.kind = "done"}}

Stamped(e) == TRUE          \* every update of a leased execution carries its fence

Accepts(e) == /\ run[e[1]].phase \in {"assigned", "acked"}
              /\ Stamped(e) => run[e[1]].seq = e[2]

\* The run is queued again for its next execution.
Requeued(j) == IF run[j].seq < MaxSeq
               THEN [seq |-> run[j].seq + 1, phase |-> "queued"]
               ELSE [run[j] EXCEPT !.phase = "ended"]

Persist(e, offset, steps) ==
  rows' = [rows EXCEPT ![e[1]] = @ \cup
             {[slot |-> offset + i - 1, id |-> steps[i].id, kind |-> steps[i].kind] :
                i \in DOMAIN steps}]

LeaseExpires(j) ==
  /\ run[j].phase \in {"assigned", "acked"} /\ run[j].seq < MaxSeq
  /\ run' = [run EXCEPT ![j] = Requeued(j)]
  /\ UNCHANGED <<worker, active, job, rows, starts>>

-----------------------------------------------------------------------------
(* stop() and drain(). *)

\* Mutant of Aborted: the checkpointer is not cancelled.
AbortedAlone(j) == [j EXCEPT !.aborted = TRUE]

\* The job's controller aborts; the checkpointer is cancelled with it.
Aborted(j) == [j EXCEPT !.aborted = TRUE, !.off = TRUE, !.timer = FALSE]

StopWorker ==
  /\ state' = "stopped" /\ heart' = FALSE /\ active' = {}
  /\ job' = [e \in Exec |-> IF e \in active THEN Aborted(job[e]) ELSE job[e]]

Stop == /\ state # "stopped"
        /\ StopWorker
        /\ UNCHANGED <<main, drain, avail, batch, engine, starts>>

\* Without a job in hand drain() stops at once.
Drain == /\ state \notin {"stopped", "idle"} /\ drain = "none"
         /\ IF active = {}
            THEN drain' = "over" /\ StopWorker
            ELSE /\ drain' = "waiting" /\ state' = "draining"
                 /\ UNCHANGED <<heart, active, job>>
         /\ UNCHANGED <<main, avail, batch, engine, starts>>

DrainDeadline == /\ drain = "waiting"
                 /\ drain' = "late"
                 /\ UNCHANGED <<state, main, heart, avail, batch, active, job,
                                engine, starts>>

DrainStops == /\ drain = "late" \/ (drain = "waiting" /\ active = {})
              /\ drain' = "over"
              /\ StopWorker
              /\ UNCHANGED <<main, avail, batch, engine, starts>>

-----------------------------------------------------------------------------
(* start(): connect, register, poll. *)

Goto(l) == /\ main' = l
           /\ UNCHANGED <<state, drain, heart, avail, batch, active, job, engine,
                          starts>>

Start == /\ state = "idle" /\ main = "idle"
         /\ state' = "connecting" /\ main' = "loop"
         /\ UNCHANGED <<drain, heart, avail, batch, active, job, engine, starts>>

\* connect() until its first await: the old heartbeat ends here.
Connect == /\ main = "loop" /\ state \notin {"draining", "stopped"}
           /\ state' = "connecting" /\ heart' = FALSE
           /\ main' = "functions"
           /\ UNCHANGED <<drain, avail, batch, active, job, engine, starts>>

LeaveLoop == main = "loop" /\ state \in {"draining", "stopped"} /\ Goto("leaving")

StartReturns == main = "leaving" /\ drain \in {"none", "over"} /\ Goto("done")

FunctionsRegistered ==
  /\ main = "functions" /\ state # "stopped"
  /\ Goto(IF state = "connecting" THEN "worker" ELSE "loop")

WorkerRegistered ==
  /\ main = "worker" /\ state # "stopped"
  /\ IF state = "connecting"
     THEN state' = "connected" /\ heart' = TRUE /\ main' = "poll"
     ELSE main' = "loop" /\ UNCHANGED <<state, heart>>
  /\ UNCHANGED <<drain, avail, batch, active, job, engine, starts>>

\* An engine that is down; reconnectDelay passes before the next attempt.
ConnectFails == main \in {"functions", "worker"} /\ state # "stopped" /\ Goto("retry")

\* stop() aborted the request.
ConnectAborted == main \in {"functions", "worker"} /\ state = "stopped" /\ Goto("leaving")

Retry == main = "retry" /\ Goto("loop")

\* Credentials or a registration no retry can fix: stop() and throw.
Refused ==
  /\ \/ main \in {"functions", "worker"} /\ state # "stopped"
     \/ main = "polling" /\ state = "connected"
  /\ main' = "threw" /\ avail' = 0
  /\ StopWorker
  /\ UNCHANGED <<drain, batch, engine, starts>>

Poll == /\ main = "poll" /\ state = "connected"
        /\ Cardinality(active) < MaxConcurrent
        /\ avail' = MaxConcurrent - Cardinality(active)
        /\ main' = "polling"
        /\ UNCHANGED <<state, drain, heart, batch, active, job, engine, starts>>

PollEnds == main = "poll" /\ state # "connected" /\ Goto("loop")

PollOver(l) == /\ main' = l /\ avail' = 0
               /\ UNCHANGED <<state, drain, heart, batch, active, job, engine, starts>>

\* No job, or an answer that is no answer: the loop looks at its state again.
PollFails == main = "polling" /\ state = "connected" /\ PollOver("poll")

\* drain() and stop() cut a held poll.
PollAborted == main = "polling" /\ state # "connected" /\ PollOver("poll")

\* Mutant of NotFound: a draining worker registers again too.
NotFoundAlways == /\ main = "polling"
                  /\ state' = "connecting"
                  /\ main' = "loop" /\ avail' = 0
                  /\ UNCHANGED <<drain, heart, batch, active, job, engine, starts>>

\* 404: the engine restarted and does not know the worker.
NotFound == /\ main = "polling"
            /\ state' = IF state = "connected" THEN "connecting" ELSE state
            /\ main' = "loop" /\ avail' = 0
            /\ UNCHANGED <<drain, heart, batch, active, job, engine, starts>>

\* Engine: up to `available' runs, an assignment no one acknowledged again too.
Assign(es) ==
  /\ main = "polling" /\ es # {} /\ Cardinality(es) <= avail
  /\ \A e \in es : run[e[1]].phase \in {"queued", "assigned"} /\ run[e[1]].seq = e[2]
  /\ run' = [j \in Jobs |-> IF \E e \in es : e[1] = j
                            THEN [run[j] EXCEPT !.phase = "assigned"] ELSE run[j]]
  /\ batch' = es
  /\ main' = "reading" /\ avail' = 0
  /\ UNCHANGED <<state, drain, heart, active, job, rows, starts>>

AssignUnheard(es) ==
  /\ main = "polling" /\ es # {} /\ Cardinality(es) <= avail
  /\ \A e \in es : run[e[1]].phase = "queued" /\ run[e[1]].seq = e[2]
  /\ run' = [j \in Jobs |-> IF \E e \in es : e[1] = j
                            THEN [run[j] EXCEPT !.phase = "assigned"] ELSE run[j]]
  /\ main' = "poll" /\ avail' = 0
  /\ UNCHANGED <<state, drain, heart, batch, active, job, rows, starts>>

\* Mutant of Fresh: counts on from the completed steps only.
FreshCounted(e) == [Idle EXCEPT !.pc = "accepted", !.memo = Completed(e[1]),
                                !.base = Cardinality(Completed(e[1]))]

Fresh(e) == [Idle EXCEPT !.pc = "accepted", !.memo = Completed(e[1]), !.base = NextSlot(e[1])]

\* Mutant of Taken: the loop over a response does not look at the state.
TakenAlways(valid) == valid \ active

\* processJob: an execution that is active already is not started again, and
\* none is once the worker drains.
Taken(valid) == IF state = "connected" THEN valid \ active ELSE {}

\* An assignment that fails its schema, or a response cut off, is dropped.
ProcessJobs(valid) ==
  /\ main = "reading" /\ valid \subseteq batch
  /\ active' = active \cup Taken(valid)
  /\ job' = [e \in Exec |-> IF e \in Taken(valid) THEN Fresh(e) ELSE job[e]]
  /\ batch' = {} /\ main' = "poll"
  /\ UNCHANGED <<state, drain, heart, avail, engine, starts>>

-----------------------------------------------------------------------------
(* The checkpointer of one execution. *)

\* The longest prefix of a list of steps that JSON can encode.
Encodable(steps) ==
  LET bad == {i \in DOMAIN steps : steps[i].kind = "bad"}
  IN  IF bad = {} THEN steps
      ELSE SubSeq(steps, 1, CHOOSE i \in 0 .. Len(steps) :
                              /\ i + 1 \in bad /\ \A k \in bad : i < k)

\* The steps that JSON can encode, in order.
DropUnencodable(steps) ==
  LET good == {i \in DOMAIN steps : steps[i].kind # "bad"}
      At(k) == CHOOSE i \in good : Cardinality(good \cap (1 .. i)) = k
  IN  [k \in 1 .. Cardinality(good) |-> steps[At(k)]]

Unsent(j) == SubSeq(j.steps, j.cursor + 1, Len(j.steps))

\* Mutant of Pending: an unbounded checkpoint.
PendingAll(j) == Encodable(Unsent(j))

Pending(j) ==
  LET n == IF j.cursor + Batch < Len(j.steps) THEN j.cursor + Batch ELSE Len(j.steps)
  IN  Encodable(SubSeq(j.steps, j.cursor + 1, n))

\* What a request in flight carries.
Carried(j) ==
  IF j.pc # "reporting" THEN SubSeq(j.steps, j.cursor + 1, j.cursor + j.sending)
  ELSE IF j.outcome \in {"failed", "fatal"} THEN DropUnencodable(Unsent(j))
  ELSE Unsent(j)

Offset(j) == j.base + j.cursor

Slots(j) == Offset(j) .. Offset(j) + Len(Carried(j)) - 1

Ran(j) == {j.steps[i] : i \in DOMAIN j.steps}

Send(j) == IF j.off THEN j ELSE [j EXCEPT !.sending = Len(Pending(j))]

\* flush(): a send at the end of the chain.
Flush(j) == IF j.sending > 0 THEN [j EXCEPT !.queued = @ + 1] ELSE Send(j)

\* The send at the head of the chain is over: the next one with something to send.
ChainNext(j) ==
  LET k == Send([j EXCEPT !.sending = 0])
  IN  IF j.queued > 0 /\ k.sending > 0 THEN [k EXCEPT !.queued = @ - 1]
      ELSE [j EXCEPT !.sending = 0, !.queued = 0]

\* schedule(), which every recorded step calls.
Recorded(j, s) == [j EXCEPT !.steps = Append(@, s), !.timer = @ \/ ~j.off]

\* finish(), once the chain is through, and the check that follows it.
Settled(j) == IF j.pc = "finishing" /\ j.sending = 0
              THEN [j EXCEPT !.off = TRUE,
                             !.pc = IF j.aborted THEN "over" ELSE "reporting"]
              ELSE j

Finish(j, outcome) == Settled([j EXCEPT !.pc = "finishing", !.outcome = outcome,
                                        !.timer = FALSE])

\* An execution that is over leaves activeJobs.
Becomes(e, j) ==
  /\ job' = [job EXCEPT ![e] = IF j.pc = "over" /\ j.sending = 0 THEN Over ELSE j]
  /\ active' = IF j.pc = "over" THEN active \ {e} ELSE active

Local(e, j) == Becomes(e, j) /\ UNCHANGED <<worker, engine, starts>>

\* In finish() a flush waits behind it, and finds the checkpointer stopped.
TimerFires(e) ==
  LET j == [job[e] EXCEPT !.timer = FALSE]
  IN  /\ job[e].timer
      /\ Local(e, IF j.pc = "finishing" THEN j ELSE Flush(j))

\* Mutant of CheckpointStored: the cursor stays behind.
CheckpointStoredUncounted(e) ==
  LET j == job[e]
  IN  /\ j.sending > 0 /\ Accepts(e)
      /\ Persist(e, Offset(j), Carried(j))
      /\ Becomes(e, Settled(ChainNext([j EXCEPT !.heard = @ \cup Slots(j)])))
      /\ UNCHANGED <<worker, run, starts>>

CheckpointStored(e) ==
  LET j == job[e]
  IN  /\ j.sending > 0 /\ Accepts(e)
      /\ Persist(e, Offset(j), Carried(j))
      /\ Becomes(e, Settled(ChainNext([j EXCEPT !.cursor = @ + j.sending,
                                                !.heard = @ \cup Slots(j)])))
      /\ UNCHANGED <<worker, run, starts>>

\* Stored, but the answer was lost: the steps stay in the tail.
CheckpointUnheard(e) ==
  LET j == job[e]
  IN  /\ j.sending > 0 /\ Accepts(e)
      /\ Persist(e, Offset(j), Carried(j))
      /\ Becomes(e, Settled(ChainNext(j)))
      /\ UNCHANGED <<worker, run, starts>>

\* Mutant of CheckpointFails: the steps of a failed checkpoint count as flushed.
CheckpointFailsCounted(e, off) ==
  LET j == job[e]
  IN  /\ j.sending > 0
      /\ Local(e, Settled(ChainNext([j EXCEPT !.off = @ \/ off, !.cursor = @ + j.sending])))

\* A 5xx or a request that never arrived, or a 4xx, which ends checkpointing.
CheckpointFails(e, off) ==
  /\ job[e].sending > 0
  /\ Local(e, Settled(ChainNext([job[e] EXCEPT !.off = @ \/ off])))

\* Mutant of CheckpointStale: a superseded job frees its slot while its handler runs.
CheckpointStaleForgotten(e) ==
  /\ job[e].sending > 0 /\ ~Accepts(e)
  /\ job' = [job EXCEPT ![e] = Settled(ChainNext(Aborted(job[e])))]
  /\ active' = active \ {e}
  /\ UNCHANGED <<worker, engine, starts>>

CheckpointStale(e) ==
  /\ job[e].sending > 0 /\ ~Accepts(e)
  /\ Local(e, Settled(ChainNext(Aborted(job[e]))))

-----------------------------------------------------------------------------
(* executeTracedJob. *)

\* No such function: reported before any acknowledgement.
NoFunction(e) ==
  /\ job[e].pc = "accepted"
  /\ Local(e, [job[e] EXCEPT !.pc = "reporting", !.outcome = "unstarted"])

Ack(e) == job[e].pc = "accepted" /\ Local(e, [job[e] EXCEPT !.pc = "acking"])

\* The engine acknowledges an assignment once.
Acked(e) == /\ job[e].pc = "acking" /\ Accepts(e) /\ run[e[1]].phase = "assigned"
            /\ run' = [run EXCEPT ![e[1]].phase = "acked"]
            /\ UNCHANGED <<worker, rows>>

\* The handler is entered, unless the job was aborted by then.
Enter(e) ==
  /\ Acked(e)
  /\ Becomes(e, [job[e] EXCEPT !.pc = IF job[e].aborted THEN "over" ELSE "running"])
  /\ starts' = [starts EXCEPT ![e] = IF job[e].aborted THEN @ ELSE @ + 1]

\* The event cannot be upcast: reported whether the job was aborted or not.
UpcastFails(e) ==
  /\ Acked(e)
  /\ Becomes(e, [job[e] EXCEPT !.pc = "reporting", !.outcome = "unstarted"])
  /\ UNCHANGED starts

AckUnheard(e) ==
  /\ Acked(e)
  /\ Becomes(e, [job[e] EXCEPT !.pc = "over"])
  /\ UNCHANGED starts

\* Mutant of AckFails: runs the job whatever became of the acknowledgement.
AckFailsRuns(e) ==
  /\ job[e].pc = "acking"
  /\ Becomes(e, [job[e] EXCEPT !.pc = "running"])
  /\ starts' = [starts EXCEPT ![e] = @ + 1]
  /\ UNCHANGED <<worker, engine>>

\* The acknowledgement failed, or the execution is superseded: dropped.
AckFails(e) == job[e].pc = "acking" /\ Local(e, [job[e] EXCEPT !.pc = "over"])

Todo(j) == (1 .. Steps) \ (j.memo \cup {s.id : s \in Ran(j)})

NextStep(j) == CHOOSE i \in Todo(j) : \A k \in Todo(j) : i <= k

\* A step the handler takes, or that a branch it left running ends after it.
RunStep(e, kind) ==
  LET j == job[e]
  IN  /\ Todo(j) # {} /\ ~j.aborted
      /\ \/ j.pc = "running"
         \/ j.pc = "finishing" /\ j.outcome # "completed" /\ kind = "done"
      /\ Local(e, Recorded(j, [id |-> NextStep(j), kind |-> kind]))

\* What follows the end of the handler; a failure for good is compensated first.
Ends(j, outcome) ==
  LET o == IF outcome \in {"completed", "yielded"} /\ \E s \in Ran(j) : s.kind = "bad"
           THEN "fatal" ELSE outcome
  IN  {Finish(j, o)} \cup
      (IF o = "fatal" /\ ~j.aborted
       THEN {[j EXCEPT !.pc = "compensating", !.outcome = o]} ELSE {})

StepFails(e, outcome) ==
  LET j == job[e]
  IN  /\ j.pc = "running" /\ Todo(j) # {} /\ ~j.aborted
      /\ outcome \in {"failed", "fatal"}
      /\ \E k \in Ends(Recorded(j, [id |-> NextStep(j), kind |-> "failed"]), outcome) :
           Local(e, k)

HandlerEnds(e, outcome) ==
  LET j == job[e]
  IN  /\ j.pc = "running"
      /\ outcome = "completed" => Todo(j) = {}
      /\ outcome = "yielded" => Sleep \notin j.memo
      /\ \E k \in Ends(j, outcome) : Local(e, k)

\* An aborted job throws on its next step identifier, past finish().
Compensate(e, kind) ==
  LET j == job[e]
  IN  /\ j.pc = "compensating"
      /\ Local(e, IF j.aborted THEN [j EXCEPT !.pc = "over"]
                  ELSE IF Undo \in j.memo THEN Finish(j, "fatal")
                  ELSE Finish(Recorded(j, [id |-> Undo, kind |-> kind]), "fatal"))

\* The terminal update arrives.  A sleep takes the sequence after the tail.
Reported(e) ==
  LET j == job[e]
      sleep == IF j.outcome = "yielded" THEN <<[id |-> Sleep, kind |-> "done"]>> ELSE <<>>
  IN  /\ j.pc = "reporting" /\ Accepts(e)
      /\ Persist(e, Offset(j), Carried(j) \o sleep)
      /\ run' = [run EXCEPT ![e[1]] =
                   CASE j.outcome = "completed" -> [@ EXCEPT !.phase = "completed"]
                     [] j.outcome \in {"fatal", "unstarted"} -> [@ EXCEPT !.phase = "ended"]
                     [] OTHER -> Requeued(e[1])]
      /\ Becomes(e, [j EXCEPT !.pc = "over"])
      /\ UNCHANGED <<worker, starts>>

\* It fails, is refused or finds the execution superseded: logged, no more.
ReportFails(e) == job[e].pc = "reporting" /\ Local(e, [job[e] EXCEPT !.pc = "over"])

-----------------------------------------------------------------------------
Init ==
  /\ state = "idle" /\ main = "idle" /\ drain = "none" /\ heart = FALSE
  /\ avail = 0 /\ batch = {} /\ active = {}
  /\ job = [e \in Exec |-> Idle]
  /\ run = [j \in Jobs |-> [seq |-> 1, phase |-> "queued"]]
  /\ rows = [j \in Jobs |-> {}]
  /\ starts = [e \in Exec |-> 0]

Lifecycle ==
  \/ Start \/ Connect \/ LeaveLoop \/ StartReturns
  \/ FunctionsRegistered \/ WorkerRegistered
  \/ ConnectFails \/ ConnectAborted \/ Retry \/ Refused
  \/ Poll \/ PollEnds \/ PollFails \/ PollAborted \/ NotFound
  \/ \E es \in SUBSET Exec : Assign(es) \/ AssignUnheard(es) \/ ProcessJobs(es)
  \/ Stop \/ Drain \/ DrainDeadline \/ DrainStops

Checkpointer(e) ==
  \/ TimerFires(e)
  \/ CheckpointStored(e) \/ CheckpointUnheard(e) \/ CheckpointStale(e)
  \/ \E off \in BOOLEAN : CheckpointFails(e, off)

Execute(e) ==
  \/ NoFunction(e) \/ Ack(e) \/ Enter(e) \/ UpcastFails(e) \/ AckUnheard(e) \/ AckFails(e)
  \/ \E kind \in {"done", "bad"} : RunStep(e, kind)
  \/ \E o \in {"failed", "fatal"} : StepFails(e, o)
  \/ \E o \in {"completed", "yielded", "failed", "fatal"} : HandlerEnds(e, o)
  \/ \E kind \in {"done", "failed"} : Compensate(e, kind)
  \/ Reported(e) \/ ReportFails(e)

Next ==
  \/ Lifecycle
  \/ \E e \in Exec : Checkpointer(e) \/ Execute(e)
  \/ \E j \in Jobs : LeaseExpires(j)

Spec == Init /\ [][Next]_vars

\* Timers fire, and a request rejects once drain() or stop() has aborted it.
\* No answer need come, and no handler need ever end.
Fair(k) ==
  CASE k = 1 -> Connect        [] k = 2 -> LeaveLoop
    [] k = 3 -> StartReturns   [] k = 4 -> ConnectAborted
    [] k = 5 -> Retry          [] k = 6 -> PollEnds
    [] k = 7 -> PollAborted    [] k = 8 -> \E es \in SUBSET Exec : ProcessJobs(es)
    [] k = 9 -> DrainDeadline  [] k = 10 -> DrainStops

Fairness == \A k \in 1 .. 10 : WF_vars(Fair(k))

FairSpec == Spec /\ Fairness

-----------------------------------------------------------------------------
Pcs == {"none", "accepted", "acking", "running", "compensating", "finishing",
        "reporting", "over"}
Outcomes == {"none", "unstarted", "completed", "yielded", "failed", "fatal"}
Phases == {"queued", "assigned", "acked", "completed", "ended"}

\* The variables of the worker (worker.ts) and of the engine have their types.
TypeOK ==
  /\ state \in {"idle", "connecting", "connected", "draining", "stopped"}
  /\ main \in {"idle", "loop", "functions", "worker", "retry", "poll", "polling",
               "reading", "leaving", "done", "threw"}
  /\ drain \in {"none", "waiting", "late", "over"}
  /\ heart \in BOOLEAN /\ avail \in 0 .. MaxConcurrent
  /\ batch \subseteq Exec /\ active \subseteq Exec
  /\ job \in [Exec -> [pc : Pcs, aborted : BOOLEAN, memo : SUBSET Ids, base : Nat,
                       steps : Seq(Step), cursor : Nat, sending : 0 .. Batch,
                       queued : Nat, timer : BOOLEAN, off : BOOLEAN,
                       outcome : Outcomes, heard : SUBSET Nat]]
  /\ run \in [Jobs -> [seq : 1 .. MaxSeq, phase : Phases]]
  /\ \A j \in Jobs : \A r \in rows[j] :
       r.slot \in Nat /\ [id |-> r.id, kind |-> r.kind] \in Step
  /\ starts \in [Exec -> Nat]

\* The persisted steps of a run are numbered 0, 1, .. without gap, no two share
\* a sequence and none completes at two, whatever was lost or superseded: an
\* execution counts on from every row there is (startCheckpointer, finish).
StepsNumberedOnce ==
  \A j \in Jobs :
    /\ {r.slot : r \in rows[j]} = 0 .. Cardinality(rows[j]) - 1
    /\ \A r, q \in rows[j] : r.id = q.id /\ r.kind = "done" /\ q.kind = "done" => r = q

\* A run the engine has as completed has every step of the function: what
\* checkpoints stored and the terminal tail leave none out (finish).
CompletedIsWhole ==
  \A j \in Jobs : run[j].phase = "completed" => 1 .. Steps \subseteq Completed(j)

\* No request carries a step the engine has already confirmed to this worker:
\* reporting one again would double its audit record and step event.
NoDoubleReport ==
  \A e \in Exec : job[e].sending > 0 \/ job[e].pc = "reporting" =>
                     job[e].heard \cap Slots(job[e]) = {}

\* Jobs in hand never exceed maxConcurrentJobs, though a superseded one still
\* runs while its successor is assigned (activeJobs, pollForJobs).
CapacityKept ==
  Cardinality({e \in Exec : job[e].pc \notin {"none", "over"}}) <= MaxConcurrent

\* The handler of an execution is entered at most once, though the engine may
\* deliver an assignment again and acknowledgements get lost (processJob, ackJob).
StartedOnce == \A e \in Exec : starts[e] <= 1

\* A stopped worker has no heartbeat and no job that was not aborted: none it
\* accepts, acknowledges or registers afterwards escapes stop().
NothingOutlivesStop ==
  state = "stopped" =>
    /\ ~heart
    /\ \A e \in Exec : job[e].aborted \/ job[e].pc \in {"none", "over"}

\* What the handler of an aborted job did, superseded or stopped, is never sent:
\* no checkpoint and no report starts after the abort (abandonIfStale, stop).
AbortedIsSilent ==
  [][\A e \in Exec : job[e].aborted =>
       /\ job'[e].sending > 0 =>
            job'[e].sending = job[e].sending /\ job'[e].cursor = job[e].cursor
       /\ job'[e].pc = "reporting" =>
            job[e].pc = "reporting" \/ job'[e].outcome = "unstarted"]_vars

\* A worker that drains takes no assignment, and keeps the heartbeat it has
\* until it stops: the engine would hand its runs to another (pollForJobs).
DrainHoldsOn ==
  [][drain # "none" =>
       /\ active' \subseteq active
       /\ heart /\ state' # "stopped" => heart']_vars

\* drain() ends and start() with it, though handlers and requests hang.
DrainEnds == []<>(drain # "none" => drain = "over" /\ main \in {"idle", "done", "threw"})

\* The heartbeat runs while a draining worker has jobs (startHeartbeat).
HeartbeatWhileDraining ==
  drain = "waiting" /\ (\E e \in active : ~job[e].aborted) => heart

=============================================================================
