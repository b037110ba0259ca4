-------------------------- MODULE StreamingWorker --------------------------
(***************************************************************************)
(* The streaming worker of @ironflow/node (worker-streaming.ts): one       *)
(* bidirectional stream to the engine on which assignments, cancels and    *)
(* reports travel, opened again whenever it ends.                          *)
(*                                                                         *)
(* One coroutine (main) registers the functions, opens the stream and      *)
(* reads it; drain() and stop() may be called at any time; each assignment *)
(* runs in a coroutine of its own (job).  What the worker sends is queued  *)
(* (outq) until the engine has read it, and is gone with the stream.       *)
(*                                                                         *)
(* The engine is external: it assigns a run as an execution <<job, seq>>,  *)
(* takes back what was assigned on a stream that ended, and assigns it     *)
(* again as the next execution.                                            *)
(*                                                                         *)
(* Abstracted: a function is its steps in order and up to Undos            *)
(* compensations; delays and deadlines are moments that come; registration *)
(* frames and heartbeats carry nothing the properties tell apart.          *)
(* Projections, and a worker that runs nothing else, are left out.         *)
(***************************************************************************)
EXTENDS Integers, Sequences, FiniteSets

CONSTANTS
  Jobs,           \* runs the engine has for this worker
  Unfenced,       \* those an older engine assigns without execution_seq
  MaxSeq,         \* bound: executions of each run
  MaxStreams,     \* bound: streams the worker opens
  Steps,          \* steps of the function of each run
  Undos,          \* compensations it may register
  MaxConcurrent,  \* maxConcurrentJobs
  MaxFaults       \* bound: streams that break, failed registrations and calls to stop()

StreamingAssumption ==
  /\ IsFiniteSet(Jobs) /\ Unfenced \subseteq Jobs
  /\ MaxSeq \in [Jobs -> Nat \ {0}] /\ MaxStreams \in Nat
  /\ Steps \in [Jobs -> Nat] /\ Undos \in Nat
  /\ MaxConcurrent \in Nat \ {0} /\ MaxFaults \in Nat

Exec == UNION {{j} \X (1 .. MaxSeq[j]) : j \in Jobs}

\* What handleJobAssignment files an execution under.
Key(e) == IF e[1] \in Unfenced THEN <<e[1], 0>> ELSE e

\* "failed" is retryable, "fatal" ends the run.
Reports == {"completed", "failed", "fatal", "yielded"}

VARIABLES
  state,   \* WorkerState
  main,    \* where start() is
  drain,   \* drainPromise: none, waiting, closing, over, or cut by its deadline
  stream,  \* how many streams were opened
  link,    \* the stream in hand: none, open, ending (endOutgoing), half-closed
  outq,    \* what was sent on it and the engine has not read
  active,  \* activeJobs
  job,     \* the coroutine of each execution
  run,     \* engine: the current execution of each run
  done,    \* engine: the steps it has of each run
  lost,    \* history: a report did not reach the engine
  faults   \* bound: faults so far

worker == <<state, main, drain>>
wire   == <<stream, link, outq>>
engine == <<run, done>>
vars   == <<worker, wire, active, job, engine, lost, faults>>

Idle == [pc |-> "none", why |-> "none", on |-> 0, memo |-> {}, ran |-> {},
         bad |-> FALSE, undo |-> 0]

Live(e) == job[e].pc \notin {"none", "over"}

Over == [Idle EXCEPT !.pc = "over"]

\* A message of an execution, the stream it was assigned on, and whether its
\* signal is aborted by now; or of one of its steps.
Message(m, e) == [m |-> m, e |-> e, step |-> 0, on |-> job[e].on, why |-> job[e].why]

StepMessage(e, kind, i) == [Message(kind, e) EXCEPT !.step = i]

\* The answer to an assignment.
Answer(m, e) == [m |-> m, e |-> e, step |-> 0, on |-> stream, why |-> "none"]

-----------------------------------------------------------------------------
(* Sending.  Without a stream a message is dropped, and so is one the       *)
(* generator no longer reads.                                               *)

Reporting(msgs) == \E i \in DOMAIN msgs : msgs[i].m \in Reports

Send(msgs) ==
  /\ outq' = IF link \in {"open", "ending"} THEN outq \o msgs ELSE outq
  /\ lost' = (lost \/ (link \notin {"open", "ending"} /\ Reporting(msgs)))

Silent == UNCHANGED <<outq, lost>>

\* endOutgoing, if there is a stream.
EndOutgoing == link' = IF link = "open" THEN "ending" ELSE link

\* The queue is read to its end: the stream is half-closed.
GeneratorReturns ==
  /\ link = "ending"
  /\ link' = "half"
  /\ UNCHANGED <<worker, stream, outq, active, job, engine, lost, faults>>

-----------------------------------------------------------------------------
(* stop() and drain(). *)

\* AbortController.abort: only the first reason counts.
Abort(j, why) == IF j.why = "none" THEN [j EXCEPT !.why = why] ELSE j

AbortActive(why) ==
  /\ job' = [e \in Exec |-> IF e \in active THEN Abort(job[e], why) ELSE job[e]]
  /\ active' = {}

StopWorker == state' = "stopped" /\ AbortActive("stop")

Stop == /\ state # "stopped" /\ faults < MaxFaults
        /\ StopWorker
        /\ faults' = faults + 1
        /\ UNCHANGED <<main, drain, wire, engine, lost>>

\* drain(), a signal or the engine's shutdown message.
Drain == /\ state \notin {"stopped", "idle"} /\ drain = "none"
         /\ state' = "draining"
         /\ IF active = {} THEN drain' = "closing" /\ EndOutgoing
            ELSE drain' = "waiting" /\ UNCHANGED link
         /\ UNCHANGED <<main, stream, outq, active, job, engine, lost, faults>>

\* Mutant of JobsDone: stops without closing the stream.
JobsDoneStops ==
  /\ drain = "waiting" /\ state = "draining" /\ active = {}
  /\ drain' = "over" /\ StopWorker
  /\ lost' = (lost \/ Reporting(outq))
  /\ UNCHANGED <<main, wire, engine, faults>>

JobsDone == /\ drain = "waiting" /\ state = "draining" /\ active = {}
            /\ drain' = "closing" /\ EndOutgoing
            /\ UNCHANGED <<state, main, stream, outq, active, job, engine, lost, faults>>

\* Mutant of DrainDeadline: it bounds only the close of the stream.
DrainDeadlineClosing ==
  /\ drain = "closing" /\ state = "draining"
  /\ drain' = "cut" /\ StopWorker
  /\ UNCHANGED <<main, wire, engine, lost, faults>>

DrainDeadline == /\ drain \in {"waiting", "closing"} /\ state = "draining"
                 /\ drain' = "cut" /\ StopWorker
                 /\ UNCHANGED <<main, wire, engine, lost, faults>>

\* start() or stop() stopped the worker.
DrainReturns == /\ drain \in {"waiting", "closing"} /\ state = "stopped"
                /\ drain' = "over"
                /\ UNCHANGED <<state, main, wire, active, job, engine, lost, faults>>

-----------------------------------------------------------------------------
(* start(). *)

Start == /\ state = "idle" /\ main = "idle"
         /\ state' = "connecting" /\ main' = "loop"
         /\ UNCHANGED <<drain, wire, active, job, engine, lost, faults>>

\* connect() until its first await.
Connect == /\ main = "loop" /\ state \notin {"draining", "stopped"}
           /\ stream < MaxStreams
           /\ state' = "connecting" /\ main' = "registering"
           /\ UNCHANGED <<drain, wire, active, job, engine, lost, faults>>

\* A draining worker without a stream stops.
LeaveLoop == /\ main = "loop" /\ state \in {"draining", "stopped"}
             /\ main' = "done" /\ StopWorker
             /\ UNCHANGED <<drain, wire, engine, lost, faults>>

\* Mutant of Registered: opens the stream whatever happened meanwhile.
RegisteredAlways ==
  /\ main = "registering"
  /\ main' = "reading" /\ state' = "connected"
  /\ stream' = stream + 1 /\ link' = "open" /\ outq' = <<>>
  /\ UNCHANGED <<drain, active, job, engine, lost, faults>>

Registered ==
  /\ main = "registering"
  /\ IF state = "connecting"
     THEN /\ main' = "reading" /\ state' = "connected"
          /\ stream' = stream + 1 /\ link' = "open" /\ outq' = <<>>
     ELSE main' = "loop" /\ UNCHANGED <<state, wire>>
  /\ UNCHANGED <<drain, active, job, engine, lost, faults>>

\* An engine that is down, or stop() aborted the request.
RegistrationFails ==
  /\ main = "registering"
  /\ \/ state = "stopped" /\ UNCHANGED faults
     \/ faults < MaxFaults /\ faults' = faults + 1
  /\ main' = IF state \in {"draining", "stopped"} THEN "loop" ELSE "retry"
  /\ UNCHANGED <<state, drain, wire, active, job, engine, lost>>

\* reconnectDelay is over.
Retry == /\ main = "retry" /\ main' = "loop"
         /\ UNCHANGED <<state, drain, wire, active, job, engine, lost, faults>>

\* The engine queues what it had assigned on the stream.
Requeued(j) == IF run[j].seq < MaxSeq[j]
               THEN [seq |-> run[j].seq + 1, phase |-> "queued"]
               ELSE [run[j] EXCEPT !.phase = "ended"]

Reclaimed == [j \in Jobs |-> IF run[j].phase \in {"assigned", "acked"}
                             THEN Requeued(j) ELSE run[j]]

\* The finally of connect(): the jobs of the stream are aborted and forgotten.
CloseStream ==
  /\ link' = "none" /\ outq' = <<>> /\ UNCHANGED stream
  /\ lost' = (lost \/ Reporting(outq))
  /\ run' = Reclaimed /\ UNCHANGED done

\* The engine has read everything and closes the stream in turn.
EngineCloses ==
  /\ main = "reading" /\ link = "half" /\ outq = <<>>
  /\ main' = "loop" /\ AbortActive("closed") /\ CloseStream
  /\ UNCHANGED <<state, drain, faults>>

\* Mutant of StreamBreaks: the jobs run on.
StreamBreaksAlone ==
  /\ main = "reading" /\ state # "stopped" /\ faults < MaxFaults
  /\ faults' = faults + 1
  /\ main' = IF state = "draining" THEN "loop" ELSE "retry"
  /\ active' = {} /\ UNCHANGED job /\ CloseStream
  /\ UNCHANGED <<state, drain>>

StreamBreaks ==
  /\ main = "reading" /\ state # "stopped" /\ faults < MaxFaults
  /\ faults' = faults + 1
  /\ main' = IF state = "draining" THEN "loop" ELSE "retry"
  /\ AbortActive("closed") /\ CloseStream
  /\ UNCHANGED <<state, drain>>

\* stop() aborted the stream.
StreamAborted ==
  /\ main = "reading" /\ state = "stopped"
  /\ main' = "loop" /\ AbortActive("closed") /\ CloseStream
  /\ UNCHANGED <<state, drain, faults>>

\* Credentials or a registration no retry can fix: stop() and throw.
Refused ==
  /\ main \in {"registering", "reading"} /\ state \notin {"draining", "stopped"}
  /\ faults < MaxFaults
  /\ faults' = faults + 1
  /\ state' = "stopped" /\ main' = "threw" /\ AbortActive("closed") /\ CloseStream
  /\ UNCHANGED drain

-----------------------------------------------------------------------------
(* handleEngineMessage. *)

Nack(e) == Send(<<Answer("nack", e)>>) /\ UNCHANGED <<active, job>>

\* Acknowledged and started; without its function, or with an event that cannot
\* be upcast, reported at once.
Accept(e) ==
  \/ /\ Send(<<Answer("ack", e)>>)
     /\ job' = [job EXCEPT ![e] = [Idle EXCEPT !.pc = "running", !.on = stream,
                                               !.memo = done[e[1]]]]
     /\ active' = active \cup {e}
  \/ /\ Send(<<Answer("ack", e), Answer("fatal", e)>>)
     /\ job' = [job EXCEPT ![e] = Over]
     /\ UNCHANGED active

\* Mutant of HandleJobAssignment: asks for the capacity after the fact.
HandleJobAssignmentLate(e) ==
  IF \E a \in active : Key(a) = Key(e) THEN Silent /\ UNCHANGED <<active, job>>
  ELSE IF state = "draining" \/ Cardinality(active) > MaxConcurrent THEN Nack(e)
  ELSE Accept(e)

HandleJobAssignment(e) ==
  IF \E a \in active : Key(a) = Key(e) THEN Silent /\ UNCHANGED <<active, job>>
  ELSE IF state = "draining" \/ Cardinality(active) >= MaxConcurrent THEN Nack(e)
  ELSE Accept(e)

\* An assignment may come again while it runs and is not acknowledged.
Assign(e) ==
  /\ main = "reading" /\ state # "stopped" /\ run[e[1]].seq = e[2]
  /\ run[e[1]].phase = "queued" \/ (run[e[1]].phase = "assigned" /\ Live(e))
  /\ run' = [run EXCEPT ![e[1]].phase = "assigned"]
  /\ HandleJobAssignment(e)
  /\ UNCHANGED <<worker, stream, link, done, faults>>

\* Mutant of HandleJobCancel: the entry goes with the cancel.
HandleJobCancelForgets(j) ==
  /\ main = "reading" /\ state # "stopped" /\ run[j].phase = "acked"
  /\ run' = [run EXCEPT ![j].phase = "ended"]
  /\ job' = [e \in Exec |-> IF e \in active /\ e[1] = j THEN Abort(job[e], "cancel")
                            ELSE job[e]]
  /\ active' = {e \in active : e[1] # j}
  /\ UNCHANGED <<worker, wire, done, lost, faults>>

\* The entry stays until the handler exits.
HandleJobCancel(j) ==
  /\ main = "reading" /\ state # "stopped" /\ run[j].phase = "acked"
  /\ run' = [run EXCEPT ![j].phase = "ended"]
  /\ job' = [e \in Exec |-> IF e \in active /\ e[1] = j THEN Abort(job[e], "cancel")
                            ELSE job[e]]
  /\ UNCHANGED <<worker, wire, active, done, lost, faults>>

-----------------------------------------------------------------------------
(* The engine reads what the worker sent. *)

Current(e) == run[e[1]].phase \in {"assigned", "acked"} /\ run[e[1]].seq = e[2]

\* A message of an execution that is not the current one changes nothing.
Received(m) ==
  LET j == m.e[1]
  IN  /\ run' = IF ~Current(m.e) THEN run
                ELSE [run EXCEPT ![j] =
                        CASE m.m = "ack" -> [@ EXCEPT !.phase = "acked"]
                          [] m.m \in {"nack", "yielded", "failed"} -> Requeued(j)
                          [] m.m \in {"completed", "fatal"} -> [@ EXCEPT !.phase = "ended"]
                          [] OTHER -> @]
      /\ done' = IF Current(m.e) /\ m.m = "done"
                 THEN [done EXCEPT ![j] = @ \cup {m.step}] ELSE done

EngineReads ==
  /\ outq # <<>> /\ state # "stopped"
  /\ Received(Head(outq))
  /\ outq' = Tail(outq)
  /\ UNCHANGED <<worker, stream, link, active, job, lost, faults>>

-----------------------------------------------------------------------------
(* executeTracedJob. *)

Goto(e, j) == /\ job' = [job EXCEPT ![e] = j]
              /\ UNCHANGED <<worker, stream, link, active, engine, faults>>

\* Mutant of Leaves: removes whatever entry its key has.
LeavesByKey(e) ==
  /\ active' = {a \in active : Key(a) # Key(e)}
  /\ job' = [job EXCEPT ![e] = Over]
  /\ UNCHANGED <<worker, stream, link, engine, faults>>

\* The coroutine is over; the entry of its key is removed if it is its own.
Leaves(e) ==
  /\ active' = active \ {e}
  /\ job' = [job EXCEPT ![e] = Over]
  /\ UNCHANGED <<worker, stream, link, engine, faults>>

Todo(e) == (1 .. Steps[e[1]]) \ (job[e].memo \cup job[e].ran)

NextStep(e) == CHOOSE i \in Todo(e) : \A k \in Todo(e) : i <= k

\* An aborted job starts no step.
StepStarts(e) == /\ job[e].pc = "running" /\ job[e].why = "none" /\ Todo(e) # {}
                 /\ Goto(e, [job[e] EXCEPT !.pc = "stepping"]) /\ Silent

\* Mutant of OnStepResult: whatever became of the stream.
OnStepResultAlways(e, kind) ==
  IF kind = "bad" THEN Silent
  ELSE Send(<<StepMessage(e, kind, NextStep(e))>>)

\* ctx.onStepResult: a step of a lost stream, or one JSON cannot encode, is not sent.
OnStepResult(e, kind) ==
  IF job[e].why = "closed" \/ kind = "bad" THEN Silent
  ELSE Send(<<StepMessage(e, kind, NextStep(e))>>)

StepEnds(e, kind) ==
  LET j == job[e]
  IN  /\ j.pc = "stepping"
      /\ Goto(e, [j EXCEPT !.pc = "running", !.bad = @ \/ kind = "bad",
                           !.ran = @ \cup {NextStep(e)}])
      /\ OnStepResult(e, kind)

\* Returns, with every step encodable: only a lost stream keeps it from reporting.
HandlerReturns(e) ==
  /\ job[e].pc = "running" /\ ~job[e].bad
  /\ job[e].why # "none" \/ Todo(e) = {}
  /\ Leaves(e)
  /\ IF job[e].why = "closed" THEN Silent ELSE Send(<<Message("completed", e)>>)

\* Throws what does not end the run, a yield or an error to retry.
HandlerPauses(e, m) ==
  /\ job[e].pc = "running" /\ m \in {"yielded", "failed"}
  /\ m = "yielded" => ~job[e].bad
  /\ Leaves(e)
  /\ IF job[e].why # "none" THEN Silent ELSE Send(<<Message(m, e)>>)

\* An error that ends the run, or a step or result that JSON cannot encode.
HandlerFails(e, undos) ==
  /\ job[e].pc = "running"
  /\ IF job[e].why # "none" THEN undos = 0 /\ Leaves(e) /\ Silent
     ELSE IF undos = 0 THEN Leaves(e) /\ Send(<<Message("fatal", e)>>)
     ELSE Goto(e, [job[e] EXCEPT !.pc = "compensating", !.undo = undos]) /\ Silent

\* executeCompensations: the identifier of an aborted job throws, past the report.
UndoStarts(e) ==
  /\ job[e].pc = "compensating"
  /\ IF job[e].why # "none" THEN Leaves(e)
     ELSE Goto(e, [job[e] EXCEPT !.pc = "undoing", !.undo = @ - 1])
  /\ Silent

\* After the last one the failure is reported, without another look at the signal.
UndoEnds(e) ==
  /\ job[e].pc = "undoing"
  /\ IF job[e].undo > 0 THEN Goto(e, [job[e] EXCEPT !.pc = "compensating"]) /\ Silent
     ELSE Leaves(e) /\ Send(<<Message("fatal", e)>>)

-----------------------------------------------------------------------------
Init ==
  /\ state = "idle" /\ main = "idle" /\ drain = "none"
  /\ stream = 0 /\ link = "none" /\ outq = <<>>
  /\ active = {} /\ job = [e \in Exec |-> Idle]
  /\ run = [j \in Jobs |-> [seq |-> 1, phase |-> "queued"]]
  /\ done = [j \in Jobs |-> {}]
  /\ lost = FALSE /\ faults = 0

Lifecycle ==
  \/ Start \/ Connect \/ LeaveLoop \/ Registered \/ RegistrationFails \/ Retry
  \/ Refused \/ EngineCloses \/ StreamBreaks \/ StreamAborted \/ GeneratorReturns
  \/ Stop \/ Drain \/ JobsDone \/ DrainDeadline \/ DrainReturns

Execute(e) ==
  \/ StepStarts(e)
  \/ \E kind \in {"done", "undone", "bad"} : StepEnds(e, kind)
  \/ HandlerReturns(e)
  \/ \E m \in {"yielded", "failed"} : HandlerPauses(e, m)
  \/ \E undos \in 0 .. Undos : HandlerFails(e, undos)
  \/ UndoStarts(e) \/ UndoEnds(e)

Next ==
  \/ Lifecycle
  \/ EngineReads
  \/ \E e \in Exec : Assign(e) \/ Execute(e)
  \/ \E j \in Jobs : HandleJobCancel(j)

Spec == Init /\ [][Next]_vars

-----------------------------------------------------------------------------
Sent == [m : {"ack", "nack", "done", "undone"} \cup Reports, e : Exec,
         step : Nat, on : 1 .. MaxStreams, why : {"none", "cancel", "closed", "stop"}]

\* The variables of the worker (worker-streaming.ts) and of the engine have
\* their types.
TypeOK ==
  /\ state \in {"idle", "connecting", "connected", "draining", "stopped"}
  /\ main \in {"idle", "loop", "registering", "retry", "reading", "done", "threw"}
  /\ drain \in {"none", "waiting", "closing", "over", "cut"}
  /\ stream \in 0 .. MaxStreams /\ link \in {"none", "open", "ending", "half"}
  /\ outq \in Seq(Sent) /\ active \subseteq Exec
  /\ job \in [Exec -> [pc : {"none", "running", "stepping", "compensating", "undoing",
                             "over"},
                       why : {"none", "cancel", "closed", "stop"},
                       on : 0 .. MaxStreams, memo : SUBSET Nat,
                       ran : SUBSET Nat, bad : BOOLEAN, undo : 0 .. Undos]]
  /\ run \in [Jobs -> [seq : Nat,
                       phase : {"queued", "assigned", "acked", "ended"}]]
  /\ done \in [Jobs -> SUBSET Nat]
  /\ lost \in BOOLEAN /\ faults \in 0 .. MaxFaults

\* activeJobs holds every execution that runs for the stream in hand, and those
\* alone, also after a reconnect, a cancel or a repeated delivery: the capacity
\* and drain() go by it (handleJobAssignment, handleJobCancel, connect).
ActiveIsWhatRuns ==
  /\ Cardinality(active) <= MaxConcurrent
  /\ state # "stopped" => active = {e \in Exec : Live(e) /\ job[e].why \in {"none", "cancel"}
                                                 /\ job[e].on = stream /\ link # "none"}

\* What is sent was computed for the stream it is sent on, unless the execution
\* had been cancelled before its stream ended, or was in its last compensation
\* when it did (onStepResult, executeTracedJob).
LostStreamIsSilent ==
  \A i \in DOMAIN outq :
    \/ outq[i].on = stream
    \/ outq[i].why = "cancel"
    \/ outq[i].why = "closed" /\ outq[i].m = "fatal"

\* A job that lost its stream must not report: its fence belongs to a session
\* that is gone (STREAM_CLOSED).
NoStaleFence == \A i \in DOMAIN outq : outq[i].m \in Reports => outq[i].on = stream

\* A drain that is not cut short ends with every report read by the engine: the
\* stream sends what is queued before it closes (drainWithin, outgoingMessages).
DrainDelivers == drain = "over" /\ faults = 0 => ~lost

\* A worker that drains never goes back into service, whatever it was doing when
\* drain() was called: it takes no job and opens no stream (connect, start).
DrainingStays == state = "draining" => /\ state' \in {"draining", "stopped"}
                                       /\ active' \subseteq active /\ stream' = stream

DrainingIsFinal == [][DrainingStays]_vars

\* drain() ends and start() with it, though handlers hang and the engine never
\* closes the stream.
DrainEnds ==
  []<>(drain # "none" => drain \in {"over", "cut"} /\ main \in {"idle", "done", "threw"})

\* Timers fire, and a request or a stream rejects once stop() has aborted it.
Fair(k) ==
  CASE k = 1 -> Connect  [] k = 2 -> LeaveLoop
    [] k = 3 -> Retry    [] k = 4 -> RegistrationFails /\ state = "stopped"
    [] k = 5 -> StreamAborted
    [] k = 6 -> DrainDeadline  [] k = 7 -> DrainReturns
    [] OTHER -> FALSE

Fairness == \A k \in 1 .. 7 : WF_vars(Fair(k))

FairSpec == Spec /\ Fairness

=============================================================================
