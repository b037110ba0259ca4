------------------------ MODULE StreamingWorkerProofs ------------------------
(***************************************************************************)
(* What TLAPS proves of StreamingWorker for any runs, executions, streams, *)
(* steps, slots and faults: activeJobs is what runs, nothing computed for  *)
(* a lost stream is sent on the next, a worker that drains stays out of    *)
(* service, and a drain that nothing disturbs delivers every report.       *)
(***************************************************************************)
EXTENDS StreamingWorker, FiniteSetTheorems, SequenceTheorems, WellFoundedInduction, TLAPS

Pcs  == {"none", "running", "stepping", "compensating", "undoing", "over"}
Whys == {"none", "cancel", "closed", "stop"}

JobRecord == [pc : Pcs, why : Whys, on : 0 .. MaxStreams, memo : SUBSET Nat,
              ran : SUBSET Nat, bad : BOOLEAN, undo : 0 .. Undos]
RunRecord == [seq : Nat, phase : {"queued", "assigned", "acked", "ended"}]

\* The types of the variables, each with those it is changed with.
WorkerType ==
  /\ state \in {"idle", "connecting", "connected", "draining", "stopped"}
  /\ main \in {"idle", "loop", "registering", "retry", "reading", "done", "threw"}
  /\ drain \in {"none", "waiting", "closing", "over", "cut"}
  /\ faults \in 0 .. MaxFaults

WireType == /\ stream \in 0 .. MaxStreams /\ link \in {"none", "open", "ending", "half"}
            /\ outq \in Seq(Sent) /\ lost \in BOOLEAN

JobType == job \in [Exec -> JobRecord] /\ active \subseteq Exec

EngineType == run \in [Jobs -> RunRecord] /\ done \in [Jobs -> SUBSET Nat]

TypeInv == WorkerType /\ WireType /\ JobType /\ EngineType

\* start() reads a stream as long as there is one; only a drain or a stop ends what
\* is sent on it; what was queued goes with it.
LinkInv ==
  /\ main = "reading" <=> link # "none"
  /\ link \in {"ending", "half"} => state \in {"draining", "stopped"}
  /\ link = "none" => outq = <<>>
  /\ link # "none" => stream > 0
  /\ main = "registering" => stream < MaxStreams

ActiveInv ==
  /\ IsFiniteSet(active) /\ ActiveIsWhatRuns
  /\ state = "stopped" => active = {}

\* Whatever runs is of a stream that was opened; unless it is in activeJobs it has
\* been aborted, and what stop() aborted was of the last stream.
JobInv ==
  \A e \in Exec : Live(e) =>
    /\ job[e].on \in 1 .. stream
    /\ job[e].why = "none" => e \in active
    /\ job[e].why = "stop" => state = "stopped" /\ job[e].on = stream
    /\ job[e].pc = "compensating" => job[e].undo > 0
    /\ job[e].pc = "stepping" => Todo(e) # {}

StreamInv == TypeInv /\ LinkInv /\ ActiveInv /\ JobInv

-----------------------------------------------------------------------------
(* The operators. *)

LEMMA LeastNumber ==
  ASSUME NEW S \in SUBSET Nat, S # {}
  PROVE  \E n \in S : \A m \in S : n <= m
<1> DEFINE Less == OpToRel(<, Nat)
<1>1. IsWellFoundedOn(Less, Nat)
  BY NatLessThanWellFounded
<1>2. \A m, n \in Nat : m < n => <<m, n>> \in Less
  BY DEF Less, OpToRel
<1> HIDE DEF Less
<1>3. PICK n \in S : \A m \in S : <<m, n>> \notin Less
  BY <1>1, WFMin
<1>4. ASSUME NEW m \in S PROVE n <= m
  <2>1. m \in Nat /\ n \in Nat /\ ~(m < n)
    BY <1>2, <1>3
  <2> QED BY <2>1
<1> QED BY <1>4

LEMMA ExecParts ==
  ASSUME NEW e \in Exec
  PROVE  e[1] \in Jobs /\ e[2] \in 1 .. MaxSeq[e[1]]
<1>1. PICK j \in Jobs : e \in {j} \X (1 .. MaxSeq[j])
  BY DEF Exec
<1> QED BY <1>1

LEMMA IdleType ==
  ASSUME StreamingAssumption
  PROVE  /\ Idle \in JobRecord /\ Idle.pc = "none" /\ Idle.why = "none"
         /\ Over \in JobRecord /\ Over.pc = "over"
<1>1. 0 \in 0 .. MaxStreams /\ 0 \in 0 .. Undos /\ {} \in SUBSET Nat
  BY DEF StreamingAssumption
<1>2. Idle \in JobRecord /\ Idle.pc = "none" /\ Idle.why = "none"
  BY <1>1 DEF Idle, JobRecord, Pcs, Whys
<1>3. \A j \in JobRecord : [j EXCEPT !.pc = "over"] \in JobRecord
                          /\ [j EXCEPT !.pc = "over"].pc = "over"
  BY DEF JobRecord, Pcs
<1> QED BY <1>2, <1>3 DEF Over

LEMMA JobFields ==
  ASSUME JobType, NEW e \in Exec
  PROVE  /\ job[e] \in JobRecord
         /\ job[e].pc \in Pcs /\ job[e].why \in Whys /\ job[e].on \in 0 .. MaxStreams
         /\ job[e].memo \in SUBSET Nat /\ job[e].ran \in SUBSET Nat /\ job[e].bad \in BOOLEAN
         /\ job[e].undo \in 0 .. Undos
<1>1. job[e] \in JobRecord
  BY DEF JobType
<1> QED BY <1>1 DEF JobRecord

\* The next step is one that was not taken.
LEMMA NextStepTodo ==
  ASSUME StreamingAssumption, NEW e \in Exec, Todo(e) # {}
  PROVE  NextStep(e) \in Todo(e) /\ NextStep(e) \in Nat
<1>1. Todo(e) \in SUBSET Nat
  BY DEF Todo
<1>2. \E i \in Todo(e) : \A k \in Todo(e) : i <= k
  BY <1>1, LeastNumber
<1>3. NextStep(e) \in Todo(e)
  BY <1>2 DEF NextStep
<1> QED BY <1>1, <1>3

\* A message of a job of a stream.
LEMMA MessageSent ==
  ASSUME JobType, NEW e \in Exec, job[e].on \in 1 .. MaxStreams,
         NEW kind \in {"done", "undone"} \cup Reports
  PROVE  /\ Message(kind, e) \in Sent /\ Message(kind, e).m = kind
         /\ Message(kind, e).on = job[e].on /\ Message(kind, e).why = job[e].why
         /\ \A i \in Nat : /\ StepMessage(e, kind, i) \in Sent
                           /\ StepMessage(e, kind, i).m = kind
                           /\ StepMessage(e, kind, i).on = job[e].on
                           /\ StepMessage(e, kind, i).why = job[e].why
<1>1. job[e].why \in Whys
  BY JobFields
<1> QED BY <1>1 DEF Message, StepMessage, Sent, Whys

LEMMA AnswerSent ==
  ASSUME NEW e \in Exec, stream \in 1 .. MaxStreams,
         NEW kind \in {"ack", "nack"} \cup Reports
  PROVE  /\ Answer(kind, e) \in Sent /\ Answer(kind, e).m = kind
         /\ Answer(kind, e).on = stream
BY DEF Answer, Sent

\* abort() changes no more than the reason of who has none.
LEMMA Aborted ==
  ASSUME NEW j \in JobRecord, NEW why \in Whys
  PROVE  /\ Abort(j, why) \in JobRecord
         /\ Abort(j, why).pc = j.pc /\ Abort(j, why).on = j.on
         /\ Abort(j, why).memo = j.memo /\ Abort(j, why).ran = j.ran
         /\ Abort(j, why).undo = j.undo
         /\ Abort(j, why).why = IF j.why = "none" THEN why ELSE j.why
<1>1. CASE j.why = "none"
  BY <1>1 DEF Abort, JobRecord
<1>2. CASE j.why # "none"
  <2>1. Abort(j, why) = j
    BY <1>2 DEF Abort
  <2> QED BY <1>2, <2>1
<1> QED BY <1>1, <1>2

LEMMA RequeuedType ==
  ASSUME EngineType, NEW j \in Jobs
  PROVE  Requeued(j) \in RunRecord
<1>1. run[j] \in RunRecord /\ run[j].seq \in Nat
  BY DEF EngineType, RunRecord
<1> QED BY <1>1 DEF Requeued, RunRecord

-----------------------------------------------------------------------------
(* What several actions do. *)

LEMMA StateStays ==
  ASSUME StreamInv, UNCHANGED <<active, job, stream>>,
         state' = "stopped" <=> state = "stopped", link' = "none" <=> link = "none"
  PROVE  JobType' /\ ActiveInv' /\ JobInv'
<1>1. JobType'
  BY DEF StreamInv, TypeInv, JobType
<1>2. \A e \in Exec : Live(e)' <=> Live(e)
  BY DEF Live
<1>3. ActiveInv'
  <2>1. ActiveIsWhatRuns'
    BY <1>2 DEF StreamInv, ActiveInv, ActiveIsWhatRuns
  <2> QED BY <2>1 DEF StreamInv, ActiveInv
<1>4. JobInv'
  BY <1>2 DEF StreamInv, JobInv, Todo
<1> QED BY <1>1, <1>3, <1>4

LEMMA AbortStep ==
  ASSUME JobType, NEW why \in {"stop", "closed"}, AbortActive(why)
  PROVE  /\ active' = {} /\ job' \in [Exec -> JobRecord]
         /\ \A e \in Exec :
              /\ job'[e].pc = job[e].pc /\ job'[e].on = job[e].on
              /\ job'[e].undo = job[e].undo /\ (Live(e)' <=> Live(e))
              /\ Todo(e)' = Todo(e)
              /\ job'[e].why = IF e \in active /\ job[e].why = "none" THEN why
                               ELSE job[e].why
<1>1. active' = {}
  BY DEF AbortActive
<1>2. ASSUME NEW e \in Exec
      PROVE  /\ job'[e] \in JobRecord
             /\ job'[e].pc = job[e].pc /\ job'[e].on = job[e].on
             /\ job'[e].undo = job[e].undo
             /\ job'[e].memo = job[e].memo /\ job'[e].ran = job[e].ran
             /\ job'[e].why = IF e \in active /\ job[e].why = "none" THEN why
                              ELSE job[e].why
  <2>1. job[e] \in JobRecord /\ why \in Whys
    BY JobFields DEF Whys
  <2>2. job'[e] = IF e \in active THEN Abort(job[e], why) ELSE job[e]
    BY DEF AbortActive
  <2>3. CASE e \in active
    BY <2>1, <2>2, <2>3, Aborted
  <2>4. CASE e \notin active
    BY <2>1, <2>2, <2>4
  <2> QED BY <2>3, <2>4
<1>3. job' \in [Exec -> JobRecord]
  <2>1. job' = [e \in Exec |-> job'[e]]
    BY DEF AbortActive
  <2> QED BY <1>2, <2>1
<1>4. \A e \in Exec : (Live(e)' <=> Live(e)) /\ Todo(e)' = Todo(e)
  BY <1>2 DEF Live, Todo
<1> QED BY <1>1, <1>2, <1>3, <1>4

\* The jobs of the stream are aborted because the worker stops or the stream ends.
LEMMA AbortKeeps ==
  ASSUME StreamingAssumption, StreamInv, NEW why \in {"stop", "closed"}, AbortActive(why),
         stream' = stream, state = "stopped" => state' = "stopped",
         why = "stop" => state' = "stopped", state' = "stopped" \/ link' = "none"
  PROVE  JobType' /\ ActiveInv' /\ JobInv'
<1>1. JobType
  BY DEF StreamInv, TypeInv
<1>2. /\ active' = {} /\ job' \in [Exec -> JobRecord]
      /\ \A e \in Exec :
           /\ job'[e].pc = job[e].pc /\ job'[e].on = job[e].on
           /\ job'[e].undo = job[e].undo /\ (Live(e)' <=> Live(e))
           /\ Todo(e)' = Todo(e)
           /\ job'[e].why = IF e \in active /\ job[e].why = "none" THEN why
                            ELSE job[e].why
  BY <1>1, AbortStep
<1>3. ActiveInv'
  <2>1. IsFiniteSet({}) /\ Cardinality({}) = 0 /\ 0 <= MaxConcurrent
    BY FS_EmptySet DEF StreamingAssumption
  <2>2. ActiveIsWhatRuns'
    BY <1>2, <2>1 DEF ActiveIsWhatRuns
  <2> QED BY <1>2, <2>1, <2>2 DEF ActiveInv
<1>4. JobInv'
  <2> SUFFICES ASSUME NEW e \in Exec, Live(e)'
               PROVE  /\ job'[e].on \in 1 .. stream'
                      /\ job'[e].why = "none" => e \in active'
                      /\ job'[e].why = "stop" => state' = "stopped" /\ job'[e].on = stream'
                      /\ job'[e].pc = "compensating" => job'[e].undo > 0
                      /\ job'[e].pc = "stepping" => Todo(e)' # {}
    BY DEF JobInv
  <2>1. Live(e)
    BY <1>2
  <2>2. e \in active => state # "stopped" /\ job[e].on = stream
    BY DEF StreamInv, ActiveInv, ActiveIsWhatRuns
  <2> QED BY <1>2, <2>1, <2>2 DEF StreamInv, JobInv
<1> QED BY <1>2, <1>3, <1>4 DEF JobType

LEMMA EngineStays ==
  ASSUME EngineType, UNCHANGED <<run, done>>
  PROVE  EngineType'
BY DEF EngineType

\* The stream in hand is closed.
LEMMA StreamCloses ==
  ASSUME StreamInv, CloseStream, main' \notin {"reading", "registering"}
  PROVE  WireType' /\ EngineType' /\ LinkInv'
<1>1. WireType'
  <2>1. <<>> \in Seq(Sent)
    BY EmptySeq
  <2>2. lost' \in BOOLEAN
    BY DEF CloseStream, StreamInv, TypeInv, WireType, Reporting
  <2> QED BY <2>1, <2>2 DEF CloseStream, StreamInv, TypeInv, WireType
<1>2. EngineType'
  <2>1. EngineType
    BY DEF StreamInv, TypeInv
  <2>2. \A j \in Jobs : run[j] \in RunRecord /\ Requeued(j) \in RunRecord
    BY <2>1, RequeuedType DEF EngineType
  <2>3. run' = Reclaimed /\ done' = done
    BY DEF CloseStream
  <2> HIDE DEF RunRecord
  <2>4. Reclaimed \in [Jobs -> RunRecord]
    BY <2>2 DEF Reclaimed
  <2> QED BY <2>1, <2>3, <2>4 DEF EngineType
<1>3. LinkInv'
  BY DEF CloseStream, LinkInv
<1> QED BY <1>1, <1>2, <1>3

LEMMA ShortSequences ==
  ASSUME NEW S, NEW a \in S
  PROVE  <<a>> \in Seq(S) /\ \A b \in S : <<a, b>> \in Seq(S)
OBVIOUS

\* Messages are queued while there is a stream.
LEMMA SendType ==
  ASSUME WireType, NEW msgs \in Seq(Sent), Send(msgs)
  PROVE  outq' \in Seq(Sent) /\ lost' \in BOOLEAN
<1>1. outq \in Seq(Sent) /\ outq \o msgs \in Seq(Sent)
  BY ConcatProperties DEF WireType
<1>2. lost' \in BOOLEAN
  BY DEF WireType, Send, Reporting
<1> QED BY <1>1, <1>2 DEF Send

-----------------------------------------------------------------------------
(* start(), drain() and stop() preserve the invariant. *)

\* An action that leaves the jobs, the engine and what is queued alone.
LEMMA ControlStep ==
  ASSUME StreamingAssumption, StreamInv, UNCHANGED <<active, job, stream, outq, run, done, lost>>,
         state' = "stopped" <=> state = "stopped",
         WorkerType', LinkInv', link' \in {"none", "open", "ending", "half"},
         link' = "none" <=> link = "none"
  PROVE  StreamInv'
<1>1. JobType' /\ ActiveInv' /\ JobInv'
  BY StateStays
<1>2. EngineType' /\ WireType'
  BY EngineStays DEF StreamInv, TypeInv, WireType
<1> QED BY <1>1, <1>2 DEF StreamInv, TypeInv

LEMMA StartsStep ==
  ASSUME StreamingAssumption, StreamInv, Start \/ Connect \/ Retry \/ RegistrationFails
  PROVE  StreamInv'
<1>1. UNCHANGED <<active, job, stream, outq, run, done, lost, link>>
  BY DEF Start, Connect, Retry, RegistrationFails, wire, engine
<1>2. state' = "stopped" <=> state = "stopped"
  BY DEF Start, Connect, Retry, RegistrationFails
<1>3. WorkerType'
  BY DEF Start, Connect, Retry, RegistrationFails, StreamInv, TypeInv, WorkerType,
         StreamingAssumption
<1>4. LinkInv'
  BY <1>1 DEF Start, Connect, Retry, RegistrationFails, StreamInv, LinkInv
<1>5. link' \in {"none", "open", "ending", "half"}
  BY <1>1 DEF StreamInv, TypeInv, WireType
<1> QED BY <1>1, <1>2, <1>3, <1>4, <1>5, ControlStep

LEMMA DrainsStep ==
  ASSUME StreamingAssumption, StreamInv,
         GeneratorReturns \/ Drain \/ JobsDone \/ DrainReturns
  PROVE  StreamInv'
<1>1. UNCHANGED <<active, job, stream, outq, run, done, lost, main>>
  BY DEF GeneratorReturns, Drain, JobsDone, DrainReturns, wire, engine, worker
<1>2. state' = "stopped" <=> state = "stopped"
  BY DEF GeneratorReturns, Drain, JobsDone, DrainReturns, worker
<1>3. WorkerType'
  BY DEF GeneratorReturns, Drain, JobsDone, DrainReturns, worker, StreamInv, TypeInv, WorkerType
<1>4. \/ link' = link
      \/ link \in {"open", "ending"} /\ link' \in {"ending", "half"}
           /\ state' \in {"draining", "stopped"}
  BY DEF GeneratorReturns, Drain, JobsDone, DrainReturns, EndOutgoing, wire, worker,
         StreamInv, LinkInv
<1>5. state \in {"draining", "stopped"} => state' \in {"draining", "stopped"}
  BY DEF GeneratorReturns, Drain, JobsDone, DrainReturns, worker
<1>6. LinkInv'
  BY <1>1, <1>4, <1>5 DEF StreamInv, LinkInv
<1>7. link' \in {"none", "open", "ending", "half"} /\ (link' = "none" <=> link = "none")
  BY <1>4 DEF StreamInv, TypeInv, WireType
<1> QED BY <1>1, <1>2, <1>3, <1>6, <1>7, ControlStep

\* The worker stops, whatever becomes of the stream.
LEMMA StopsStep ==
  ASSUME StreamingAssumption, StreamInv, Stop \/ DrainDeadline \/ LeaveLoop
  PROVE  StreamInv'
<1>1. StopWorker /\ UNCHANGED <<stream, link, outq, run, done, lost>>
  BY DEF Stop, DrainDeadline, LeaveLoop, wire, engine
<1>2. JobType' /\ ActiveInv' /\ JobInv'
  <2>1. state' = "stopped" /\ AbortActive("stop")
    BY <1>1 DEF StopWorker
  <2> QED BY <1>1, <2>1, AbortKeeps
<1>3. EngineType' /\ WireType'
  BY <1>1, EngineStays DEF StreamInv, TypeInv, WireType
<1>4. WorkerType'
  BY DEF Stop, DrainDeadline, LeaveLoop, StopWorker, StreamInv, TypeInv, WorkerType,
         StreamingAssumption
<1>5. main' = main \/ (main = "loop" /\ main' = "done")
  BY DEF Stop, DrainDeadline, LeaveLoop
<1>6. LinkInv'
  BY <1>1, <1>5 DEF StopWorker, StreamInv, LinkInv
<1> QED BY <1>2, <1>3, <1>4, <1>6 DEF StreamInv, TypeInv

\* The stream ends, of itself or with the worker.
LEMMA EndsStep ==
  ASSUME StreamingAssumption, StreamInv,
         EngineCloses \/ StreamBreaks \/ StreamAborted \/ Refused
  PROVE  StreamInv'
<1>1. AbortActive("closed") /\ CloseStream
  BY DEF EngineCloses, StreamBreaks, StreamAborted, Refused
<1>2. main' \notin {"reading", "registering"}
  BY DEF EngineCloses, StreamBreaks, StreamAborted, Refused
<1>3. state = "stopped" => state' = "stopped"
  BY DEF EngineCloses, StreamBreaks, StreamAborted, Refused
<1>4. JobType' /\ ActiveInv' /\ JobInv'
  <2>1. stream' = stream /\ link' = "none"
    BY <1>1 DEF CloseStream
  <2> QED BY <1>1, <1>3, <2>1, AbortKeeps
<1>5. WireType' /\ EngineType' /\ LinkInv'
  BY <1>1, <1>2, StreamCloses
<1>6. WorkerType'
  BY DEF EngineCloses, StreamBreaks, StreamAborted, Refused, StreamInv, TypeInv, WorkerType,
         StreamingAssumption
<1> QED BY <1>4, <1>5, <1>6 DEF StreamInv, TypeInv

\* A new stream, on which nothing runs yet.
LEMMA RegisteredStep ==
  ASSUME StreamingAssumption, StreamInv, Registered
  PROVE  StreamInv'
<1>1. UNCHANGED <<drain, active, job, run, done, lost, faults>>
  BY DEF Registered, engine
<1>2. link = "none" /\ stream < MaxStreams
  BY DEF Registered, StreamInv, LinkInv
<1>3. CASE state # "connecting"
  <2>1. UNCHANGED <<stream, outq, link, state>> /\ main' = "loop"
    BY <1>3 DEF Registered, wire
  <2>2. WorkerType'
    BY <1>1, <2>1 DEF StreamInv, TypeInv, WorkerType
  <2>3. LinkInv'
    BY <1>2, <2>1 DEF StreamInv, LinkInv
  <2> QED BY <1>1, <1>2, <2>1, <2>2, <2>3, ControlStep
<1>4. CASE state = "connecting"
  <2>1. /\ main' = "reading" /\ state' = "connected" /\ stream' = stream + 1
        /\ link' = "open" /\ outq' = <<>>
    BY <1>4 DEF Registered
  <2>2. stream \in 0 .. MaxStreams
    BY DEF StreamInv, TypeInv, WireType
  <2>3. stream' \in 1 .. MaxStreams
    BY <1>2, <2>1, <2>2 DEF StreamingAssumption
  <2>4. WorkerType' /\ JobType' /\ EngineType'
    BY <1>1, <2>1, EngineStays DEF StreamInv, TypeInv, WorkerType, JobType
  <2>5. WireType'
    <3>1. <<>> \in Seq(Sent)
      BY EmptySeq
    <3> QED BY <1>1, <2>1, <2>3, <3>1 DEF StreamInv, TypeInv, WireType
  <2>6. LinkInv'
    BY <2>1, <2>2 DEF LinkInv
  <2>7. active = {}
    BY <1>2, <1>4 DEF StreamInv, ActiveInv, ActiveIsWhatRuns
  <2>8. \A e \in Exec : (Live(e)' <=> Live(e)) /\ (Live(e) => job[e].on # stream')
    <3> SUFFICES ASSUME NEW e \in Exec PROVE (Live(e)' <=> Live(e))
                                           /\ (Live(e) => job[e].on # stream')
      OBVIOUS
    <3>1. Live(e) => job[e].on \in 1 .. stream
      BY DEF StreamInv, JobInv
    <3> QED BY <1>1, <2>1, <2>2, <3>1 DEF Live
  <2>9. ActiveInv'
    <3>1. ActiveIsWhatRuns'
      BY <1>1, <2>1, <2>7, <2>8 DEF StreamInv, ActiveInv, ActiveIsWhatRuns
    <3> QED BY <1>1, <2>1, <3>1 DEF StreamInv, ActiveInv
  <2>10. JobInv'
    <3> SUFFICES ASSUME NEW e \in Exec, Live(e)'
                 PROVE  /\ job'[e].on \in 1 .. stream'
                        /\ job'[e].why = "none" => e \in active'
                        /\ job'[e].why = "stop" => state' = "stopped" /\ job'[e].on = stream'
                        /\ job'[e].pc = "compensating" => job'[e].undo > 0
                        /\ job'[e].pc = "stepping" => Todo(e)' # {}
      BY DEF JobInv
    <3>1. Live(e) /\ Todo(e)' = Todo(e)
      BY <1>1, <2>8 DEF Todo
    <3> QED BY <1>1, <1>4, <2>1, <2>2, <3>1 DEF StreamInv, JobInv
  <2> QED BY <2>4, <2>5, <2>6, <2>9, <2>10 DEF StreamInv, TypeInv
<1> QED BY <1>3, <1>4

-----------------------------------------------------------------------------
(* What the engine sends and reads preserves the invariant. *)

LEMMA ReceivedType ==
  ASSUME EngineType, NEW m \in Sent, Received(m)
  PROVE  EngineType'
<1> DEFINE j == m.e[1]
<1>1. j \in Jobs /\ m.step \in Nat
  BY ExecParts DEF Sent
<1>2. run[j] \in RunRecord /\ Requeued(j) \in RunRecord
  BY <1>1, RequeuedType DEF EngineType
<1>3. run' \in [Jobs -> RunRecord]
  <2> DEFINE next == CASE m.m = "ack" -> [run[j] EXCEPT !.phase = "acked"]
                       [] m.m \in {"nack", "yielded", "failed"} -> Requeued(j)
                       [] m.m \in {"completed", "fatal"} -> [run[j] EXCEPT !.phase = "ended"]
                       [] OTHER -> run[j]
  <2>1. run' = IF ~Current(m.e) THEN run ELSE [run EXCEPT ![j] = next]
    BY DEF Received
  <2>2. next \in RunRecord
    <3>1. [run[j] EXCEPT !.phase = "acked"] \in RunRecord
          /\ [run[j] EXCEPT !.phase = "ended"] \in RunRecord
      BY <1>2 DEF RunRecord
    <3> HIDE DEF RunRecord
    <3>2. CASE m.m = "ack"
      BY <3>1, <3>2
    <3>3. CASE m.m \in {"nack", "yielded", "failed"}
      BY <1>2, <3>3
    <3>4. CASE m.m \in {"completed", "fatal"}
      BY <3>1, <3>4
    <3>5. CASE m.m \notin {"ack", "nack", "yielded", "failed", "completed", "fatal"}
      BY <1>2, <3>5
    <3> QED BY <3>2, <3>3, <3>4, <3>5
  <2> HIDE DEF next, RunRecord
  <2> QED BY <1>1, <2>1, <2>2 DEF EngineType
<1>4. done' \in [Jobs -> SUBSET Nat]
  BY <1>1 DEF EngineType, Received
<1> QED BY <1>3, <1>4 DEF EngineType

LEMMA EngineReadsStep ==
  ASSUME StreamingAssumption, StreamInv, EngineReads
  PROVE  StreamInv'
<1>1. UNCHANGED <<state, main, drain, stream, link, active, job, lost, faults>>
  BY DEF EngineReads, worker
<1>2. outq \in Seq(Sent) /\ outq # <<>>
  BY DEF EngineReads, StreamInv, TypeInv, WireType
<1>3. Head(outq) \in Sent /\ Tail(outq) \in Seq(Sent)
  BY <1>2, HeadTailProperties
<1>4. EngineType'
  BY <1>3, ReceivedType DEF EngineReads, StreamInv, TypeInv
<1>5. WireType' /\ WorkerType'
  BY <1>1, <1>3 DEF EngineReads, StreamInv, TypeInv, WireType, WorkerType
<1>6. JobType' /\ ActiveInv' /\ JobInv'
  BY <1>1, StateStays
<1>7. LinkInv'
  BY <1>1, <1>2 DEF StreamInv, LinkInv
<1> QED BY <1>4, <1>5, <1>6, <1>7 DEF StreamInv, TypeInv

LEMMA CancelStep ==
  ASSUME StreamingAssumption, StreamInv, NEW j \in Jobs, HandleJobCancel(j)
  PROVE  StreamInv'
<1>1. UNCHANGED <<state, main, drain, stream, link, outq, active, done, lost, faults>>
  BY DEF HandleJobCancel, worker, wire
<1>2. ASSUME NEW e \in Exec
      PROVE  /\ job'[e] \in JobRecord
             /\ job'[e].pc = job[e].pc /\ job'[e].on = job[e].on
             /\ job'[e].undo = job[e].undo
             /\ job'[e].memo = job[e].memo /\ job'[e].ran = job[e].ran
             /\ \/ job'[e].why = job[e].why
                \/ job[e].why = "none" /\ job'[e].why = "cancel"
  <2>1. job[e] \in JobRecord /\ "cancel" \in Whys
    BY JobFields DEF Whys, StreamInv, TypeInv
  <2>2. job'[e] = IF e \in active /\ e[1] = j THEN Abort(job[e], "cancel") ELSE job[e]
    BY DEF HandleJobCancel
  <2>3. CASE e \in active /\ e[1] = j
    BY <2>1, <2>2, <2>3, Aborted
  <2>4. CASE ~(e \in active /\ e[1] = j)
    BY <2>1, <2>2, <2>4
  <2> QED BY <2>3, <2>4
<1>3. JobType'
  <2>1. job' = [e \in Exec |-> job'[e]]
    BY DEF HandleJobCancel
  <2>2. job' \in [Exec -> JobRecord]
    BY <1>2, <2>1
  <2> QED BY <1>1, <2>2 DEF StreamInv, TypeInv, JobType
<1>4. EngineType'
  <2>1. run \in [Jobs -> RunRecord] /\ run' = [run EXCEPT ![j].phase = "ended"]
    BY DEF HandleJobCancel, StreamInv, TypeInv, EngineType
  <2>2. [run[j] EXCEPT !.phase = "ended"] \in RunRecord
    BY <2>1 DEF RunRecord
  <2> HIDE DEF RunRecord
  <2>3. run' \in [Jobs -> RunRecord]
    BY <2>1, <2>2
  <2> QED BY <1>1, <2>3 DEF StreamInv, TypeInv, EngineType
<1>5. \A e \in Exec : /\ (Live(e)' <=> Live(e)) /\ Todo(e)' = Todo(e)
                      /\ job'[e].why \in {"none", "cancel"} <=> job[e].why \in {"none", "cancel"}
  BY <1>2 DEF Live, Todo
<1>6. ActiveInv'
  <2>1. ActiveIsWhatRuns'
    <3>1. \A e \in Exec :
            (Live(e) /\ job[e].why \in {"none", "cancel"} /\ job[e].on = stream /\ link # "none")'
              <=> Live(e) /\ job[e].why \in {"none", "cancel"} /\ job[e].on = stream
                    /\ link # "none"
      BY <1>1, <1>2, <1>5
    <3> QED BY <1>1, <3>1 DEF StreamInv, ActiveInv, ActiveIsWhatRuns
  <2> QED BY <1>1, <2>1 DEF StreamInv, ActiveInv
<1>7. JobInv'
  BY <1>1, <1>2, <1>5 DEF StreamInv, JobInv
<1>8. WorkerType' /\ WireType' /\ LinkInv'
  BY <1>1 DEF StreamInv, TypeInv, WorkerType, WireType, LinkInv
<1> QED BY <1>3, <1>4, <1>6, <1>7, <1>8 DEF StreamInv, TypeInv

\* The job of one execution changes, and its entry with it: it comes to run on the
\* stream in hand, goes on, or is over.
LEMMA OneJobChanges ==
  ASSUME StreamingAssumption, StreamInv, NEW e \in Exec, NEW j \in JobRecord,
         job' = [job EXCEPT ![e] = j], UNCHANGED <<state, stream, link>>,
         IsFiniteSet(active'), Cardinality(active') <= MaxConcurrent,
         \/ /\ j.pc \in {"none", "over"} /\ active' = active \ {e}
         \/ /\ j.pc \notin {"none", "over"} /\ j.on = stream /\ j.on > 0 /\ j.why = "none"
            /\ state # "stopped" /\ link # "none" /\ active' = active \cup {e}
         \/ /\ j.pc \notin {"none", "over"} /\ Live(e) /\ active' = active
            /\ j.on = job[e].on /\ j.why = job[e].why,
         j.pc = "compensating" => j.undo > 0,
         j.pc = "stepping" => (1 .. Steps[e[1]]) \ (j.memo \cup j.ran) # {}
  PROVE  JobType' /\ ActiveInv' /\ JobInv'
<1>1. job \in [Exec -> JobRecord] /\ active \subseteq Exec /\ stream \in Nat
  BY DEF StreamInv, TypeInv, JobType, WireType
<1>2. JobType'
  <2> HIDE DEF JobRecord
  <2> QED BY <1>1 DEF JobType
<1>3. job'[e] = j /\ \A d \in Exec \ {e} : job'[d] = job[d]
  BY <1>1
<1>4. /\ Live(e)' <=> j.pc \notin {"none", "over"}
      /\ \A d \in Exec \ {e} : (Live(d)' <=> Live(d)) /\ Todo(d)' = Todo(d)
  BY <1>3 DEF Live, Todo
<1>5. \A d \in Exec \ {e} : d \in active' <=> d \in active
  OBVIOUS
<1>6. ActiveInv'
  <2>1. ActiveIsWhatRuns'
    <3> SUFFICES ASSUME state # "stopped"
                 PROVE  active' = {d \in Exec : /\ Live(d)' /\ job'[d].why \in {"none", "cancel"}
                                                /\ job'[d].on = stream /\ link # "none"}
      BY DEF ActiveIsWhatRuns
    <3>1. active = {d \in Exec : /\ Live(d) /\ job[d].why \in {"none", "cancel"}
                                 /\ job[d].on = stream /\ link # "none"}
      BY DEF StreamInv, ActiveInv, ActiveIsWhatRuns
    <3>2. \A d \in Exec \ {e} : d \in active' <=> /\ Live(d)' /\ job'[d].why \in {"none", "cancel"}
                                                  /\ job'[d].on = stream /\ link # "none"
      BY <1>3, <1>4, <1>5, <3>1
    <3>3. e \in active' <=> /\ Live(e)' /\ job'[e].why \in {"none", "cancel"}
                            /\ job'[e].on = stream /\ link # "none"
      BY <1>3, <1>4, <3>1
    <3>4. active' \subseteq Exec
      BY <1>2 DEF JobType
    <3> QED BY <3>2, <3>3, <3>4
  <2>2. state = "stopped" => active' = {}
    BY DEF StreamInv, ActiveInv
  <2> QED BY <2>1, <2>2 DEF ActiveInv
<1>7. JobInv'
  <2>1. ASSUME NEW d \in Exec, d # e, Live(d)'
        PROVE  /\ job'[d].on \in 1 .. stream'
               /\ job'[d].why = "none" => d \in active'
               /\ job'[d].why = "stop" => state' = "stopped" /\ job'[d].on = stream'
               /\ job'[d].pc = "compensating" => job'[d].undo > 0
               /\ job'[d].pc = "stepping" => Todo(d)' # {}
    BY <1>3, <1>4, <1>5, <2>1 DEF StreamInv, JobInv
  <2>2. ASSUME Live(e)'
        PROVE  /\ job'[e].on \in 1 .. stream'
               /\ job'[e].why = "none" => e \in active'
               /\ job'[e].why = "stop" => state' = "stopped" /\ job'[e].on = stream'
               /\ job'[e].pc = "compensating" => job'[e].undo > 0
               /\ job'[e].pc = "stepping" => Todo(e)' # {}
    <3>1. Todo(e)' = (1 .. Steps[e[1]]) \ (j.memo \cup j.ran)
      BY <1>3 DEF Todo
    <3> QED BY <1>1, <1>3, <1>4, <2>2, <3>1 DEF StreamInv, JobInv
  <2> QED BY <2>1, <2>2 DEF JobInv
<1> QED BY <1>2, <1>6, <1>7

\* What an assignment does to the worker: it is passed over, answered, or accepted
\* by a worker in service with a free slot.
LEMMA AssignCases ==
  ASSUME StreamInv, NEW e \in Exec, Assign(e)
  PROVE  /\ main = "reading" /\ state # "stopped" /\ link # "none" /\ stream \in 1 .. MaxStreams
         /\ UNCHANGED <<state, main, drain, stream, link, done, faults>>
         /\ run' = [run EXCEPT ![e[1]].phase = "assigned"]
         /\ \/ Silent /\ UNCHANGED <<active, job>>
            \/ Send(<<Answer("nack", e)>>) /\ UNCHANGED <<active, job>>
            \/ /\ Accept(e) /\ state # "draining" /\ e \notin active
               /\ ~(Cardinality(active) >= MaxConcurrent)
<1>1. main = "reading" /\ state # "stopped" /\ link # "none"
  BY DEF Assign, StreamInv, LinkInv
<1>2. stream \in 1 .. MaxStreams
  BY <1>1 DEF StreamInv, LinkInv, TypeInv, WireType
<1>3. HandleJobAssignment(e)
  BY DEF Assign
<1>4. \/ Silent /\ UNCHANGED <<active, job>>
      \/ Send(<<Answer("nack", e)>>) /\ UNCHANGED <<active, job>>
      \/ /\ Accept(e) /\ state # "draining" /\ e \notin active
         /\ ~(Cardinality(active) >= MaxConcurrent)
  <2>1. CASE \E a \in active : Key(a) = Key(e)
    BY <1>3, <2>1 DEF HandleJobAssignment
  <2>2. CASE ~\E a \in active : Key(a) = Key(e)
    <3>1. e \notin active
      BY <2>2
    <3>2. IF state = "draining" \/ Cardinality(active) >= MaxConcurrent
          THEN Nack(e) ELSE Accept(e)
      BY <1>3, <2>2 DEF HandleJobAssignment
    <3> QED BY <3>1, <3>2 DEF Nack
  <2> QED BY <2>1, <2>2
<1> QED BY <1>1, <1>2, <1>4 DEF Assign, worker

LEMMA AssignStep ==
  ASSUME StreamingAssumption, StreamInv, NEW e \in Exec, Assign(e)
  PROVE  StreamInv'
<1>1. /\ main = "reading" /\ state # "stopped" /\ link # "none" /\ stream \in 1 .. MaxStreams
      /\ UNCHANGED <<state, main, drain, stream, link, done, faults>>
      /\ run' = [run EXCEPT ![e[1]].phase = "assigned"]
      /\ \/ Silent /\ UNCHANGED <<active, job>>
         \/ Send(<<Answer("nack", e)>>) /\ UNCHANGED <<active, job>>
         \/ /\ Accept(e) /\ state # "draining" /\ e \notin active
            /\ ~(Cardinality(active) >= MaxConcurrent)
  BY AssignCases
<1>2. EngineType'
  <2>1. run \in [Jobs -> RunRecord] /\ e[1] \in Jobs
    BY ExecParts DEF StreamInv, TypeInv, EngineType
  <2>2. [run[e[1]] EXCEPT !.phase = "assigned"] \in RunRecord
    BY <2>1 DEF RunRecord
  <2> HIDE DEF RunRecord
  <2>3. run' \in [Jobs -> RunRecord]
    BY <1>1, <2>1, <2>2
  <2> QED BY <1>1, <2>3 DEF StreamInv, TypeInv, EngineType
<1>3. WorkerType' /\ LinkInv'
  BY <1>1 DEF StreamInv, TypeInv, WorkerType, LinkInv
<1>4. /\ <<Answer("nack", e)>> \in Seq(Sent) /\ <<Answer("ack", e)>> \in Seq(Sent)
      /\ <<Answer("ack", e), Answer("fatal", e)>> \in Seq(Sent)
  <2>1. /\ Answer("nack", e) \in Sent /\ Answer("ack", e) \in Sent
        /\ Answer("fatal", e) \in Sent
    BY <1>1, AnswerSent DEF Reports
  <2> QED BY <2>1, ShortSequences
<1>5. ASSUME NEW msgs \in Seq(Sent), Send(msgs)
      PROVE  WireType'
  BY <1>1, <1>5, SendType DEF StreamInv, TypeInv, WireType
<1>6. CASE UNCHANGED <<active, job>>
  <2>1. JobType' /\ ActiveInv' /\ JobInv'
    BY <1>1, <1>6, StateStays
  <2>2. WireType'
    <3>1. CASE Silent
      BY <1>1, <3>1 DEF Silent, StreamInv, TypeInv, WireType
    <3>2. CASE Send(<<Answer("nack", e)>>)
      BY <1>4, <1>5, <3>2
    <3>3. CASE Accept(e) /\ e \notin active
      <4>1. CASE Send(<<Answer("ack", e)>>)
        BY <1>4, <1>5, <4>1
      <4>2. CASE Send(<<Answer("ack", e), Answer("fatal", e)>>)
        BY <1>4, <1>5, <4>2
      <4> QED BY <3>3, <4>1, <4>2 DEF Accept
    <3> QED BY <1>1, <3>1, <3>2, <3>3
  <2> QED BY <1>2, <1>3, <2>1, <2>2 DEF StreamInv, TypeInv
<1>7. CASE Accept(e) /\ e \notin active /\ ~(Cardinality(active) >= MaxConcurrent)
  <2>1. IsFiniteSet(active) /\ Cardinality(active) \in Nat
    BY FS_CardinalityType DEF StreamInv, ActiveInv
  <2>2. /\ IsFiniteSet(active \cup {e}) /\ Cardinality(active \cup {e}) <= MaxConcurrent
        /\ IsFiniteSet(active) /\ Cardinality(active) <= MaxConcurrent
    <3>1. IsFiniteSet(active \cup {e}) /\ Cardinality(active \cup {e}) = Cardinality(active) + 1
      BY <1>7, <2>1, FS_AddElement
    <3>2. MaxConcurrent \in Nat /\ Cardinality(active) < MaxConcurrent
      BY <1>7, <2>1 DEF StreamingAssumption
    <3> QED BY <2>1, <3>1, <3>2
  <2>3. CASE /\ Send(<<Answer("ack", e)>>)
             /\ job' = [job EXCEPT ![e] = [Idle EXCEPT !.pc = "running", !.on = stream,
                                                       !.memo = done[e[1]]]]
             /\ active' = active \cup {e}
    <3> DEFINE j == [Idle EXCEPT !.pc = "running", !.on = stream, !.memo = done[e[1]]]
    <3>1. done[e[1]] \in SUBSET Nat
      BY ExecParts DEF StreamInv, TypeInv, EngineType
    <3>2. j \in JobRecord /\ j.pc = "running" /\ j.on = stream /\ j.on > 0 /\ j.why = "none"
      <4>1. stream \in 0 .. MaxStreams /\ stream > 0
        BY <1>1
      <4> DEFINE Started(i) == [i EXCEPT !.pc = "running", !.on = stream,
                                         !.memo = done[e[1]]]
      <4>2. \A i \in JobRecord :
              /\ Started(i) \in JobRecord /\ Started(i).pc = "running"
              /\ Started(i).on = stream /\ Started(i).why = i.why
        BY <3>1, <4>1 DEF JobRecord, Pcs
      <4>3. Idle \in JobRecord /\ Idle.why = "none"
        BY IdleType
      <4>4. j = Started(Idle)
        OBVIOUS
      <4> HIDE DEF Started
      <4> HIDE DEF j
      <4> QED BY <4>1, <4>2, <4>3, <4>4
    <3> HIDE DEF j
    <3>3. job' = [job EXCEPT ![e] = j] /\ active' = active \cup {e}
      BY <2>3 DEF j
    <3>4. JobType' /\ ActiveInv' /\ JobInv'
      <4>1. IsFiniteSet(active') /\ Cardinality(active') <= MaxConcurrent
        BY <2>2, <3>3
      <4>2. UNCHANGED <<state, stream, link>> /\ state # "stopped" /\ link # "none"
        BY <1>1
      <4> QED BY <3>2, <3>3, <4>1, <4>2, OneJobChanges
    <3>5. WireType'
      BY <1>4, <1>5, <2>3
    <3> QED BY <1>2, <1>3, <3>4, <3>5 DEF StreamInv, TypeInv
  <2>4. CASE /\ Send(<<Answer("ack", e), Answer("fatal", e)>>)
             /\ job' = [job EXCEPT ![e] = Over]
             /\ UNCHANGED active
    <3>1. Over \in JobRecord /\ Over.pc = "over"
      BY IdleType
    <3>2. active' = active \ {e}
      BY <1>7, <2>4
    <3>3. JobType' /\ ActiveInv' /\ JobInv'
      <4>1. IsFiniteSet(active') /\ Cardinality(active') <= MaxConcurrent
        BY <2>2, <2>4
      <4>2. UNCHANGED <<state, stream, link>>
        BY <1>1
      <4> QED BY <2>4, <3>1, <3>2, <4>1, <4>2, OneJobChanges
    <3>4. WireType'
      BY <1>4, <1>5, <2>4
    <3> QED BY <1>2, <1>3, <3>3, <3>4 DEF StreamInv, TypeInv
  <2> QED BY <1>7, <2>3, <2>4 DEF Accept
<1> QED BY <1>1, <1>6, <1>7

-----------------------------------------------------------------------------
(* What a job does preserves the invariant. *)

\* A message of execution e, computed for the stream it was assigned on.
OfJob(e, m) ==
  /\ m \in Sent /\ m.on = job[e].on /\ m.why = job[e].why
  /\ m.why = "closed" => m.m = "fatal"

\* A step of a job: it goes on or is over, and says nothing or one thing.
JobGoes(e) ==
  \E j \in JobRecord :
    /\ job' = [job EXCEPT ![e] = j]
    /\ \/ j.pc = "over" /\ active' = active \ {e}
       \/ /\ j.pc \notin {"none", "over"} /\ active' = active
          /\ j.on = job[e].on /\ j.why = job[e].why
    /\ j.pc = "compensating" => j.undo > 0
    /\ j.pc = "stepping" => (1 .. Steps[e[1]]) \ (j.memo \cup j.ran) # {}

Says(e) == Silent \/ \E m \in Sent : OfJob(e, m) /\ Send(<<m>>)

LEMMA LeavesGoes ==
  ASSUME StreamingAssumption, NEW e \in Exec, Leaves(e)
  PROVE  JobGoes(e)
<1>1. Over \in JobRecord /\ Over.pc = "over"
  BY IdleType
<1>2. job' = [job EXCEPT ![e] = Over] /\ active' = active \ {e}
  BY DEF Leaves
<1> HIDE DEF JobRecord
<1> QED BY <1>1, <1>2 DEF JobGoes

LEMMA ExecuteCases ==
  ASSUME StreamingAssumption, StreamInv, NEW e \in Exec, Execute(e)
  PROVE  /\ Live(e) /\ JobGoes(e) /\ Says(e)
         /\ UNCHANGED <<state, main, drain, stream, link, run, done, faults>>
<1>1. /\ job[e] \in JobRecord
      /\ job[e].pc \in Pcs /\ job[e].why \in Whys /\ job[e].on \in 0 .. MaxStreams
      /\ job[e].memo \in SUBSET Nat /\ job[e].ran \in SUBSET Nat /\ job[e].bad \in BOOLEAN
      /\ job[e].undo \in 0 .. Undos
  BY JobFields DEF StreamInv, TypeInv
<1>2. Live(e) => job[e].on \in 1 .. MaxStreams
  BY <1>1 DEF StreamInv, JobInv, TypeInv, WireType
<1>3. ASSUME Live(e), NEW kind \in {"done", "undone"} \cup Reports,
             job[e].why = "closed" => kind = "fatal"
      PROVE  /\ OfJob(e, Message(kind, e))
             /\ \A i \in Nat : OfJob(e, StepMessage(e, kind, i))
  <2>1. JobType
    BY DEF StreamInv, TypeInv
  <2> QED BY <1>2, <1>3, <2>1, MessageSent DEF OfJob
<1>4. ASSUME Goto(e, job'[e]) \/ Leaves(e)
      PROVE  UNCHANGED <<state, main, drain, stream, link, run, done, faults>>
  BY <1>4 DEF Goto, Leaves, worker, engine
<1> DEFINE Result == /\ Live(e) /\ JobGoes(e) /\ Says(e)
                     /\ UNCHANGED <<state, main, drain, stream, link, run, done, faults>>
<1>5. ASSUME StepStarts(e) PROVE Result
  <2>1. job[e].pc = "running" /\ Todo(e) # {} /\ Silent
    BY <1>5 DEF StepStarts
  <2> DEFINE j == [job[e] EXCEPT !.pc = "stepping"]
  <2>2. Goto(e, j)
    BY <1>5 DEF StepStarts
  <2>3. j \in JobRecord /\ j.pc = "stepping" /\ j.on = job[e].on /\ j.why = job[e].why
        /\ j.memo = job[e].memo /\ j.ran = job[e].ran
    BY <1>1 DEF JobRecord, Pcs
  <2> HIDE DEF j
  <2>4. JobGoes(e)
    <3>1. (1 .. Steps[e[1]]) \ (j.memo \cup j.ran) # {}
      BY <2>1, <2>3 DEF Todo
    <3>2. job' = [job EXCEPT ![e] = j] /\ active' = active
      BY <2>2 DEF Goto
    <3> HIDE DEF JobRecord
    <3> QED BY <2>3, <3>1, <3>2 DEF JobGoes
  <2>5. UNCHANGED <<state, main, drain, stream, link, run, done, faults>>
    BY <2>2 DEF Goto, worker, engine
  <2> QED BY <2>1, <2>4, <2>5 DEF Live, Says
<1>6. ASSUME NEW kind \in {"done", "undone", "bad"}, StepEnds(e, kind) PROVE Result
  <2>1. job[e].pc = "stepping" /\ Live(e)
    BY <1>6 DEF StepEnds, Live
  <2>2. NextStep(e) \in Nat
    BY <2>1, NextStepTodo DEF StreamInv, JobInv
  <2> DEFINE j == [job[e] EXCEPT !.pc = "running", !.bad = @ \/ kind = "bad",
                                 !.ran = @ \cup {NextStep(e)}]
  <2>3. Goto(e, j) /\ OnStepResult(e, kind)
    BY <1>6 DEF StepEnds
  <2>4. j \in JobRecord /\ j.pc = "running" /\ j.on = job[e].on /\ j.why = job[e].why
    <3>1. \A b \in BOOLEAN, r \in SUBSET Nat :
            LET n == [job[e] EXCEPT !.pc = "running", !.bad = b, !.ran = r]
            IN  n \in JobRecord /\ n.pc = "running" /\ n.on = job[e].on /\ n.why = job[e].why
      BY <1>1 DEF JobRecord, Pcs
    <3>2. (job[e].bad \/ kind = "bad") \in BOOLEAN
      OBVIOUS
    <3>3. (job[e].ran \cup {NextStep(e)}) \in SUBSET Nat
      BY <1>1, <2>2
    <3> QED BY <3>1, <3>2, <3>3
  <2> HIDE DEF j
  <2>5. JobGoes(e)
    <3>1. job' = [job EXCEPT ![e] = j] /\ active' = active
      BY <2>3 DEF Goto
    <3> HIDE DEF JobRecord
    <3> QED BY <2>4, <3>1 DEF JobGoes
  <2>6. Says(e)
    <3>1. CASE job[e].why = "closed" \/ kind = "bad"
      BY <2>3, <3>1 DEF OnStepResult, Says
    <3>2. CASE ~(job[e].why = "closed" \/ kind = "bad")
      <4>1. OfJob(e, StepMessage(e, kind, NextStep(e)))
        BY <1>3, <2>1, <2>2, <3>2
      <4>2. Send(<<StepMessage(e, kind, NextStep(e))>>)
        BY <2>3, <3>2 DEF OnStepResult
      <4> QED BY <4>1, <4>2 DEF Says, OfJob
    <3> QED BY <3>1, <3>2
  <2>7. UNCHANGED <<state, main, drain, stream, link, run, done, faults>>
    BY <2>3 DEF Goto, worker, engine
  <2> QED BY <2>1, <2>5, <2>6, <2>7
<1>7. ASSUME Leaves(e)
      PROVE  JobGoes(e) /\ UNCHANGED <<state, main, drain, stream, link, run, done, faults>>
  BY <1>4, <1>7, LeavesGoes
<1>8. ASSUME Live(e), NEW kind \in Reports, Send(<<Message(kind, e)>>),
             job[e].why = "closed" => kind = "fatal"
      PROVE  Says(e)
  <2>1. OfJob(e, Message(kind, e))
    BY <1>3, <1>8
  <2> QED BY <1>8, <2>1 DEF Says, OfJob
<1>9. ASSUME HandlerReturns(e) PROVE Result
  <2>1. Live(e) /\ Leaves(e)
    BY <1>9 DEF HandlerReturns, Live
  <2>2. Says(e)
    <3>1. CASE job[e].why = "closed"
      BY <1>9, <3>1 DEF HandlerReturns, Says
    <3>2. CASE job[e].why # "closed"
      BY <1>8, <1>9, <2>1, <3>2 DEF HandlerReturns, Reports
    <3> QED BY <3>1, <3>2
  <2> QED BY <1>7, <2>1, <2>2
<1>10. ASSUME NEW m \in {"yielded", "failed"}, HandlerPauses(e, m) PROVE Result
  <2>1. Live(e) /\ Leaves(e)
    BY <1>10 DEF HandlerPauses, Live
  <2>2. Says(e)
    <3>1. CASE job[e].why # "none"
      BY <1>10, <3>1 DEF HandlerPauses, Says
    <3>2. CASE job[e].why = "none"
      BY <1>8, <1>10, <2>1, <3>2 DEF HandlerPauses, Reports
    <3> QED BY <3>1, <3>2
  <2> QED BY <1>7, <2>1, <2>2
<1>11. ASSUME NEW undos \in 0 .. Undos, HandlerFails(e, undos) PROVE Result
  <2>1. Live(e)
    BY <1>11 DEF HandlerFails, Live
  <2>2. CASE job[e].why # "none"
    BY <1>7, <1>11, <2>1, <2>2 DEF HandlerFails, Says
  <2>3. CASE job[e].why = "none" /\ undos = 0
    BY <1>7, <1>8, <1>11, <2>1, <2>3 DEF HandlerFails, Reports
  <2>4. CASE job[e].why = "none" /\ undos # 0
    <3> DEFINE j == [job[e] EXCEPT !.pc = "compensating", !.undo = undos]
    <3>1. Goto(e, j) /\ Silent
      BY <1>11, <2>4 DEF HandlerFails
    <3>2. /\ j \in JobRecord /\ j.pc = "compensating" /\ j.on = job[e].on
          /\ j.why = job[e].why /\ j.undo > 0
      <4>1. undos > 0
        BY <2>4 DEF StreamingAssumption
      <4>2. j \in JobRecord /\ j.pc = "compensating" /\ j.on = job[e].on
            /\ j.why = job[e].why /\ j.undo = undos
        BY <1>1 DEF JobRecord, Pcs
      <4> HIDE DEF j
      <4> QED BY <4>1, <4>2
    <3> HIDE DEF j
    <3>3. JobGoes(e)
      <4>1. job' = [job EXCEPT ![e] = j] /\ active' = active
        BY <3>1 DEF Goto
      <4> HIDE DEF JobRecord
      <4> QED BY <3>2, <4>1 DEF JobGoes
    <3>4. UNCHANGED <<state, main, drain, stream, link, run, done, faults>>
      BY <3>1 DEF Goto, worker, engine
    <3> QED BY <2>1, <3>1, <3>3, <3>4 DEF Says
  <2> QED BY <2>2, <2>3, <2>4
<1>12. ASSUME UndoStarts(e) PROVE Result
  <2>1. Live(e) /\ Says(e) /\ job[e].pc = "compensating"
    BY <1>12 DEF UndoStarts, Live, Says
  <2>2. CASE job[e].why # "none"
    BY <1>7, <1>12, <2>1, <2>2 DEF UndoStarts
  <2>3. CASE job[e].why = "none"
    <3> DEFINE j == [job[e] EXCEPT !.pc = "undoing", !.undo = @ - 1]
    <3>1. Goto(e, j)
      BY <1>12, <2>3 DEF UndoStarts
    <3>2. job[e].undo - 1 \in 0 .. Undos
      BY <1>1, <2>1 DEF StreamInv, JobInv, StreamingAssumption
    <3>3. j \in JobRecord /\ j.pc = "undoing" /\ j.on = job[e].on /\ j.why = job[e].why
      <4>1. \A u \in 0 .. Undos :
              LET n == [job[e] EXCEPT !.pc = "undoing", !.undo = u]
              IN  n \in JobRecord /\ n.pc = "undoing" /\ n.on = job[e].on /\ n.why = job[e].why
        BY <1>1 DEF JobRecord, Pcs
      <4> QED BY <3>2, <4>1
    <3> HIDE DEF j
    <3>4. JobGoes(e)
      <4>1. job' = [job EXCEPT ![e] = j] /\ active' = active
        BY <3>1 DEF Goto
      <4> HIDE DEF JobRecord
      <4> QED BY <3>3, <4>1 DEF JobGoes
    <3>5. UNCHANGED <<state, main, drain, stream, link, run, done, faults>>
      BY <3>1 DEF Goto, worker, engine
    <3> QED BY <2>1, <3>4, <3>5
  <2> QED BY <2>2, <2>3
<1>13. ASSUME UndoEnds(e) PROVE Result
  <2>1. Live(e)
    BY <1>13 DEF UndoEnds, Live
  <2>2. CASE job[e].undo > 0
    <3> DEFINE j == [job[e] EXCEPT !.pc = "compensating"]
    <3>1. Goto(e, j) /\ Silent
      BY <1>13, <2>2 DEF UndoEnds
    <3>2. /\ j \in JobRecord /\ j.pc = "compensating" /\ j.on = job[e].on
          /\ j.why = job[e].why /\ j.undo > 0
      BY <1>1, <2>2 DEF JobRecord, Pcs
    <3> HIDE DEF j
    <3>3. JobGoes(e)
      <4>1. job' = [job EXCEPT ![e] = j] /\ active' = active
        BY <3>1 DEF Goto
      <4> HIDE DEF JobRecord
      <4> QED BY <3>2, <4>1 DEF JobGoes
    <3>4. UNCHANGED <<state, main, drain, stream, link, run, done, faults>>
      BY <3>1 DEF Goto, worker, engine
    <3> QED BY <2>1, <3>1, <3>3, <3>4 DEF Says
  <2>3. CASE ~(job[e].undo > 0)
    BY <1>7, <1>8, <1>13, <2>1, <2>3 DEF UndoEnds, Reports
  <2> QED BY <2>2, <2>3
<1> QED BY <1>5, <1>6, <1>9, <1>10, <1>11, <1>12, <1>13 DEF Execute

LEMMA ExecuteStep ==
  ASSUME StreamingAssumption, StreamInv, NEW e \in Exec, Execute(e)
  PROVE  StreamInv'
<1>1. /\ Live(e) /\ JobGoes(e) /\ Says(e)
      /\ UNCHANGED <<state, main, drain, stream, link, run, done, faults>>
  BY ExecuteCases
<1>2. PICK j \in JobRecord :
        /\ job' = [job EXCEPT ![e] = j]
        /\ \/ j.pc = "over" /\ active' = active \ {e}
           \/ /\ j.pc \notin {"none", "over"} /\ active' = active
              /\ j.on = job[e].on /\ j.why = job[e].why
        /\ j.pc = "compensating" => j.undo > 0
        /\ j.pc = "stepping" => (1 .. Steps[e[1]]) \ (j.memo \cup j.ran) # {}
  BY <1>1 DEF JobGoes
<1>3. IsFiniteSet(active') /\ Cardinality(active') <= MaxConcurrent
  <2>1. IsFiniteSet(active) /\ Cardinality(active) <= MaxConcurrent
    BY DEF StreamInv, ActiveInv, ActiveIsWhatRuns
  <2>2. active' \in SUBSET active
    BY <1>2
  <2>3. IsFiniteSet(active') /\ Cardinality(active') <= Cardinality(active)
        /\ Cardinality(active') \in Nat /\ Cardinality(active) \in Nat
    BY <2>1, <2>2, FS_Subset, FS_CardinalityType
  <2> QED BY <2>1, <2>3 DEF StreamingAssumption
<1>4. JobType' /\ ActiveInv' /\ JobInv'
  <2> HIDE DEF JobRecord
  <2> QED BY <1>1, <1>2, <1>3, OneJobChanges
<1>5. WireType'
  <2>1. CASE Silent
    BY <1>1, <2>1 DEF Silent, StreamInv, TypeInv, WireType
  <2>2. ASSUME NEW m \in Sent, Send(<<m>>) PROVE WireType'
    <3>1. <<m>> \in Seq(Sent)
      BY ShortSequences
    <3>2. outq' \in Seq(Sent) /\ lost' \in BOOLEAN
      BY <2>2, <3>1, SendType DEF StreamInv, TypeInv
    <3> QED BY <1>1, <3>2 DEF StreamInv, TypeInv, WireType
  <2> QED BY <1>1, <2>1, <2>2 DEF Says
<1>6. link = "none" => outq' = <<>>
  BY <1>1 DEF Says, Silent, Send, StreamInv, LinkInv
<1>7. WorkerType' /\ LinkInv' /\ EngineType'
  BY <1>1, <1>6, EngineStays DEF StreamInv, TypeInv, WorkerType, LinkInv
<1> QED BY <1>4, <1>5, <1>7 DEF StreamInv, TypeInv

-----------------------------------------------------------------------------
\* The invariant is inductive.
LEMMA StreamInit ==
  ASSUME StreamingAssumption, Init
  PROVE  StreamInv
<1>1. WorkerType /\ WireType
  <2>1. <<>> \in Seq(Sent)
    BY EmptySeq
  <2>2. 0 \in 0 .. MaxFaults /\ 0 \in 0 .. MaxStreams
    BY DEF StreamingAssumption
  <2> QED BY <2>1, <2>2 DEF Init, WorkerType, WireType
<1>2. JobType /\ \A e \in Exec : ~Live(e)
  <2>1. Idle \in JobRecord /\ Idle.pc = "none"
    BY IdleType
  <2> HIDE DEF JobRecord
  <2> QED BY <2>1 DEF Init, JobType, Live
<1>3. EngineType
  BY DEF Init, EngineType, RunRecord
<1>4. LinkInv /\ JobInv
  BY <1>2 DEF Init, LinkInv, JobInv
<1>5. ActiveInv
  <2>1. IsFiniteSet({}) /\ Cardinality({}) = 0 /\ 0 <= MaxConcurrent
    BY FS_EmptySet DEF StreamingAssumption
  <2> QED BY <1>2, <2>1 DEF Init, ActiveInv, ActiveIsWhatRuns
<1> QED BY <1>1, <1>2, <1>3, <1>4, <1>5 DEF StreamInv, TypeInv

LEMMA StreamStep ==
  ASSUME StreamingAssumption, StreamInv, [Next]_vars
  PROVE  StreamInv'
<1>1. CASE Lifecycle
  BY <1>1, StartsStep, DrainsStep, StopsStep, EndsStep, RegisteredStep DEF Lifecycle
<1>2. CASE EngineReads
  BY <1>2, EngineReadsStep
<1>3. ASSUME NEW e \in Exec, Assign(e) \/ Execute(e) PROVE StreamInv'
  BY <1>3, AssignStep, ExecuteStep
<1>4. ASSUME NEW j \in Jobs, HandleJobCancel(j) PROVE StreamInv'
  BY <1>4, CancelStep
<1>5. CASE UNCHANGED vars
  <2>1. UNCHANGED <<state, main, drain, stream, link, outq, active, job, run, done, lost, faults>>
    BY <1>5 DEF vars, worker, wire, engine
  <2>2. JobType' /\ ActiveInv' /\ JobInv'
    BY <2>1, StateStays
  <2>3. EngineType' /\ WireType' /\ WorkerType' /\ LinkInv'
    BY <2>1, EngineStays DEF StreamInv, TypeInv, WireType, WorkerType, LinkInv
  <2> QED BY <2>2, <2>3 DEF StreamInv, TypeInv
<1> QED BY <1>1, <1>2, <1>3, <1>4, <1>5 DEF Next

LEMMA StreamInductive ==
  ASSUME StreamingAssumption
  PROVE  Spec => []StreamInv
<1>1. Init => StreamInv
  BY StreamInit
<1>2. StreamInv /\ [Next]_vars => StreamInv'
  BY StreamStep
<1> QED BY <1>1, <1>2, PTL DEF Spec

\* The variables of the streaming worker and of its engine keep their types
\* (worker-streaming.ts), the next step of a job and the stream of a message included.
THEOREM StreamingTypes ==
  ASSUME StreamingAssumption
  PROVE  Spec => []TypeOK
<1>1. StreamInv => TypeOK
  BY DEF StreamInv, TypeInv, WorkerType, WireType, JobType, EngineType, TypeOK, JobRecord,
         RunRecord, Pcs, Whys
<1> QED BY <1>1, StreamInductive, PTL

\* activeJobs holds what runs for the stream in hand, no more and no less, and never
\* more than the slots (handleJobAssignment, handleJobCancel, connect).
THEOREM ActiveJobsRun ==
  ASSUME StreamingAssumption
  PROVE  Spec => []ActiveIsWhatRuns
<1>1. StreamInv => ActiveIsWhatRuns
  BY DEF StreamInv, ActiveInv
<1> QED BY <1>1, StreamInductive, PTL

-----------------------------------------------------------------------------
(* What is sent. *)

\* A message that may be sent on the stream in hand.
Timely(m) == m.on = stream \/ m.why = "cancel" \/ (m.why = "closed" /\ m.m = "fatal")

\* What a job says is of the stream in hand, unless it was aborted before.
LEMMA JobsAreTimely ==
  ASSUME StreamInv, NEW e \in Exec, Live(e), NEW m, OfJob(e, m)
  PROVE  Timely(m)
<1>1. job[e].why \in Whys
  BY JobFields DEF StreamInv, TypeInv
<1>2. CASE job[e].why = "none"
  <2>1. e \in active
    BY <1>2 DEF StreamInv, JobInv
  <2>2. job[e].on = stream
    BY <2>1 DEF StreamInv, ActiveInv, ActiveIsWhatRuns
  <2> QED BY <2>2 DEF OfJob, Timely
<1>3. CASE job[e].why = "stop"
  BY <1>3 DEF StreamInv, JobInv, OfJob, Timely
<1>4. CASE job[e].why \in {"cancel", "closed"}
  BY <1>4 DEF OfJob, Timely
<1> QED BY <1>1, <1>2, <1>3, <1>4 DEF Whys

LEMMA SendsTimely ==
  ASSUME WireType, LostStreamIsSilent, stream' = stream,
         NEW msgs \in Seq(Sent), \A i \in DOMAIN msgs : Timely(msgs[i]), Send(msgs)
  PROVE  LostStreamIsSilent'
<1>1. outq \in Seq(Sent)
  BY DEF WireType
<1>2. outq' = outq \/ outq' = outq \o msgs
  BY DEF Send
<1>3. CASE outq' = outq
  BY <1>3 DEF LostStreamIsSilent
<1>4. CASE outq' = outq \o msgs
  <2>1. /\ DOMAIN outq = 1 .. Len(outq) /\ DOMAIN msgs = 1 .. Len(msgs)
        /\ Len(outq) \in Nat /\ Len(msgs) \in Nat
        /\ outq' \in Seq(Sent) /\ DOMAIN outq' = 1 .. Len(outq) + Len(msgs)
        /\ \A i \in 1 .. Len(outq) + Len(msgs) :
             outq'[i] = IF i <= Len(outq) THEN outq[i] ELSE msgs[i - Len(outq)]
    BY <1>1, <1>4, ConcatProperties, LenProperties
  <2>2. ASSUME NEW i \in DOMAIN outq'
        PROVE  outq'[i].on = stream \/ outq'[i].why = "cancel"
                 \/ (outq'[i].why = "closed" /\ outq'[i].m = "fatal")
    <3>1. CASE i \in DOMAIN outq
      BY <2>1, <3>1 DEF LostStreamIsSilent
    <3>2. CASE i \notin DOMAIN outq
      <4>1. i - Len(outq) \in DOMAIN msgs /\ outq'[i] = msgs[i - Len(outq)]
        BY <2>1, <2>2, <3>2
      <4> QED BY <4>1 DEF Timely
    <3> QED BY <3>1, <3>2
  <2> QED BY <2>2 DEF LostStreamIsSilent
<1> QED BY <1>2, <1>3, <1>4

LEMMA SilentStep ==
  ASSUME StreamingAssumption, StreamInv, LostStreamIsSilent, [Next]_vars
  PROVE  LostStreamIsSilent'
<1>1. CASE UNCHANGED <<outq, stream>>
  BY <1>1 DEF LostStreamIsSilent
<1>2. CASE outq' = <<>>
  BY <1>2 DEF LostStreamIsSilent
<1>3. CASE EngineReads
  <2>1. outq \in Seq(Sent) /\ outq # <<>>
    BY <1>3 DEF EngineReads, StreamInv, TypeInv, WireType
  <2>2. outq' = Tail(outq) /\ stream' = stream
    BY <1>3 DEF EngineReads
  <2>3. \A i \in DOMAIN outq' : i + 1 \in DOMAIN outq /\ outq'[i] = outq[i + 1]
    BY <2>1, <2>2
  <2> QED BY <2>2, <2>3 DEF LostStreamIsSilent
<1>4. ASSUME NEW e \in Exec, Assign(e) PROVE LostStreamIsSilent'
  <2>1. /\ stream \in 1 .. MaxStreams /\ stream' = stream
        /\ \/ Silent
           \/ Send(<<Answer("nack", e)>>)
           \/ Accept(e)
    BY <1>4, AssignCases
  <2>2. WireType
    BY DEF StreamInv, TypeInv
  <2>3. ASSUME NEW kind \in {"ack", "nack", "fatal"}
        PROVE  Answer(kind, e) \in Sent /\ Timely(Answer(kind, e))
    BY <2>1, AnswerSent DEF Reports, Timely
  <2>4. ASSUME NEW a \in Sent, Timely(a), Send(<<a>>) PROVE LostStreamIsSilent'
    <3>1. <<a>> \in Seq(Sent)
      BY ShortSequences
    <3>2. \A i \in DOMAIN <<a>> : Timely(<<a>>[i])
      BY <2>4
    <3> QED BY <2>1, <2>2, <2>4, <3>1, <3>2, SendsTimely
  <2>5. ASSUME NEW a \in Sent, Timely(a), NEW b \in Sent, Timely(b), Send(<<a, b>>)
        PROVE  LostStreamIsSilent'
    <3>1. <<a, b>> \in Seq(Sent)
      BY ShortSequences
    <3>2. \A i \in DOMAIN <<a, b>> : Timely(<<a, b>>[i])
      BY <2>5
    <3> QED BY <2>1, <2>2, <2>5, <3>1, <3>2, SendsTimely
  <2>6. CASE Silent
    BY <1>1, <2>1, <2>6 DEF Silent
  <2>7. CASE Send(<<Answer("nack", e)>>)
    BY <2>3, <2>4, <2>7
  <2>8. CASE Send(<<Answer("ack", e)>>)
    BY <2>3, <2>4, <2>8
  <2>9. CASE Send(<<Answer("ack", e), Answer("fatal", e)>>)
    BY <2>3, <2>5, <2>9
  <2> QED BY <2>1, <2>6, <2>7, <2>8, <2>9 DEF Accept
<1>5. ASSUME NEW e \in Exec, Execute(e) PROVE LostStreamIsSilent'
  <2>1. Live(e) /\ Says(e) /\ stream' = stream
    BY <1>5, ExecuteCases
  <2>2. CASE Silent
    BY <1>1, <2>1, <2>2 DEF Silent
  <2>3. ASSUME NEW m \in Sent, OfJob(e, m), Send(<<m>>) PROVE LostStreamIsSilent'
    <3>1. WireType /\ <<m>> \in Seq(Sent)
      BY ShortSequences DEF StreamInv, TypeInv
    <3>2. Timely(m)
      BY <2>1, <2>3, JobsAreTimely
    <3>3. \A i \in DOMAIN <<m>> : Timely(<<m>>[i])
      BY <3>2
    <3> QED BY <2>1, <2>3, <3>1, <3>3, SendsTimely
  <2> QED BY <2>1, <2>2, <2>3 DEF Says
<1>6. ASSUME NEW j \in Jobs, HandleJobCancel(j) PROVE UNCHANGED <<outq, stream>>
  BY <1>6 DEF HandleJobCancel, wire
<1>7. CASE UNCHANGED vars
  BY <1>1, <1>7 DEF vars, wire
<1>8. ASSUME Lifecycle PROVE UNCHANGED <<outq, stream>> \/ outq' = <<>>
  <2>1. ASSUME Start \/ Connect \/ LeaveLoop \/ RegistrationFails \/ Retry \/ GeneratorReturns
                 \/ Stop \/ Drain \/ JobsDone \/ DrainDeadline \/ DrainReturns
        PROVE  UNCHANGED <<outq, stream>>
    BY <2>1 DEF Start, Connect, LeaveLoop, RegistrationFails, Retry, GeneratorReturns,
                Stop, Drain, JobsDone, DrainDeadline, DrainReturns, wire
  <2>2. ASSUME Refused \/ EngineCloses \/ StreamBreaks \/ StreamAborted PROVE outq' = <<>>
    BY <2>2 DEF Refused, EngineCloses, StreamBreaks, StreamAborted, CloseStream
  <2>3. ASSUME Registered PROVE UNCHANGED <<outq, stream>> \/ outq' = <<>>
    BY <2>3 DEF Registered, wire
  <2> QED BY <1>8, <2>1, <2>2, <2>3 DEF Lifecycle
<1> QED BY <1>1, <1>2, <1>3, <1>4, <1>5, <1>6, <1>7, <1>8 DEF Next

\* What was computed for a lost stream is not sent on the next, but by a job that was
\* cancelled before, or in its last compensation (onStepResult, executeTracedJob).
THEOREM LostStreamsAreSilent ==
  ASSUME StreamingAssumption
  PROVE  Spec => []LostStreamIsSilent
<1>1. Init => LostStreamIsSilent
  BY DEF Init, LostStreamIsSilent
<1>2. StreamInv /\ LostStreamIsSilent /\ [Next]_vars => LostStreamIsSilent'
  BY SilentStep
<1> QED BY <1>1, <1>2, StreamInductive, PTL DEF Spec

-----------------------------------------------------------------------------
(* The drain. *)

\* No action takes a worker that drains back into service.
LEMMA DrainingStep ==
  ASSUME Next
  PROVE  DrainingStays
<1> SUFFICES ASSUME state = "draining"
             PROVE  state' \in {"draining", "stopped"} /\ active' \subseteq active
                      /\ stream' = stream
  BY DEF DrainingStays
<1>1. ASSUME Lifecycle
      PROVE  state' \in {"draining", "stopped"} /\ active' \subseteq active /\ stream' = stream
  <2>1. ASSUME LeaveLoop \/ Stop \/ DrainDeadline \/ EngineCloses \/ StreamBreaks
                 \/ StreamAborted \/ Refused
        PROVE  state' \in {"draining", "stopped"} /\ active' \subseteq active
                 /\ stream' = stream
    BY <2>1 DEF LeaveLoop, Stop, DrainDeadline, EngineCloses, StreamBreaks, StreamAborted,
                Refused, StopWorker, AbortActive, CloseStream, wire
  <2>2. ASSUME Start \/ Connect \/ Registered \/ RegistrationFails \/ Retry
                 \/ GeneratorReturns \/ Drain \/ JobsDone \/ DrainReturns
        PROVE  state' \in {"draining", "stopped"} /\ active' \subseteq active
                 /\ stream' = stream
    BY <2>2 DEF Start, Connect, Registered, RegistrationFails, Retry, GeneratorReturns, Drain,
                JobsDone, DrainReturns, worker, wire
  <2> QED BY <1>1, <2>1, <2>2 DEF Lifecycle
<1>2. ASSUME EngineReads
      PROVE  state' \in {"draining", "stopped"} /\ active' \subseteq active /\ stream' = stream
  BY <1>2 DEF EngineReads, worker
<1>3. ASSUME NEW e \in Exec, Assign(e)
      PROVE  state' \in {"draining", "stopped"} /\ active' \subseteq active /\ stream' = stream
  <2>1. UNCHANGED active
    BY <1>3 DEF Assign, HandleJobAssignment, Nack
  <2> QED BY <1>3, <2>1 DEF Assign, worker
<1>4. ASSUME NEW e \in Exec, Execute(e)
      PROVE  state' \in {"draining", "stopped"} /\ active' \subseteq active /\ stream' = stream
  <2>1. Leaves(e) \/ Goto(e, job'[e]) \/ \E j : Goto(e, j)
    BY <1>4 DEF Execute, StepStarts, StepEnds, HandlerReturns, HandlerPauses, HandlerFails,
                UndoStarts, UndoEnds
  <2> QED BY <2>1 DEF Leaves, Goto, worker
<1>5. ASSUME NEW j \in Jobs, HandleJobCancel(j)
      PROVE  state' \in {"draining", "stopped"} /\ active' \subseteq active /\ stream' = stream
  BY <1>5 DEF HandleJobCancel, worker, wire
<1> QED BY <1>1, <1>2, <1>3, <1>4, <1>5 DEF Next

\* A worker that drains takes no job and opens no stream any more, whatever it was
\* doing when drain() was called (connect, start).
THEOREM DrainsStayDraining == Spec => DrainingIsFinal
<1>1. [Next]_vars => [DrainingStays]_vars
  BY DrainingStep
<1> QED BY <1>1, PTL DEF Spec, DrainingIsFinal

Undisturbed == faults = 0 /\ drain # "cut"

\* Without a fault, a call of stop() or a deadline, nothing runs without its stream,
\* and the worker stops by leaving its loop.
Kept == /\ ~lost
        /\ \A e \in Exec : Live(e) => e \in active /\ link = "open"
        /\ state = "stopped" => main = "done"

LEMMA KeptByControl ==
  ASSUME StreamingAssumption, StreamInv, Kept, faults \in Nat, faults' = 0, drain' # "cut",
         Lifecycle
  PROVE  Kept'
<1>1. ASSUME UNCHANGED <<active, job, lost>>, state' = "stopped" => main' = "done",
             link' = link \/ \A e \in Exec : ~Live(e)
      PROVE  Kept'
  <2>1. \A e \in Exec : Live(e)' <=> Live(e)
    BY <1>1 DEF Live
  <2> QED BY <1>1, <2>1 DEF Kept
<1>2. CASE Start \/ Connect \/ Retry \/ RegistrationFails
  <2>1. UNCHANGED <<active, job, lost, link>> /\ (state' = "stopped" => main' = "done")
    BY <1>2 DEF Start, Connect, Retry, RegistrationFails, wire, Kept
  <2> QED BY <1>1, <2>1
<1>3. CASE GeneratorReturns \/ Drain \/ JobsDone \/ DrainReturns
  <2>1. UNCHANGED <<active, job, lost>> /\ (state' = "stopped" => main' = "done")
    BY <1>3 DEF GeneratorReturns, Drain, JobsDone, DrainReturns, worker, Kept
  <2>2. link' = link \/ link = "ending" \/ active = {}
    BY <1>3 DEF GeneratorReturns, Drain, JobsDone, DrainReturns, wire
  <2>3. link' = link \/ \A e \in Exec : ~Live(e)
    BY <2>2 DEF Kept
  <2> QED BY <1>1, <2>1, <2>3
<1>4. CASE LeaveLoop
  <2>1. link = "none" /\ JobType
    BY <1>4 DEF LeaveLoop, StreamInv, LinkInv, TypeInv
  <2>2. AbortActive("stop") /\ UNCHANGED lost /\ main' = "done"
    BY <1>4 DEF LeaveLoop, StopWorker
  <2>3. \A e \in Exec : ~Live(e) /\ ~Live(e)'
    BY <2>1, <2>2, AbortStep DEF Kept
  <2> QED BY <2>2, <2>3 DEF Kept
<1>5. CASE EngineCloses
  <2>1. link = "half" /\ main = "reading" /\ outq = <<>> /\ JobType
    BY <1>5 DEF EngineCloses, StreamInv, TypeInv
  <2>2. AbortActive("closed") /\ lost' = (lost \/ Reporting(outq)) /\ state' = state
    BY <1>5 DEF EngineCloses, CloseStream
  <2>3. \A e \in Exec : ~Live(e) /\ ~Live(e)'
    BY <2>1, <2>2, AbortStep DEF Kept
  <2>4. ~Reporting(<<>>)
    BY DEF Reporting
  <2>5. ~lost'
    BY <2>1, <2>2, <2>4 DEF Kept
  <2>6. state' # "stopped"
    BY <2>1, <2>2 DEF Kept
  <2> QED BY <2>3, <2>5, <2>6 DEF Kept
<1>6. CASE Registered
  <2>1. link = "none" /\ UNCHANGED <<active, job, lost>>
    BY <1>6 DEF Registered, StreamInv, LinkInv
  <2>2. \A e \in Exec : ~Live(e)
    BY <2>1 DEF Kept
  <2>3. state' # "stopped"
    BY <1>6 DEF Registered, wire, Kept
  <2> QED BY <1>1, <2>1, <2>2, <2>3
<1>7. ~(Stop \/ DrainDeadline \/ StreamBreaks \/ Refused \/ StreamAborted)
  BY DEF Stop, DrainDeadline, StreamBreaks, Refused, StreamAborted, Kept
<1> QED BY <1>2, <1>3, <1>4, <1>5, <1>6, <1>7 DEF Lifecycle

\* A message is lost only without a stream.
LEMMA NothingIsLost ==
  ASSUME NEW msgs, Send(msgs), link = "open" \/ ~Reporting(msgs), ~lost
  PROVE  ~lost'
BY DEF Send

LEMMA KeptByAssign ==
  ASSUME StreamInv, Kept, NEW e \in Exec, Assign(e)
  PROVE  Kept'
<1>1. /\ state # "stopped" /\ link # "none" /\ UNCHANGED <<state, link>>
      /\ \/ Silent /\ UNCHANGED <<active, job>>
         \/ Send(<<Answer("nack", e)>>) /\ UNCHANGED <<active, job>>
         \/ Accept(e) /\ state # "draining"
  BY AssignCases
<1>2. CASE Silent /\ UNCHANGED <<active, job>>
  BY <1>1, <1>2 DEF Silent, Kept, Live
<1>3. CASE Send(<<Answer("nack", e)>>) /\ UNCHANGED <<active, job>>
  <2>1. ~Reporting(<<Answer("nack", e)>>)
    BY DEF Reporting, Answer, Reports
  <2>2. ~lost'
    BY <1>3, <2>1, NothingIsLost DEF Kept
  <2> QED BY <1>1, <1>3, <2>2 DEF Kept, Live
<1>4. CASE Accept(e) /\ state # "draining"
  <2>1. link = "open"
    BY <1>1, <1>4 DEF StreamInv, LinkInv, TypeInv, WireType
  <2>2. ~lost'
    BY <1>4, <2>1, NothingIsLost DEF Accept, Kept
  <2>3. \A d \in Exec : Live(d)' => d \in active'
    <3>1. /\ active \subseteq active'
          /\ \/ e \in active'
             \/ job' = [job EXCEPT ![e] = Over]
      BY <1>4 DEF Accept
    <3>2. \A d \in Exec : d # e => job'[d] = job[d]
      BY <1>4 DEF Accept, StreamInv, TypeInv, JobType
    <3>3. ASSUME NEW d \in Exec, d # e, Live(d)' PROVE d \in active'
      BY <3>1, <3>2, <3>3 DEF Live, Kept
    <3>4. ASSUME Live(e)' PROVE e \in active'
      <4>1. job' = [job EXCEPT ![e] = Over] => job'[e].pc = "over"
        BY DEF StreamInv, TypeInv, JobType, Over, Idle
      <4> QED BY <3>1, <3>4, <4>1 DEF Live
    <3> QED BY <3>3, <3>4
  <2> QED BY <1>1, <2>1, <2>2, <2>3 DEF Kept
<1> QED BY <1>1, <1>2, <1>3, <1>4

LEMMA KeptByExecute ==
  ASSUME StreamingAssumption, StreamInv, Kept, NEW e \in Exec, Execute(e)
  PROVE  Kept'
<1>1. Live(e) /\ JobGoes(e) /\ Says(e) /\ UNCHANGED <<state, main, link>>
  BY ExecuteCases
<1>2. link = "open" /\ e \in active
  BY <1>1 DEF Kept
<1>3. ~lost'
  BY <1>1, <1>2, NothingIsLost DEF Says, Silent, Kept
<1>4. /\ \A d \in Exec : d # e => job'[d] = job[d]
      /\ \/ active' = active
         \/ active' = active \ {e} /\ job'[e].pc = "over"
  BY <1>1 DEF JobGoes, StreamInv, TypeInv, JobType
<1>5. \A d \in Exec : Live(d)' => d \in active'
  BY <1>2, <1>4 DEF Live, Kept
<1> QED BY <1>1, <1>2, <1>3, <1>5 DEF Kept

LEMMA DrainStep ==
  ASSUME StreamingAssumption, StreamInv, Undisturbed => Kept, [Next]_vars
  PROVE  (Undisturbed => Kept)'
<1>1. faults \in Nat
  BY DEF StreamInv, TypeInv, WorkerType, StreamingAssumption
<1> SUFFICES ASSUME faults' = 0, drain' # "cut" PROVE Kept'
  BY DEF Undisturbed
<1>2. CASE Lifecycle
  <2>1. (faults' = faults \/ faults' = faults + 1) /\ (drain = "cut" => drain' = "cut")
    BY <1>2 DEF Lifecycle, Start, Connect, LeaveLoop, Registered, RegistrationFails, Retry,
         Refused, EngineCloses, StreamBreaks, StreamAborted, GeneratorReturns, Stop, Drain,
         JobsDone, DrainDeadline, DrainReturns, worker
  <2>2. Kept
    BY <1>1, <2>1 DEF Undisturbed
  <2> QED BY <1>1, <1>2, <2>2, KeptByControl
<1>3. CASE EngineReads
  BY <1>3 DEF EngineReads, worker, Undisturbed, Kept, Live
<1>4. ASSUME NEW e \in Exec, Assign(e) PROVE Kept'
  BY <1>4, KeptByAssign DEF Assign, worker, Undisturbed
<1>5. ASSUME NEW e \in Exec, Execute(e) PROVE Kept'
  <2>1. UNCHANGED <<faults, drain>>
    BY <1>5, ExecuteCases
  <2> QED BY <1>5, <2>1, KeptByExecute DEF Undisturbed
<1>6. ASSUME NEW j \in Jobs, HandleJobCancel(j) PROVE Kept'
  <2>1. Kept /\ UNCHANGED <<state, main, link, active, lost>>
    BY <1>6 DEF HandleJobCancel, worker, wire, Undisturbed
  <2>2. \A e \in Exec : Live(e)' => Live(e)
    <3> SUFFICES ASSUME NEW e \in Exec PROVE job'[e].pc = job[e].pc
      BY DEF Live
    <3>1. job[e] \in JobRecord /\ "cancel" \in Whys
      BY JobFields DEF StreamInv, TypeInv, Whys
    <3>2. Abort(job[e], "cancel").pc = job[e].pc
      BY <3>1, Aborted
    <3> QED BY <1>6, <3>2 DEF HandleJobCancel
  <2> QED BY <2>1, <2>2 DEF Kept
<1>7. CASE UNCHANGED vars
  BY <1>7 DEF vars, worker, wire, Undisturbed, Kept, Live
<1> QED BY <1>2, <1>3, <1>4, <1>5, <1>6, <1>7 DEF Next

\* A drain of a worker that nothing disturbs ends with every report read by the engine
\* (drainWithin, outgoingMessages).
THEOREM DrainsDeliver ==
  ASSUME StreamingAssumption
  PROVE  Spec => []DrainDelivers
<1>1. Init => (Undisturbed => Kept)
  <2>1. ASSUME Init PROVE \A e \in Exec : ~Live(e)
    BY <2>1 DEF Init, Live, Idle
  <2> QED BY <2>1 DEF Init, Kept
<1>2. StreamInv /\ (Undisturbed => Kept) /\ [Next]_vars => (Undisturbed => Kept)'
  BY DrainStep
<1>3. (Undisturbed => Kept) => DrainDelivers
  BY DEF Undisturbed, Kept, DrainDelivers
<1> QED BY <1>1, <1>2, <1>3, StreamInductive, PTL DEF Spec
=============================================================================
