-------------------------- MODULE JobWorkerProofs --------------------------
(***************************************************************************)
(* What TLAPS proves of JobWorker for any runs, steps, slots and sizes of  *)
(* a checkpoint.                                                           *)
(*                                                                         *)
(* Of the jobs, where only the shape of their records matters: nothing the *)
(* worker started outlives stop(), its jobs never exceed its slots, what an*)
(* aborted job did is not sent, no handler is entered twice for one        *)
(* execution, and a drain takes no job and keeps the heartbeat.            *)
(*                                                                         *)
(* Of the steps they persist: a run's steps are numbered without a gap and *)
(* none completes twice, a completed run has them all, and no request      *)
(* repeats a step whose storing was confirmed.  The rows of a run are those*)
(* an execution found when it was taken up, numbered below its base, and   *)
(* the first w of the steps it has recorded, in order, where w is at least *)
(* its cursor: checkpoints the engine stored but the worker did not hear of*)
(* lie in between.  Only the current execution of a run is accepted, so    *)
(* that nobody else adds any.                                              *)
(***************************************************************************)
EXTENDS JobWorker, FiniteSetTheorems, SequenceTheorems, WellFoundedInduction,
        NaturalsInduction, TLAPS

Fields == DOMAIN Idle

Finished(j) == j.pc \in {"none", "over"}

\* The inductive strengthening of NothingOutlivesStop: a job that is not over is
\* one of activeJobs, where stop() finds it, or was aborted before.
StopInv ==
  /\ DOMAIN job = Exec
  /\ \A e \in Exec : DOMAIN job[e] = Fields
  /\ \A e \in Exec : job[e].aborted => job[e].off
  /\ \A e \in Exec \ active : job[e].aborted \/ Finished(job[e])
  /\ state = "stopped" => ~heart /\ active = {}

\* What no step of a job undoes: its abort, with which its checkpointer is
\* cancelled, and its end.
Keeps(j, k) == /\ DOMAIN k = Fields
               /\ j.aborted => k.aborted
               /\ (j.aborted => j.off) => (k.aborted => k.off)
               /\ Finished(j) => Finished(k)

-----------------------------------------------------------------------------
(* The operators of the checkpointer keep that discipline. *)

LEMMA ShapeOfIdle ==
  /\ Fields = {"pc", "aborted", "memo", "base", "steps", "cursor", "sending",
               "queued", "timer", "off", "outcome", "heard"}
  /\ Idle.pc = "none" /\ ~Idle.aborted
BY DEF Fields, Idle

LEMMA ShapeOfOver == DOMAIN Over = Fields /\ Over.pc = "over" /\ ~Over.aborted
BY ShapeOfIdle DEF Over, Fields, Idle

LEMMA AbortedKeeps ==
  ASSUME NEW j, DOMAIN j = Fields
  PROVE  Keeps(j, Aborted(j)) /\ Aborted(j).aborted /\ Aborted(j).off
BY ShapeOfIdle DEF Keeps, Aborted, Finished

LEMMA KeepsThrough ==
  ASSUME NEW i, NEW j, NEW k, Keeps(i, j), Keeps(j, k)
  PROVE  Keeps(i, k)
BY DEF Keeps

LEMMA SettledKeeps ==
  ASSUME NEW j, DOMAIN j = Fields
  PROVE  Keeps(j, Settled(j))
BY ShapeOfIdle DEF Keeps, Settled, Finished

LEMMA SendKeeps ==
  ASSUME NEW j, DOMAIN j = Fields
  PROVE  Keeps(j, Send(j))
BY ShapeOfIdle DEF Keeps, Send, Finished

LEMMA FlushKeeps ==
  ASSUME NEW j, DOMAIN j = Fields
  PROVE  Keeps(j, Flush(j))
BY ShapeOfIdle, SendKeeps DEF Keeps, Flush, Finished

LEMMA ChainNextKeeps ==
  ASSUME NEW j, DOMAIN j = Fields
  PROVE  Keeps(j, ChainNext(j))
<1> DEFINE i == [j EXCEPT !.sending = 0]
           k == Send(i)
<1>1. Keeps(j, i)
  BY ShapeOfIdle DEF Keeps, Finished
<1>2. Keeps(j, k)
  BY <1>1, SendKeeps, KeepsThrough DEF Keeps
<1>3. Keeps(k, [k EXCEPT !.queued = @ - 1])
  BY <1>2, ShapeOfIdle DEF Keeps, Finished
<1>4. Keeps(j, [k EXCEPT !.queued = @ - 1])
  BY <1>2, <1>3, KeepsThrough
<1>5. Keeps(j, [j EXCEPT !.sending = 0, !.queued = 0])
  BY ShapeOfIdle DEF Keeps, Finished
<1> HIDE DEF i, k
<1>6. ChainNext(j) \in {[k EXCEPT !.queued = k.queued - 1],
                        [j EXCEPT !.sending = 0, !.queued = 0]}
  BY DEF ChainNext, i, k
<1> QED BY <1>4, <1>5, <1>6

LEMMA FinishKeeps ==
  ASSUME NEW j, NEW o, DOMAIN j = Fields, ~Finished(j)
  PROVE  Keeps(j, Finish(j, o))
<1> DEFINE k == [j EXCEPT !.pc = "finishing", !.outcome = o, !.timer = FALSE]
<1>1. Keeps(j, k)
  BY ShapeOfIdle DEF Keeps, Finished
<1>2. Keeps(k, Settled(k))
  BY <1>1, SettledKeeps DEF Keeps
<1> QED BY <1>1, <1>2, KeepsThrough DEF Finish

LEMMA RecordedKeeps ==
  ASSUME NEW j, NEW s, DOMAIN j = Fields
  PROVE  Keeps(j, Recorded(j, s))
BY ShapeOfIdle DEF Keeps, Recorded, Finished

LEMMA EndsKeep ==
  ASSUME NEW j, NEW o, DOMAIN j = Fields, ~Finished(j), NEW k \in Ends(j, o)
  PROVE  Keeps(j, k)
<1>1. ASSUME NEW p PROVE Keeps(j, [j EXCEPT !.pc = "compensating", !.outcome = p])
  BY ShapeOfIdle DEF Keeps, Finished
<1> QED BY <1>1, FinishKeeps DEF Ends

-----------------------------------------------------------------------------
(* One step of a job, and stop(). *)

\* Every step of a job is one that keeps the discipline.
JobSteps(e) == \E k : Becomes(e, k) /\ Keeps(job[e], k) /\ UNCHANGED worker

LEMMA StepOfJob ==
  ASSUME StopInv, NEW e \in Exec, JobSteps(e)
  PROVE  StopInv'
<1>0. PICK k : Becomes(e, k) /\ Keeps(job[e], k) /\ UNCHANGED worker
  BY DEF JobSteps
<1>1. job' = [job EXCEPT ![e] = job'[e]]
  BY <1>0 DEF Becomes, StopInv
<1>2. DOMAIN job'[e] = Fields /\ job'[e].pc = k.pc
      /\ (job'[e] = k \/ Finished(job'[e]))
  BY <1>0, ShapeOfOver DEF Becomes, StopInv, Keeps, Finished
<1>3. e \notin active' => job'[e].aborted \/ Finished(job'[e])
  BY <1>0, <1>2 DEF Becomes, StopInv, Keeps, Finished
<1>4. active' \subseteq active /\ active \subseteq active' \cup {e}
  BY <1>0 DEF Becomes
<1>5. \A q \in Exec \ {e} : job'[q] = job[q]
  BY <1>1 DEF StopInv
<1>6. DOMAIN job' = Exec
  BY <1>1 DEF StopInv
<1>7. \A q \in Exec : DOMAIN job'[q] = Fields
  BY <1>2, <1>5 DEF StopInv
<1>10. \A q \in Exec : job'[q].aborted => job'[q].off
  <2>1. job'[e].aborted => job'[e].off
    BY <1>0, ShapeOfOver DEF Becomes, StopInv, Keeps
  <2> QED BY <2>1, <1>5 DEF StopInv
<1>8. \A q \in Exec \ active' : job'[q].aborted \/ Finished(job'[q])
  <2> SUFFICES ASSUME NEW q \in Exec \ active'
               PROVE  job'[q].aborted \/ Finished(job'[q])
    OBVIOUS
  <2>1. CASE q = e
    BY <2>1, <1>3
  <2>2. CASE q # e
    BY <2>2, <1>4, <1>5 DEF StopInv
  <2> QED BY <2>1, <2>2
<1>9. state' = "stopped" => ~heart' /\ active' = {}
  BY <1>0, <1>4 DEF StopInv, worker
<1> QED BY <1>6, <1>7, <1>8, <1>9, <1>10 DEF StopInv, Finished

LEMMA StopStops ==
  ASSUME StopInv, StopWorker
  PROVE  StopInv'
<1>1. DOMAIN job' = Exec
  BY DEF StopWorker
<1>2. ASSUME NEW e \in Exec
      PROVE  /\ DOMAIN job'[e] = Fields
             /\ job'[e].aborted \/ Finished(job'[e])
             /\ job'[e].aborted => job'[e].off
  <2>1. job'[e] = IF e \in active THEN Aborted(job[e]) ELSE job[e]
    BY DEF StopWorker
  <2> QED BY <2>1, AbortedKeeps DEF StopInv, Keeps
<1> QED BY <1>1, <1>2 DEF StopInv, StopWorker, Finished

LEMMA OthersKeep ==
  ASSUME StopInv, UNCHANGED <<active, job>>,
         state' = "stopped" => state = "stopped" /\ heart' = heart
  PROVE  StopInv'
BY DEF StopInv, Finished

LEMMA LifecycleStep ==
  ASSUME StopInv, Lifecycle
  PROVE  StopInv'
<1>1. CASE Stop \/ Refused \/ DrainStops
  BY <1>1, StopStops DEF Stop, Refused, DrainStops
<1>2. CASE Drain
  <2>1. CASE active = {}
    BY <1>2, <2>1, StopStops DEF Drain
  <2>2. CASE active # {}
    BY <1>2, <2>2, OthersKeep DEF Drain
  <2> QED BY <2>1, <2>2
<1>3. CASE Start \/ Connect \/ LeaveLoop \/ StartReturns \/ FunctionsRegistered
           \/ ConnectFails \/ ConnectAborted \/ Retry
  BY <1>3, OthersKeep DEF Start, Connect, LeaveLoop, StartReturns,
       FunctionsRegistered, ConnectFails, ConnectAborted, Retry, Goto
<1>4. CASE WorkerRegistered
  BY <1>4, OthersKeep DEF WorkerRegistered
<1>5. CASE Poll \/ PollEnds \/ PollFails \/ PollAborted \/ NotFound \/ DrainDeadline
  BY <1>5, OthersKeep DEF Poll, PollEnds, PollFails, PollAborted, NotFound, PollOver,
       Goto, DrainDeadline
<1>6. ASSUME NEW es \in SUBSET Exec, Assign(es) \/ AssignUnheard(es)
      PROVE  StopInv'
  BY <1>6, OthersKeep DEF Assign, AssignUnheard
<1>7. ASSUME NEW es \in SUBSET Exec, ProcessJobs(es)
      PROVE  StopInv'
  <2>1. CASE state = "connected"
    <3>1. state' = "connected" /\ active' = active \cup Taken(es)
      BY <1>7, <2>1 DEF ProcessJobs
    <3>2. \A e \in Exec : DOMAIN Fresh(e) = Fields /\ ~Fresh(e).aborted
      BY ShapeOfIdle DEF Fresh, Idle
    <3>3. DOMAIN job' = Exec
          /\ \A e \in Exec : job'[e] = IF e \in Taken(es) THEN Fresh(e) ELSE job[e]
      BY <1>7 DEF ProcessJobs
    <3>4. \A e \in Exec : DOMAIN job'[e] = Fields /\ (job'[e].aborted => job'[e].off)
      BY <3>2, <3>3 DEF StopInv
    <3>5. \A e \in Exec \ active' : job'[e].aborted \/ Finished(job'[e])
      BY <3>1, <3>3 DEF StopInv
    <3> QED BY <3>1, <3>3, <3>4, <3>5 DEF StopInv, Finished
  <2>2. CASE state # "connected"
    <3>1. active' = active /\ state' = state /\ heart' = heart
      BY <1>7, <2>2 DEF ProcessJobs, Taken
    <3>2. \A e \in Exec : job'[e] = job[e]
      BY <1>7, <2>2 DEF ProcessJobs, Taken
    <3>3. DOMAIN job' = Exec
      BY <1>7 DEF ProcessJobs
    <3> QED BY <3>1, <3>2, <3>3 DEF StopInv, Finished
  <2> QED BY <2>1, <2>2
<1> QED BY <1>1, <1>2, <1>3, <1>4, <1>5, <1>6, <1>7 DEF Lifecycle

LEMMA CheckpointerStep ==
  ASSUME StopInv, NEW e \in Exec, Checkpointer(e)
  PROVE  JobSteps(e)
<1> DEFINE j == job[e]
<1>0. DOMAIN j = Fields
  BY DEF StopInv
\* Whatever became of a send, what follows it keeps the discipline.
<1>1. ASSUME NEW i, Keeps(j, i) PROVE Keeps(j, Settled(ChainNext(i)))
  <2>1. DOMAIN i = Fields /\ Keeps(i, ChainNext(i))
    BY <1>1, ChainNextKeeps DEF Keeps
  <2>2. Keeps(ChainNext(i), Settled(ChainNext(i)))
    BY <2>1, SettledKeeps DEF Keeps
  <2> QED BY <1>1, <2>1, <2>2, KeepsThrough
<1>2. CASE TimerFires(e)
  <2> DEFINE i == [j EXCEPT !.timer = FALSE]
  <2>1. Keeps(j, i)
    BY <1>0, ShapeOfIdle DEF Keeps, Finished
  <2>2. Keeps(j, Flush(i))
    BY <2>1, FlushKeeps, KeepsThrough DEF Keeps
  <2> HIDE DEF i
  <2>3. Local(e, IF i.pc = "finishing" THEN i ELSE Flush(i))
    BY <1>2 DEF TimerFires, i
  <2> QED BY <2>1, <2>2, <2>3 DEF JobSteps, Local
<1>3. CASE CheckpointStored(e)
  <2> DEFINE i == [j EXCEPT !.cursor = @ + j.sending, !.heard = @ \cup Slots(j)]
  <2>1. Keeps(j, i)
    BY <1>0, ShapeOfIdle DEF Keeps, Finished
  <2> HIDE DEF i
  <2>2. Becomes(e, Settled(ChainNext(i))) /\ UNCHANGED worker
    BY <1>3 DEF CheckpointStored, i
  <2> QED BY <1>1, <2>1, <2>2 DEF JobSteps
<1>4. CASE CheckpointUnheard(e)
  <2>1. Keeps(j, j)
    BY <1>0 DEF Keeps
  <2> QED BY <1>1, <1>4, <2>1 DEF JobSteps, CheckpointUnheard
<1>5. ASSUME NEW off \in BOOLEAN, CheckpointFails(e, off) PROVE JobSteps(e)
  <2> DEFINE i == [j EXCEPT !.off = @ \/ off]
  <2>1. Keeps(j, i)
    BY <1>0, ShapeOfIdle DEF Keeps, Finished
  <2> HIDE DEF i
  <2>2. Local(e, Settled(ChainNext(i)))
    BY <1>5 DEF CheckpointFails, i
  <2> QED BY <1>1, <2>1, <2>2 DEF JobSteps, Local
<1>6. CASE CheckpointStale(e)
  <2>1. Keeps(j, Aborted(j))
    BY <1>0, AbortedKeeps
  <2> QED BY <1>1, <1>6, <2>1 DEF JobSteps, CheckpointStale, Local
<1> QED BY <1>2, <1>3, <1>4, <1>5, <1>6 DEF Checkpointer

LEMMA ExecuteStep ==
  ASSUME StopInv, NEW e \in Exec, Execute(e)
  PROVE  JobSteps(e)
<1> DEFINE j == job[e]
<1>0. DOMAIN j = Fields
  BY DEF StopInv
<1>1. ASSUME ~Finished(j), NEW q
      PROVE  Keeps(j, [j EXCEPT !.pc = q])
  BY <1>0, <1>1, ShapeOfIdle DEF Keeps, Finished
<1>2. CASE NoFunction(e) \/ UpcastFails(e)
  <2>1. ~Finished(j) => Keeps(j, [j EXCEPT !.pc = "reporting", !.outcome = "unstarted"])
    BY <1>0, ShapeOfIdle DEF Keeps, Finished
  <2>2. ~Finished(j) /\ UNCHANGED worker
    BY <1>2 DEF NoFunction, UpcastFails, Local, Acked, Finished
  <2> QED BY <1>2, <2>1, <2>2 DEF JobSteps, NoFunction, UpcastFails, Local
<1>3. CASE Ack(e)
  BY <1>1, <1>3 DEF JobSteps, Ack, Local, Finished
<1>4. CASE Enter(e)
  BY <1>1, <1>4 DEF JobSteps, Enter, Acked, Finished
<1>5. CASE AckUnheard(e)
  BY <1>1, <1>5 DEF JobSteps, AckUnheard, Acked, Finished
<1>6. CASE AckFails(e) \/ ReportFails(e)
  BY <1>1, <1>6 DEF JobSteps, AckFails, ReportFails, Local, Finished
<1>7. ASSUME NEW kind, RunStep(e, kind) PROVE JobSteps(e)
  BY <1>0, <1>7, RecordedKeeps DEF JobSteps, RunStep, Local
<1>8. ASSUME NEW o, StepFails(e, o) PROVE JobSteps(e)
  <2> DEFINE i == Recorded(j, [id |-> NextStep(j), kind |-> "failed"])
  <2>1. Keeps(j, i) /\ ~Finished(i)
    BY <1>0, <1>8, RecordedKeeps, ShapeOfIdle DEF StepFails, Recorded, Finished
  <2> HIDE DEF i
  <2>2. PICK k \in Ends(i, o) : Local(e, k)
    BY <1>8 DEF StepFails, i
  <2>3. Keeps(j, k)
    BY <2>1, <2>2, EndsKeep, KeepsThrough DEF Keeps
  <2> QED BY <2>2, <2>3 DEF JobSteps, Local
<1>9. ASSUME NEW o, HandlerEnds(e, o) PROVE JobSteps(e)
  <2>1. PICK k \in Ends(j, o) : Local(e, k)
    BY <1>9 DEF HandlerEnds
  <2>2. ~Finished(j)
    BY <1>9 DEF HandlerEnds, Finished
  <2> QED BY <1>0, <2>1, <2>2, EndsKeep DEF JobSteps, Local
<1>10. ASSUME NEW kind, Compensate(e, kind) PROVE JobSteps(e)
  <2> DEFINE i == Recorded(j, [id |-> Undo, kind |-> kind])
  <2>1. ~Finished(j)
    BY <1>10 DEF Compensate, Finished
  <2>2. Keeps(j, i) /\ ~Finished(i)
    BY <1>0, <2>1, RecordedKeeps, ShapeOfIdle DEF Recorded, Finished
  <2>3. Keeps(j, Finish(j, "fatal")) /\ Keeps(j, Finish(i, "fatal"))
    BY <1>0, <2>1, <2>2, FinishKeeps, KeepsThrough DEF Keeps
  <2>4. Keeps(j, [j EXCEPT !.pc = "over"])
    BY <1>1, <2>1
  <2> HIDE DEF i
  <2>5. Local(e, IF j.aborted THEN [j EXCEPT !.pc = "over"]
                 ELSE IF Undo \in j.memo THEN Finish(j, "fatal")
                 ELSE Finish(i, "fatal"))
    BY <1>10 DEF Compensate, i
  <2> QED BY <2>3, <2>4, <2>5 DEF JobSteps, Local
<1>11. CASE Reported(e)
  <2>1. Becomes(e, [j EXCEPT !.pc = "over"]) /\ UNCHANGED worker /\ j.pc = "reporting"
    BY <1>11 DEF Reported
  <2> QED BY <1>1, <2>1 DEF JobSteps, Finished
<1> QED BY <1>2, <1>3, <1>4, <1>5, <1>6, <1>7, <1>8, <1>9, <1>10, <1>11 DEF Execute

LEMMA StopInvInductive == Spec => []StopInv
<1>1. Init => StopInv
  BY ShapeOfIdle DEF Init, StopInv, Fields, Finished
<1>2. StopInv /\ [Next]_vars => StopInv'
  <2> SUFFICES ASSUME StopInv, [Next]_vars PROVE StopInv'
    OBVIOUS
  <2>1. ASSUME NEW j \in Jobs, LeaseExpires(j) PROVE StopInv'
    BY <2>1, OthersKeep DEF LeaseExpires, worker
  <2>2. CASE UNCHANGED vars
    BY <2>2, OthersKeep DEF vars, worker
  <2> QED BY <2>1, <2>2, LifecycleStep, CheckpointerStep, ExecuteStep, StepOfJob DEF Next
<1> QED BY <1>1, <1>2, PTL DEF Spec

\* A stopped worker has no heartbeat and no job that was not aborted, however
\* stop(), drain(), a refusal and the worker's requests interleave (worker.ts).
THEOREM StopIsFinal == Spec => []NothingOutlivesStop
<1>1. StopInv => NothingOutlivesStop
  BY DEF StopInv, NothingOutlivesStop, Finished
<1> QED BY <1>1, StopInvInductive, PTL

-----------------------------------------------------------------------------
(* Capacity. *)

Live == {e \in Exec : ~Finished(job[e])}

\* The inductive strengthening of CapacityKept: the handlers that run are counted
\* by activeJobs until stop() forgets them, after which none starts; the poll in
\* flight and the response being read leave room for what is in hand.
SlotInv ==
  /\ IsFiniteSet(active) /\ IsFiniteSet(batch) /\ IsFiniteSet(Live)
  /\ avail \in Nat
  /\ Cardinality(active) <= MaxConcurrent /\ Cardinality(Live) <= MaxConcurrent
  /\ state # "stopped" => Live \subseteq active
  /\ main = "polling" => Cardinality(active) + avail <= MaxConcurrent
  /\ main = "reading" => Cardinality(active) + Cardinality(batch) <= MaxConcurrent

LEMMA Shrinks ==
  ASSUME NEW S, IsFiniteSet(S), NEW T \in SUBSET S
  PROVE  IsFiniteSet(T) /\ Cardinality(T) \in Nat /\ Cardinality(S) \in Nat
         /\ Cardinality(T) <= Cardinality(S)
BY FS_Subset, FS_CardinalityType

\* What frees slots and takes none, with main where it was or where no poll is.
LEMMA SlotsFreed ==
  ASSUME SlotInv, active' \subseteq active, Live' \subseteq Live,
         state' # "stopped" => state # "stopped" /\ Live' \subseteq active',
         IsFiniteSet(batch'), avail' \in Nat,
         main' = "polling" => main = "polling" /\ avail' = avail,
         main' = "reading" => main = "reading" /\ batch' = batch
  PROVE  SlotInv'
<1>1. /\ IsFiniteSet(active') /\ Cardinality(active') \in Nat
      /\ Cardinality(active) \in Nat /\ Cardinality(active') <= Cardinality(active)
  BY Shrinks DEF SlotInv
<1>2. /\ IsFiniteSet(Live') /\ Cardinality(Live') \in Nat
      /\ Cardinality(Live) \in Nat /\ Cardinality(Live') <= Cardinality(Live)
  BY Shrinks DEF SlotInv
<1>3. MaxConcurrent \in Nat
  BY WorkerAssumption
<1>4. /\ Cardinality(active') <= MaxConcurrent /\ Cardinality(Live') <= MaxConcurrent
  BY <1>1, <1>2, <1>3 DEF SlotInv
<1>5. main' = "polling" => Cardinality(active') + avail' <= MaxConcurrent
  BY <1>1, <1>3 DEF SlotInv
<1>6. main' = "reading" => Cardinality(active') + Cardinality(batch') <= MaxConcurrent
  <2>1. Cardinality(batch) \in Nat
    BY FS_CardinalityType DEF SlotInv
  <2> QED BY <1>1, <1>3, <2>1 DEF SlotInv
<1> QED BY <1>1, <1>2, <1>4, <1>5, <1>6 DEF SlotInv

LEMMA SlotsOfJob ==
  ASSUME StopInv, SlotInv, NEW e \in Exec, JobSteps(e)
  PROVE  SlotInv'
<1>0. PICK k : Becomes(e, k) /\ Keeps(job[e], k) /\ UNCHANGED worker
  BY DEF JobSteps
<1>1. \A q \in Exec \ {e} : job'[q] = job[q]
  BY <1>0 DEF Becomes, StopInv
<1>2. Finished(job[e]) => Finished(job'[e])
  BY <1>0, ShapeOfOver DEF Becomes, StopInv, Keeps, Finished
<1>3. active' \subseteq active /\ active \subseteq active' \cup {e}
      /\ (e \in active \ active' => Finished(job'[e]))
  BY <1>0, ShapeOfOver DEF Becomes, StopInv, Finished
<1>4. Live' \subseteq Live
  BY <1>1, <1>2 DEF Live, Finished
<1>5. state # "stopped" => Live' \subseteq active'
  BY <1>1, <1>3, <1>4 DEF Live, Finished, SlotInv
<1> QED BY <1>0, <1>3, <1>4, <1>5, SlotsFreed DEF worker, SlotInv

LEMMA LiveKept ==
  ASSUME UNCHANGED job
  PROVE  Live' = Live
BY DEF Live, Finished

LEMMA LiveStopped ==
  ASSUME StopInv, StopWorker
  PROVE  Live' \subseteq Live
<1> SUFFICES ASSUME NEW e \in Exec, Finished(job[e]) PROVE Finished(job[e])'
  BY DEF Live
<1>1. job'[e] = IF e \in active THEN Aborted(job[e]) ELSE job[e]
  BY DEF StopWorker
<1> QED BY <1>1, AbortedKeeps DEF StopInv, Keeps, Finished

LEMMA SlotsOfLifecycle ==
  ASSUME StopInv, SlotInv, Lifecycle
  PROVE  SlotInv'
<1>1. CASE Stop \/ Refused \/ DrainStops
  <2>1. /\ StopWorker /\ batch' = batch
        /\ UNCHANGED <<main, avail>> \/ (main' = "threw" /\ avail' = 0)
    BY <1>1 DEF Stop, Refused, DrainStops
  <2>2. state' = "stopped" /\ active' \subseteq active
    BY <2>1 DEF StopWorker
  <2> QED BY <2>1, <2>2, LiveStopped, SlotsFreed DEF SlotInv
<1>2. CASE Drain
  <2>1. CASE active = {}
    <3>1. StopWorker /\ UNCHANGED <<main, avail, batch>>
      BY <1>2, <2>1 DEF Drain
    <3>2. state' = "stopped" /\ active' \subseteq active
      BY <3>1 DEF StopWorker
    <3> QED BY <3>1, <3>2, LiveStopped, SlotsFreed DEF SlotInv
  <2>2. CASE active # {}
    BY <1>2, <2>2, LiveKept, SlotsFreed DEF Drain, SlotInv
  <2> QED BY <2>1, <2>2
<1>3. CASE Start \/ Connect \/ LeaveLoop \/ StartReturns \/ FunctionsRegistered
           \/ ConnectFails \/ ConnectAborted \/ Retry
  <2>1. /\ UNCHANGED <<active, job, batch, avail>>
        /\ main' \notin {"polling", "reading"}
        /\ state' # "stopped" => state # "stopped"
    BY <1>3 DEF Start, Connect, LeaveLoop, StartReturns,
       FunctionsRegistered, ConnectFails, ConnectAborted, Retry, Goto
  <2> QED BY <2>1, LiveKept, SlotsFreed DEF SlotInv
<1>4. CASE WorkerRegistered
  <2>1. /\ UNCHANGED <<active, job, batch, avail>>
        /\ main' \notin {"polling", "reading"}
        /\ state # "stopped"
    BY <1>4 DEF WorkerRegistered
  <2> QED BY <2>1, LiveKept, SlotsFreed DEF SlotInv
<1>5. CASE PollEnds \/ PollFails \/ PollAborted \/ NotFound \/ DrainDeadline
  <2>1. /\ UNCHANGED <<active, job, batch>>
        /\ \/ UNCHANGED <<main, avail>>
           \/ main' \notin {"polling", "reading"} /\ avail' \in {avail, 0}
        /\ state' # "stopped" => state # "stopped"
    BY <1>5 DEF PollEnds, PollFails, PollAborted, NotFound, PollOver, Goto, DrainDeadline
  <2> QED BY <2>1, LiveKept, SlotsFreed DEF SlotInv
<1>6. CASE Poll
  <2>1. /\ UNCHANGED <<active, job, batch, state>>
        /\ avail' = MaxConcurrent - Cardinality(active)
        /\ main' = "polling"
    BY <1>6 DEF Poll
  <2>2. Cardinality(active) \in Nat /\ MaxConcurrent \in Nat
    BY FS_CardinalityType, WorkerAssumption DEF SlotInv
  <2>3. avail' \in Nat /\ Cardinality(active) + avail' <= MaxConcurrent
    BY <2>1, <2>2 DEF SlotInv
  <2> QED BY <2>1, <2>3, LiveKept DEF SlotInv
<1>7. ASSUME NEW es \in SUBSET Exec, Assign(es) PROVE SlotInv'
  <2>1. IsFiniteSet(Exec)
    <3>1. IsFiniteSet(Jobs) /\ IsFiniteSet(1 .. MaxSeq)
      BY WorkerAssumption, FS_Interval
    <3> QED BY <3>1, FS_Product DEF Exec
  <2>2. IsFiniteSet(es) /\ Cardinality(es) \in Nat
    BY <2>1, FS_Subset, FS_CardinalityType
  <2>3. /\ UNCHANGED <<active, job, state>> /\ batch' = es /\ avail' = 0
        /\ main = "polling" /\ main' = "reading" /\ Cardinality(es) <= avail
    BY <1>7 DEF Assign
  <2>4. Cardinality(active) \in Nat /\ MaxConcurrent \in Nat
    BY FS_CardinalityType, WorkerAssumption DEF SlotInv
  <2>5. Cardinality(active) + Cardinality(es) <= MaxConcurrent
    BY <2>2, <2>3, <2>4 DEF SlotInv
  <2> QED BY <2>2, <2>3, <2>5, LiveKept DEF SlotInv
<1>8. ASSUME NEW es \in SUBSET Exec, AssignUnheard(es) PROVE SlotInv'
  <2>1. /\ UNCHANGED <<active, job, batch, state>> /\ avail' = 0 /\ main' = "poll"
    BY <1>8 DEF AssignUnheard
  <2> QED BY <2>1, LiveKept, SlotsFreed DEF SlotInv
<1>9. ASSUME NEW es \in SUBSET Exec, ProcessJobs(es) PROVE SlotInv'
  <2>0. /\ UNCHANGED <<state, avail>> /\ batch' = {} /\ main' = "poll" /\ IsFiniteSet(batch')
        /\ main = "reading" /\ es \subseteq batch /\ active' = active \cup Taken(es)
    BY <1>9, FS_EmptySet DEF ProcessJobs
  <2>1. CASE state = "connected"
    <3>1. active' \subseteq active \cup batch /\ Live \subseteq active
      BY <2>0, <2>1 DEF Taken, SlotInv
    <3>2. Live' \subseteq active'
      BY <1>9, <2>0, <3>1 DEF ProcessJobs, Live, Finished
    <3>3. /\ IsFiniteSet(active \cup batch)
          /\ Cardinality(active \cup batch) <= MaxConcurrent
      <4>1. Cardinality(active \cap batch) \in Nat /\ Cardinality(active) \in Nat
            /\ Cardinality(batch) \in Nat
        BY Shrinks DEF SlotInv
      <4>2. IsFiniteSet(active \cup batch)
            /\ Cardinality(active \cup batch)
                 = Cardinality(active) + Cardinality(batch) - Cardinality(active \cap batch)
        BY FS_Union DEF SlotInv
      <4>3. Cardinality(active) + Cardinality(batch) <= MaxConcurrent
        BY <2>0 DEF SlotInv
      <4> QED BY <4>1, <4>2, <4>3, WorkerAssumption
    <3>4. IsFiniteSet(active') /\ Cardinality(active') <= MaxConcurrent
      BY <3>1, <3>3, Shrinks, WorkerAssumption
    <3>5. IsFiniteSet(Live') /\ Cardinality(Live') <= MaxConcurrent
      BY <3>1, <3>2, <3>3, Shrinks, WorkerAssumption
    <3> QED BY <2>0, <3>2, <3>4, <3>5 DEF SlotInv
  <2>2. CASE state # "connected"
    <3>1. active' = active
      BY <2>0, <2>2 DEF Taken
    <3>2. \A e \in Exec : job'[e] = job[e]
      BY <1>9, <2>2 DEF ProcessJobs, Taken
    <3>3. Live' = Live
      BY <3>2 DEF Live, Finished
    <3> QED BY <2>0, <3>1, <3>3, SlotsFreed DEF SlotInv
  <2> QED BY <2>1, <2>2
<1> QED BY <1>1, <1>2, <1>3, <1>4, <1>5, <1>6, <1>7, <1>8, <1>9 DEF Lifecycle

\* Jobs in hand never exceed maxConcurrentJobs, for any number of runs and slots,
\* though a superseded handler goes on and assignments come twice (pollForJobs).
THEOREM CapacityNeverExceeded == Spec => []CapacityKept
<1>1. Init => SlotInv
  <2> SUFFICES ASSUME Init PROVE SlotInv
    OBVIOUS
  <2>1. Live = {}
    BY ShapeOfIdle DEF Init, Live, Finished
  <2>2. active = {} /\ batch = {} /\ avail = 0 /\ main = "idle"
    BY DEF Init
  <2>3. IsFiniteSet({}) /\ Cardinality({}) = 0
    BY FS_EmptySet
  <2>4. 0 <= MaxConcurrent
    BY WorkerAssumption
  <2> QED BY <2>1, <2>2, <2>3, <2>4 DEF SlotInv
<1>2. StopInv /\ SlotInv /\ [Next]_vars => SlotInv'
  <2> SUFFICES ASSUME StopInv, SlotInv, [Next]_vars PROVE SlotInv'
    OBVIOUS
  <2>1. CASE UNCHANGED <<worker, active, job>>
    BY <2>1, LiveKept, SlotsFreed DEF worker, SlotInv
  <2>2. (\E j \in Jobs : LeaseExpires(j)) \/ UNCHANGED vars
           => UNCHANGED <<worker, active, job>>
    BY DEF LeaseExpires, vars
  <2> QED BY <2>1, <2>2, SlotsOfLifecycle, SlotsOfJob, CheckpointerStep, ExecuteStep
          DEF Next
<1>3. SlotInv => CapacityKept
  BY DEF SlotInv, CapacityKept, Live, Finished
<1> QED BY <1>1, <1>2, <1>3, StopInvInductive, PTL DEF Spec

-----------------------------------------------------------------------------
(* Silence after an abort. *)

\* The step from j to k of one job, as AbortedIsSilent asks for it.
Silent(j, k) ==
  j.aborted =>
    /\ k.sending > 0 => k.sending = j.sending /\ k.cursor = j.cursor
    /\ k.pc = "reporting" => j.pc = "reporting" \/ k.outcome = "unstarted"

LEMMA SettledIsSilent ==
  ASSUME NEW j, DOMAIN j = Fields, j.aborted
  PROVE  /\ Settled(j).sending = j.sending /\ Settled(j).cursor = j.cursor
         /\ Settled(j).pc \in {j.pc, "over"}
         /\ Settled(j).outcome = j.outcome
BY ShapeOfIdle DEF Settled

\* Behind a send that is over, a cancelled checkpointer sends nothing.
LEMMA ChainIsSilent ==
  ASSUME NEW j, DOMAIN j = Fields, j.aborted, j.off
  PROVE  /\ Settled(ChainNext(j)).sending = 0
         /\ Settled(ChainNext(j)).pc \in {j.pc, "over"}
<1> DEFINE i == [j EXCEPT !.sending = 0]
           n == [j EXCEPT !.sending = 0, !.queued = 0]
<1>1. i.off /\ i.sending = 0
  BY ShapeOfIdle
<1>2. Send(i).sending = 0
  BY <1>1 DEF Send
<1>3. DOMAIN n = Fields /\ n.aborted /\ n.sending = 0 /\ n.pc = j.pc
  BY ShapeOfIdle
<1> HIDE DEF i, n
<1>4. ChainNext(j) = n
  BY <1>2 DEF ChainNext, i, n
<1> QED BY <1>3, <1>4, SettledIsSilent

LEMMA SilentStep ==
  ASSUME StopInv, NEW e \in Exec, NEW k, Becomes(e, k), Silent(job[e], k)
  PROVE  \A q \in Exec : Silent(job[q], job'[q])
<1>1. Over.sending = 0 /\ Over.pc = "over"
  BY ShapeOfIdle DEF Over, Idle
<1>2. Silent(job[e], job'[e])
  BY <1>1 DEF Becomes, StopInv, Silent
<1>3. \A q \in Exec \ {e} : job'[q] = job[q]
  BY DEF Becomes, StopInv
<1> QED BY <1>2, <1>3 DEF Silent

\* A step that ends the job, or says of an unentered function that it is missing.
LEMMA SilentEnd ==
  ASSUME NEW j, DOMAIN j = Fields
  PROVE  /\ Silent(j, [j EXCEPT !.pc = "over"])
         /\ Silent(j, [j EXCEPT !.pc = "acking"])
         /\ Silent(j, [j EXCEPT !.pc = "running"])
         /\ Silent(j, [j EXCEPT !.pc = "reporting", !.outcome = "unstarted"])
         /\ \A o : Silent(j, Finish(j, o))
<1>1. ASSUME NEW o, j.aborted
      PROVE  /\ Finish(j, o).sending = j.sending /\ Finish(j, o).cursor = j.cursor
             /\ Finish(j, o).pc # "reporting"
  <2> DEFINE i == [j EXCEPT !.pc = "finishing", !.outcome = o, !.timer = FALSE]
  <2>1. /\ DOMAIN i = Fields /\ i.aborted /\ i.sending = j.sending
        /\ i.cursor = j.cursor /\ i.pc = "finishing"
    BY <1>1, ShapeOfIdle
  <2> HIDE DEF i
  <2>2. Finish(j, o) = Settled(i)
    BY DEF Finish, i
  <2> QED BY <2>1, <2>2, SettledIsSilent
<1> QED BY <1>1, ShapeOfIdle DEF Silent

LEMMA CheckpointerIsSilent ==
  ASSUME StopInv, NEW e \in Exec, Checkpointer(e)
  PROVE  \A q \in Exec : Silent(job[q], job'[q])
<1> DEFINE j == job[e]
<1>0. DOMAIN j = Fields /\ (j.aborted => j.off)
  BY DEF StopInv
<1>1. ASSUME NEW i, DOMAIN i = Fields, j.aborted => i.aborted /\ i.off, i.pc = j.pc
      PROVE  Silent(j, Settled(ChainNext(i)))
  BY <1>1, ChainIsSilent DEF Silent
<1>2. CASE TimerFires(e)
  <2> DEFINE i == [j EXCEPT !.timer = FALSE]
  <2>1. /\ i.sending = j.sending /\ i.cursor = j.cursor /\ i.pc = j.pc
        /\ i.off = j.off /\ DOMAIN i = Fields
    BY <1>0, ShapeOfIdle
  <2> HIDE DEF i
  <2>2. Silent(j, [i EXCEPT !.queued = @ + 1]) /\ Silent(j, i)
    BY <2>1, ShapeOfIdle DEF Silent
  <2>3. j.aborted => Flush(i) \in {[i EXCEPT !.queued = i.queued + 1], i}
    BY <1>0, <2>1 DEF Flush, Send
  <2>4. Silent(j, Flush(i))
    BY <2>2, <2>3 DEF Silent
  <2>5. Becomes(e, IF i.pc = "finishing" THEN i ELSE Flush(i))
    BY <1>2 DEF TimerFires, Local, i
  <2> QED BY <2>2, <2>4, <2>5, SilentStep
<1>3. CASE CheckpointStored(e)
  <2> DEFINE i == [j EXCEPT !.cursor = @ + j.sending, !.heard = @ \cup Slots(j)]
  <2>1. DOMAIN i = Fields /\ (j.aborted => i.aborted /\ i.off) /\ i.pc = j.pc
    BY <1>0, ShapeOfIdle
  <2> HIDE DEF i
  <2>2. Becomes(e, Settled(ChainNext(i)))
    BY <1>3 DEF CheckpointStored, i
  <2> QED BY <1>1, <2>1, <2>2, SilentStep
<1>4. CASE CheckpointUnheard(e)
  BY <1>0, <1>1, <1>4, SilentStep DEF CheckpointUnheard
<1>5. ASSUME NEW off \in BOOLEAN, CheckpointFails(e, off)
      PROVE  \A q \in Exec : Silent(job[q], job'[q])
  <2> DEFINE i == [j EXCEPT !.off = @ \/ off]
  <2>1. DOMAIN i = Fields /\ (j.aborted => i.aborted /\ i.off) /\ i.pc = j.pc
    BY <1>0, ShapeOfIdle
  <2> HIDE DEF i
  <2>2. Becomes(e, Settled(ChainNext(i)))
    BY <1>5 DEF CheckpointFails, Local, i
  <2> QED BY <1>1, <2>1, <2>2, SilentStep
<1>6. CASE CheckpointStale(e)
  <2>1. DOMAIN Aborted(j) = Fields /\ Aborted(j).aborted /\ Aborted(j).off
        /\ Aborted(j).pc = j.pc
    BY <1>0, ShapeOfIdle DEF Aborted
  <2>2. Becomes(e, Settled(ChainNext(Aborted(j))))
    BY <1>6 DEF CheckpointStale, Local
  <2> QED BY <1>1, <2>1, <2>2, SilentStep
<1> QED BY <1>2, <1>3, <1>4, <1>5, <1>6 DEF Checkpointer

LEMMA ExecuteIsSilent ==
  ASSUME StopInv, NEW e \in Exec, Execute(e)
  PROVE  \A q \in Exec : Silent(job[q], job'[q])
<1> DEFINE j == job[e]
<1>0. DOMAIN j = Fields
  BY DEF StopInv
<1>1. CASE NoFunction(e) \/ UpcastFails(e)
  <2>1. Becomes(e, [j EXCEPT !.pc = "reporting", !.outcome = "unstarted"])
    BY <1>1 DEF NoFunction, UpcastFails, Local
  <2> QED BY <1>0, <2>1, SilentEnd, SilentStep
<1>2. CASE Ack(e)
  BY <1>0, <1>2, SilentEnd, SilentStep DEF Ack, Local
<1>3. CASE Enter(e)
  BY <1>0, <1>3, SilentEnd, SilentStep DEF Enter
<1>4. CASE AckUnheard(e) \/ AckFails(e) \/ ReportFails(e) \/ Reported(e)
  <2>1. Becomes(e, [j EXCEPT !.pc = "over"])
    BY <1>4 DEF AckUnheard, AckFails, ReportFails, Reported, Local
  <2> QED BY <1>0, <2>1, SilentEnd, SilentStep
\* A job that was aborted takes no step: Silent holds of what is not.
<1>5. ASSUME NEW kind, RunStep(e, kind) PROVE \A q \in Exec : Silent(job[q], job'[q])
  <2>1. ~j.aborted
    BY <1>5 DEF RunStep
  <2>2. \A k : Silent(j, k)
    BY <2>1 DEF Silent
  <2> QED BY <1>5, <2>2, SilentStep DEF RunStep, Local
<1>6. ASSUME NEW o, StepFails(e, o) PROVE \A q \in Exec : Silent(job[q], job'[q])
  <2>1. ~j.aborted
    BY <1>6 DEF StepFails
  <2>2. \A k : Silent(j, k)
    BY <2>1 DEF Silent
  <2>3. PICK k : Becomes(e, k)
    BY <1>6 DEF StepFails, Local
  <2> QED BY <2>2, <2>3, SilentStep
<1>7. ASSUME NEW o, HandlerEnds(e, o) PROVE \A q \in Exec : Silent(job[q], job'[q])
  <2>1. PICK k \in Ends(j, o) : Becomes(e, k)
    BY <1>7 DEF HandlerEnds, Local
  <2>2. CASE j.aborted
    <3>1. \E p : k = Finish(j, p)
      BY <2>1, <2>2 DEF Ends
    <3> QED BY <1>0, <2>1, <3>1, SilentEnd, SilentStep
  <2>3. CASE ~j.aborted
    <3>1. Silent(j, k)
      BY <2>3 DEF Silent
    <3> QED BY <2>1, <3>1, SilentStep
  <2> QED BY <2>2, <2>3
<1>8. ASSUME NEW kind, Compensate(e, kind)
      PROVE  \A q \in Exec : Silent(job[q], job'[q])
  <2>1. CASE j.aborted
    BY <1>0, <1>8, <2>1, SilentEnd, SilentStep DEF Compensate, Local
  <2>2. CASE ~j.aborted
    <3>1. \A k : Silent(j, k)
      BY <2>2 DEF Silent
    <3> QED BY <1>8, <3>1, SilentStep DEF Compensate, Local
  <2> QED BY <2>1, <2>2
<1> QED BY <1>1, <1>2, <1>3, <1>4, <1>5, <1>6, <1>7, <1>8 DEF Execute

LEMMA LifecycleIsSilent ==
  ASSUME StopInv, Lifecycle \/ UNCHANGED job
  PROVE  \A q \in Exec : Silent(job[q], job'[q])
<1>1. CASE UNCHANGED job
  BY <1>1 DEF Silent
<1>2. CASE StopWorker
  <2> SUFFICES ASSUME NEW e \in Exec PROVE Silent(job[e], job'[e])
    OBVIOUS
  <2>1. job'[e] \in {Aborted(job[e]), job[e]}
    BY <1>2 DEF StopWorker
  <2>2. /\ Aborted(job[e]).sending = job[e].sending
        /\ Aborted(job[e]).cursor = job[e].cursor /\ Aborted(job[e]).pc = job[e].pc
    BY ShapeOfIdle DEF Aborted, StopInv
  <2> QED BY <2>1, <2>2 DEF Silent
<1>3. ASSUME NEW es \in SUBSET Exec, ProcessJobs(es)
      PROVE  \A q \in Exec : Silent(job[q], job'[q])
  <2>1. \A e \in Exec : Fresh(e).sending = 0 /\ Fresh(e).pc = "accepted"
    BY ShapeOfIdle DEF Fresh, Idle
  <2>2. \A e \in Exec : job'[e] \in {Fresh(e), job[e]}
    BY <1>3 DEF ProcessJobs
  <2> QED BY <2>1, <2>2 DEF Silent
<1>4. Lifecycle => \/ StopWorker \/ UNCHANGED job
                   \/ \E es \in SUBSET Exec : ProcessJobs(es)
  BY DEF Lifecycle, Stop, Refused, DrainStops, Drain, DrainDeadline, Start, Connect,
     LeaveLoop, StartReturns, FunctionsRegistered, WorkerRegistered, ConnectFails,
     ConnectAborted, Retry, Poll, PollEnds, PollFails, PollAborted, PollOver, NotFound,
     Goto, Assign, AssignUnheard
<1> QED BY <1>1, <1>2, <1>3, <1>4

\* What the handler of an aborted job did is never sent: its checkpointer was
\* cancelled with it, and finish() is followed by a look at the signal (worker.ts).
THEOREM AbortSilences == Spec => AbortedIsSilent
<1> DEFINE Silence == \A e \in Exec : Silent(job[e], job'[e])
<1>1. StopInv /\ [Next]_vars => [Silence]_vars
  <2> SUFFICES ASSUME StopInv, Next PROVE Silence
    OBVIOUS
  <2>1. ASSUME NEW j \in Jobs, LeaseExpires(j) PROVE Silence
    BY <2>1, LifecycleIsSilent DEF LeaseExpires
  <2>2. (\E e \in Exec : Checkpointer(e) \/ Execute(e)) => Silence
    BY CheckpointerIsSilent, ExecuteIsSilent
  <2>3. Lifecycle => Silence
    BY LifecycleIsSilent
  <2> QED BY <2>1, <2>2, <2>3 DEF Next
<1>2. Silence => \A e \in Exec : job[e].aborted =>
        /\ job'[e].sending > 0 =>
             job'[e].sending = job[e].sending /\ job'[e].cursor = job[e].cursor
        /\ job'[e].pc = "reporting" =>
             job[e].pc = "reporting" \/ job'[e].outcome = "unstarted"
  BY DEF Silent
<1> HIDE DEF Silence
<1> QED BY <1>1, <1>2, StopInvInductive, PTL DEF Spec, AbortedIsSilent

-----------------------------------------------------------------------------
(* Once. *)

\* The inductive strengthening of StartedOnce: an execution whose handler was
\* entered is acknowledged for good, or superseded.
OnceInv ==
  /\ run \in [Jobs -> [seq : 1 .. MaxSeq, phase : Phases]]
  /\ starts \in [Exec -> Nat]
  /\ \A e \in Exec : starts[e] <= 1
  /\ \A e \in Exec : starts[e] = 1 =>
       \/ e[2] < run[e[1]].seq
       \/ e[2] = run[e[1]].seq /\ run[e[1]].phase \notin {"queued", "assigned"}

\* A step of the engine that leads no run back to an execution it had acknowledged.
Onward == /\ run' \in [Jobs -> [seq : 1 .. MaxSeq, phase : Phases]]
          /\ \A j \in Jobs :
               \/ run[j].seq < run'[j].seq
               \/ /\ run[j].seq = run'[j].seq
                  /\ run'[j].phase \in {"queued", "assigned"} =>
                       run[j].phase \in {"queued", "assigned"}

LEMMA OnwardKeepsOnce ==
  ASSUME OnceInv, Onward, UNCHANGED starts
  PROVE  OnceInv'
<1> SUFFICES ASSUME NEW e \in Exec, starts[e] = 1
             PROVE  \/ e[2] < run'[e[1]].seq
                    \/ e[2] = run'[e[1]].seq /\ run'[e[1]].phase \notin {"queued", "assigned"}
  BY DEF OnceInv, Onward
<1>1. e[1] \in Jobs /\ e[2] \in 1 .. MaxSeq
  BY DEF Exec
<1>2. run[e[1]].seq \in Nat /\ run'[e[1]].seq \in Nat
  BY <1>1 DEF OnceInv, Onward
<1> QED BY <1>1, <1>2 DEF OnceInv, Onward

LEMMA RequeuedIsOnward ==
  ASSUME OnceInv, NEW j \in Jobs, run[j].phase \in {"assigned", "acked"},
         run' = [run EXCEPT ![j] = Requeued(j)]
  PROVE  Onward
<1>1. run[j] \in [seq : 1 .. MaxSeq, phase : Phases] /\ run[j].seq \in 1 .. MaxSeq
  BY DEF OnceInv
<1>2. /\ Requeued(j) \in [seq : 1 .. MaxSeq, phase : Phases]
      /\ \/ run[j].seq < Requeued(j).seq
         \/ run[j].seq = Requeued(j).seq /\ Requeued(j).phase = "ended"
  <2>1. CASE run[j].seq < MaxSeq
    BY <1>1, <2>1, WorkerAssumption DEF Requeued, Phases
  <2>2. CASE ~(run[j].seq < MaxSeq)
    BY <1>1, <2>2 DEF Requeued, Phases
  <2> QED BY <2>1, <2>2
<1> QED BY <1>2 DEF OnceInv, Onward

LEMMA PhaseIsOnward ==
  ASSUME OnceInv, NEW j \in Jobs, NEW p \in {"acked", "completed", "ended"},
         run' = [run EXCEPT ![j].phase = p]
  PROVE  Onward
BY DEF OnceInv, Onward, Phases

LEMMA AssignIsOnward ==
  ASSUME OnceInv, NEW es \in SUBSET Exec, Assign(es) \/ AssignUnheard(es)
  PROVE  Onward
<1>1. run' = [j \in Jobs |-> IF \E e \in es : e[1] = j
                             THEN [run[j] EXCEPT !.phase = "assigned"] ELSE run[j]]
  BY DEF Assign, AssignUnheard
<1>2. \A e \in es : run[e[1]].phase \in {"queued", "assigned"}
  BY DEF Assign, AssignUnheard
<1> QED BY <1>1, <1>2 DEF OnceInv, Onward, Phases

LEMMA EngineStays ==
  ASSUME OnceInv, UNCHANGED run
  PROVE  Onward
BY DEF OnceInv, Onward

LEMMA OnceOfExecute ==
  ASSUME OnceInv, NEW e \in Exec, Execute(e)
  PROVE  OnceInv'
<1>0. e[1] \in Jobs
  BY DEF Exec
<1>1. CASE Enter(e)
  <2>1. /\ run[e[1]].phase = "assigned" /\ run[e[1]].seq = e[2]
        /\ run' = [run EXCEPT ![e[1]].phase = "acked"]
        /\ starts' = [starts EXCEPT ![e] = IF job[e].aborted THEN @ ELSE @ + 1]
    BY <1>1 DEF Enter, Acked, Accepts, Stamped
  <2>2. starts[e] = 0
    <3>1. run[e[1]].seq \in Nat /\ starts[e] \in Nat
      BY <1>0 DEF OnceInv
    <3>2. starts[e] <= 1 /\ starts[e] # 1
      BY <2>1, <3>1 DEF OnceInv
    <3> QED BY <3>1, <3>2
  <2>3. Onward
    BY <1>0, <2>1, PhaseIsOnward
  <2>4. starts' \in [Exec -> Nat] /\ starts'[e] <= 1
        /\ \A q \in Exec \ {e} : starts'[q] = starts[q]
    BY <2>1, <2>2 DEF OnceInv
  <2>5. run'[e[1]].seq = e[2] /\ run'[e[1]].phase = "acked"
    BY <1>0, <2>1 DEF OnceInv
  <2>6. ASSUME NEW q \in Exec \ {e}, starts[q] = 1
        PROVE  \/ q[2] < run'[q[1]].seq
               \/ q[2] = run'[q[1]].seq /\ run'[q[1]].phase \notin {"queued", "assigned"}
    <3>1. q[1] \in Jobs /\ q[2] \in 1 .. MaxSeq
      BY DEF Exec
    <3>2. run[q[1]].seq \in Nat /\ run'[q[1]].seq \in Nat
      BY <2>3, <3>1 DEF OnceInv, Onward
    <3> QED BY <2>3, <2>6, <3>1, <3>2 DEF OnceInv, Onward
  <2> QED BY <2>3, <2>4, <2>5, <2>6 DEF OnceInv, Onward
<1>2. CASE UpcastFails(e) \/ AckUnheard(e)
  <2>1. run' = [run EXCEPT ![e[1]].phase = "acked"] /\ UNCHANGED starts
    BY <1>2 DEF UpcastFails, AckUnheard, Acked
  <2> QED BY <1>0, <2>1, PhaseIsOnward, OnwardKeepsOnce
<1>3. CASE Reported(e)
  <2>1. UNCHANGED starts /\ run[e[1]].phase \in {"assigned", "acked"}
    BY <1>3 DEF Reported, Accepts
  <2>2. \/ run' = [run EXCEPT ![e[1]].phase = "completed"]
        \/ run' = [run EXCEPT ![e[1]].phase = "ended"]
        \/ run' = [run EXCEPT ![e[1]] = Requeued(e[1])]
    BY <1>3 DEF Reported
  <2>3. Onward
    BY <1>0, <2>1, <2>2, PhaseIsOnward, RequeuedIsOnward
  <2> QED BY <2>1, <2>3, OnwardKeepsOnce
<1>4. CASE UNCHANGED <<run, starts>>
  BY <1>4, EngineStays, OnwardKeepsOnce
<1>5. Execute(e) => Enter(e) \/ UpcastFails(e) \/ AckUnheard(e) \/ Reported(e)
                    \/ UNCHANGED <<run, starts>>
  BY DEF Execute, NoFunction, Ack, AckFails, RunStep, StepFails, HandlerEnds, Compensate,
     ReportFails, Local, engine
<1> QED BY <1>1, <1>2, <1>3, <1>4, <1>5

LEMMA OnceInvInductive == Spec => []OnceInv
<1>1. Init => OnceInv
  BY WorkerAssumption DEF Init, OnceInv, Phases
<1>2. OnceInv /\ [Next]_vars => OnceInv'
  <2> SUFFICES ASSUME OnceInv, [Next]_vars PROVE OnceInv'
    OBVIOUS
  <2>1. ASSUME NEW j \in Jobs, LeaseExpires(j) PROVE OnceInv'
    BY <2>1, RequeuedIsOnward, OnwardKeepsOnce DEF LeaseExpires
  <2>2. ASSUME NEW e \in Exec, Checkpointer(e) PROVE OnceInv'
    <3>1. UNCHANGED <<run, starts>>
      BY <2>2 DEF Checkpointer, TimerFires, CheckpointStored, CheckpointUnheard,
         CheckpointStale, CheckpointFails, Local, engine
    <3> QED BY <3>1, EngineStays, OnwardKeepsOnce
  <2>3. CASE Lifecycle
    <3>1. UNCHANGED starts /\ (UNCHANGED run
            \/ \E es \in SUBSET Exec : Assign(es) \/ AssignUnheard(es))
      BY <2>3 DEF Lifecycle, Stop, Refused, DrainStops, Drain, DrainDeadline, Start, Connect,
         LeaveLoop, StartReturns, FunctionsRegistered, WorkerRegistered, ConnectFails,
         ConnectAborted, Retry, Poll, PollEnds, PollFails, PollAborted, PollOver, NotFound,
         Goto, ProcessJobs, Assign, AssignUnheard, engine
    <3> QED BY <3>1, AssignIsOnward, EngineStays, OnwardKeepsOnce
  <2>4. CASE UNCHANGED vars
    BY <2>4, EngineStays, OnwardKeepsOnce DEF vars, engine
  <2> QED BY <2>1, <2>2, <2>3, <2>4, OnceOfExecute DEF Next
<1> QED BY <1>1, <1>2, PTL DEF Spec

\* The handler of an execution is entered once at most, whatever the engine
\* delivers again and whichever acknowledgement is lost (processJob, ackJob).
THEOREM EnteredOnce == Spec => []StartedOnce
<1>1. OnceInv => StartedOnce
  BY DEF OnceInv, StartedOnce
<1> QED BY <1>1, OnceInvInductive, PTL

-----------------------------------------------------------------------------
(* A drain. *)

\* A worker that drains, or has drained, never connects again.
DrainInv == drain # "none" => state \in {"draining", "stopped"}

\* What DrainHoldsOn asks of a step.
HoldsOn == drain # "none" => /\ active' \subseteq active
                             /\ heart /\ state' # "stopped" => heart'

LEMMA DrainStep ==
  ASSUME DrainInv, Next
  PROVE  DrainInv' /\ HoldsOn
<1>1. CASE StopWorker
  BY <1>1 DEF StopWorker, DrainInv, HoldsOn
<1>2. CASE Drain
  BY <1>2 DEF Drain, StopWorker, DrainInv, HoldsOn
<1>3. CASE Lifecycle /\ ~StopWorker /\ ~Drain
  <2>1. CASE Start \/ Connect \/ WorkerRegistered \/ NotFound
    BY <2>1 DEF Start, Connect, WorkerRegistered, NotFound, DrainInv, HoldsOn
  <2>2. CASE LeaveLoop \/ StartReturns \/ FunctionsRegistered \/ ConnectFails
             \/ ConnectAborted \/ Retry \/ Poll \/ PollEnds \/ PollFails \/ PollAborted
             \/ DrainDeadline
    BY <2>2 DEF LeaveLoop, StartReturns, FunctionsRegistered, ConnectFails, ConnectAborted,
       Retry, Poll, PollEnds, PollFails, PollAborted, PollOver, Goto, DrainDeadline,
       DrainInv, HoldsOn
  <2>3. ASSUME NEW es, Assign(es) \/ AssignUnheard(es) \/ ProcessJobs(es)
        PROVE  DrainInv' /\ HoldsOn
    BY <2>3 DEF Assign, AssignUnheard, ProcessJobs, Taken, DrainInv, HoldsOn
  <2>4. Lifecycle /\ ~StopWorker /\ ~Drain =>
          \/ Start \/ Connect \/ WorkerRegistered \/ NotFound
          \/ LeaveLoop \/ StartReturns \/ FunctionsRegistered \/ ConnectFails
          \/ ConnectAborted \/ Retry \/ Poll \/ PollEnds \/ PollFails \/ PollAborted
          \/ DrainDeadline
          \/ \E es \in SUBSET Exec : Assign(es) \/ AssignUnheard(es) \/ ProcessJobs(es)
    BY DEF Lifecycle, Stop, Refused, DrainStops
  <2> QED BY <1>3, <2>1, <2>2, <2>3, <2>4
<1>4. ASSUME NEW e \in Exec, Checkpointer(e) \/ Execute(e)
      PROVE  UNCHANGED worker /\ active' \subseteq active
  BY <1>4 DEF Checkpointer, TimerFires, CheckpointStored, CheckpointUnheard,
     CheckpointStale, CheckpointFails, Execute, NoFunction, Ack, AckFails, RunStep, StepFails,
     HandlerEnds, Compensate, ReportFails, Enter, UpcastFails, AckUnheard, Acked, Reported,
     Local, Becomes
<1>5. ASSUME NEW j \in Jobs, LeaseExpires(j)
      PROVE  UNCHANGED worker /\ active' = active
  BY <1>5 DEF LeaseExpires
<1>6. UNCHANGED worker /\ active' \subseteq active => DrainInv' /\ HoldsOn
  BY DEF worker, DrainInv, HoldsOn
<1> QED BY <1>1, <1>2, <1>3, <1>4, <1>5, <1>6 DEF Next

\* A worker that drains takes no assignment, whichever response it was reading,
\* and keeps its heartbeat, whatever request it had under way (pollForJobs).
THEOREM DrainTakesNothing == Spec => DrainHoldsOn
<1>1. Init => DrainInv
  BY DEF Init, DrainInv
<1>2. DrainInv /\ [Next]_vars => DrainInv'
  BY DrainStep DEF vars, worker, DrainInv
<1>3. DrainInv /\ [Next]_vars => [HoldsOn]_vars
  BY DrainStep
<1>4. HoldsOn <=> (drain # "none" => /\ active' \subseteq active
                                     /\ heart /\ state' # "stopped" => heart')
  BY DEF HoldsOn
<1> HIDE DEF HoldsOn
<1> QED BY <1>1, <1>2, <1>3, <1>4, PTL DEF Spec, DrainHoldsOn

-----------------------------------------------------------------------------
Kinds == {"done", "failed", "bad"}

JobType == [pc : Pcs, aborted : BOOLEAN, memo : SUBSET Ids, base : Nat,
            steps : Seq(Step), cursor : Nat, sending : 0 .. Batch,
            queued : Nat, timer : BOOLEAN, off : BOOLEAN,
            outcome : Outcomes, heard : SUBSET Nat]

Row == [slot : Nat, id : Ids, kind : Kinds]

InHand(j) == j.sending > 0 \/ ~Finished(j)

-----------------------------------------------------------------------------
(* One job. *)

\* What is on its way lies in the tail, and can be encoded.
InTail(j) ==
  /\ j.cursor + j.sending <= Len(j.steps)
  /\ \A i \in 1 .. Len(j.steps) :
       j.cursor < i /\ i <= j.cursor + j.sending => j.steps[i].kind # "bad"

\* A handler takes a step once, and none that is memoized.
Distinct(j) ==
  /\ \A i, k \in 1 .. Len(j.steps) : j.steps[i].id = j.steps[k].id => i = k
  /\ \A i \in 1 .. Len(j.steps) : j.steps[i].id \notin j.memo /\ j.steps[i].id # Sleep

\* Compensation is the last a handler does.
UndoLast(j) ==
  \A i \in 1 .. Len(j.steps) :
    j.steps[i].id = Undo => j.pc \in {"finishing", "reporting", "over"}

\* No checkpoint is on its way before the handler runs, nor with the report.
InTurn(j) ==
  /\ j.sending > 0 => j.pc \notin {"none", "accepted", "acking", "reporting"}
  /\ j.pc \in {"none", "accepted", "acking"} \/ j.outcome = "unstarted" =>
       j.steps = <<>> /\ ~j.timer
  /\ j.pc = "reporting" => j.off \/ ~j.timer

\* What an outcome says of the steps that were recorded.
Accounts(j, o) ==
  /\ o = "yielded" =>
       Sleep \notin j.memo /\ \A i \in 1 .. Len(j.steps) : j.steps[i].kind # "bad"
  /\ o = "completed" =>
       /\ 1 .. Steps \subseteq j.memo \cup {j.steps[i].id : i \in 1 .. Len(j.steps)}
       /\ \A i \in 1 .. Len(j.steps) : j.steps[i].kind = "done"

Honest(j) ==
  /\ j.pc = "running" =>
       j.outcome = "none" /\ \A i \in 1 .. Len(j.steps) : j.steps[i].kind # "failed"
  /\ j.pc \in {"accepted", "acking"} => j.outcome = "none"
  /\ j.pc = "compensating" => j.outcome = "fatal"
  /\ j.pc = "finishing" => j.outcome \notin {"none", "unstarted"}
  /\ Accounts(j, j.outcome)

\* What was confirmed lies before the cursor.
BehindCursor(j) == \A n \in j.heard : n < j.base + j.cursor

Ledger(j) == j \in JobType /\ InTail(j) /\ Distinct(j) /\ BehindCursor(j)

Sound(j) == Ledger(j) /\ UndoLast(j) /\ InTurn(j) /\ Honest(j)

-----------------------------------------------------------------------------
(* The rows of one run. *)

DoneIn(R) == {r.id : r \in {q \in R : q.kind = "done"}}

Numbered(R) ==
  /\ \A r, q \in R : r.slot = q.slot => r = q
  /\ \A r, q \in R : r.id = q.id /\ r.kind = "done" /\ q.kind = "done" => r = q
  /\ \E n \in Nat : {r.slot : r \in R} = 0 .. n - 1

\* The rows are those below the base and the first w steps of the job.
Stored(R, j, w) ==
  /\ j.cursor <= w /\ w <= Len(j.steps)
  /\ {r.slot : r \in R} = 0 .. j.base + w - 1
  /\ \A i \in 1 .. w : j.steps[i].kind # "bad"
  /\ \A r \in R :
       IF r.slot < j.base THEN r.kind = "done" => r.id \in j.memo
       ELSE /\ r.id = j.steps[r.slot - j.base + 1].id
            /\ r.kind = j.steps[r.slot - j.base + 1].kind

StepsInv ==
  /\ job \in [Exec -> JobType]
  /\ \A e \in Exec : Sound(job[e])
  /\ rows \in [Jobs -> SUBSET Row]
  /\ \A j \in Jobs : Numbered(rows[j])
  /\ batch \subseteq Exec
  /\ \A e \in batch : e[2] <= run[e[1]].seq
  /\ \A e \in Exec : job[e].timer => InHand(job[e])
  /\ \A e \in Exec : InHand(job[e]) =>
       /\ e[2] <= run[e[1]].seq
       /\ job[e].memo \subseteq DoneIn(rows[e[1]])
       /\ e[2] = run[e[1]].seq => \E w \in Nat : Stored(rows[e[1]], job[e], w)
  /\ \A j \in Jobs : run[j].phase = "completed" => 1 .. Steps \subseteq DoneIn(rows[j])

-----------------------------------------------------------------------------
(* The operators of the checkpointer. *)

LEMMA LeastNumber ==
  ASSUME NEW S \in SUBSET Nat, S # {}
  PROVE  \E n \in S : \A m \in S : n <= m
<1> DEFINE Less == OpToRel(<, Nat)
<1>1. IsWellFoundedOn(Less, Nat)
  BY NatLessThanWellFounded
<1>2. \A m, n \in Nat : m < n => <<m, n>> \in Less
  BY DEF Less, OpToRel
<1> HIDE DEF Less
<1>3. PICK n \in S : \A m \in S : <<m, n>> \notin Less
  BY <1>1, WFMin
<1>4. ASSUME NEW m \in S PROVE n <= m
  <2>1. m \in Nat /\ n \in Nat /\ ~(m < n)
    BY <1>2, <1>3
  <2> QED BY <2>1
<1> QED BY <1>4

LEMMA StepFields ==
  ASSUME NEW s \in Seq(Step), NEW i \in 1 .. Len(s)
  PROVE  s[i] \in Step /\ s[i].id \in Ids /\ s[i].kind \in Kinds
<1>1. s[i] \in Step
  OBVIOUS
<1> QED BY <1>1 DEF Step, Kinds

LEMMA SliceOf ==
  ASSUME NEW s \in Seq(Step), NEW a \in Nat, NEW b \in Nat, a <= b, b <= Len(s)
  PROVE  /\ SubSeq(s, a + 1, b) \in Seq(Step) /\ Len(SubSeq(s, a + 1, b)) = b - a
         /\ \A i \in 1 .. b - a : SubSeq(s, a + 1, b)[i] = s[a + i]
<1>1. \A i \in a + 1 .. b : s[i] \in Step
  BY StepFields
<1>2. a + 1 \in Int /\ b \in Int /\ b - (a + 1) + 1 = b - a /\ (~(a + 1 <= b) => b - a = 0)
  OBVIOUS
<1>3. \A i \in 1 .. b - a : a + 1 + i - 1 = a + i
  OBVIOUS
<1> QED BY <1>1, <1>2, <1>3, SubSeqProperties

\* What is left of a checkpoint is a prefix, none of which is bad.
LEMMA EncodableFits ==
  ASSUME NEW s \in Seq(Step)
  PROVE  /\ Len(Encodable(s)) \in Nat /\ Len(Encodable(s)) <= Len(s)
         /\ \A i \in 1 .. Len(Encodable(s)) : s[i].kind # "bad"
<1> DEFINE bad == {i \in DOMAIN s : s[i].kind = "bad"}
           First(i) == i + 1 \in bad /\ \A k \in bad : i < k
<1>0. DOMAIN s = 1 .. Len(s) /\ Len(s) \in Nat
  OBVIOUS
<1>1. CASE bad = {}
  <2>1. Encodable(s) = s
    BY <1>1 DEF Encodable
  <2>2. \A i \in DOMAIN s : i \notin bad
    BY <1>1
  <2> QED BY <1>0, <2>1, <2>2
<1>2. CASE bad # {}
  <2>1. PICK n \in bad : \A m \in bad : n <= m
    <3>1. bad \in SUBSET Nat
      BY <1>0
    <3> HIDE DEF bad
    <3> QED BY <1>2, <3>1, LeastNumber
  <2>2. n - 1 \in 0 .. Len(s) /\ First(n - 1)
    BY <1>0, <2>1
  <2> DEFINE c == CHOOSE i \in 0 .. Len(s) : First(i)
  <2>3. c \in 0 .. Len(s) /\ First(c)
    BY <2>2
  <2>4. Encodable(s) = SubSeq(s, 1, c)
    BY <1>2 DEF Encodable
  <2> HIDE DEF c
  <2>5. Len(SubSeq(s, 1, c)) = c
    BY <1>0, <2>3
  <2>6. \A i \in 1 .. c : s[i].kind # "bad"
    BY <1>0, <2>3
  <2> QED BY <1>0, <2>3, <2>4, <2>5, <2>6
<1> QED BY <1>1, <1>2

LEMMA PendingFits ==
  ASSUME NEW j \in JobType, j.cursor <= Len(j.steps)
  PROVE  /\ Len(Pending(j)) \in 0 .. Batch
         /\ j.cursor + Len(Pending(j)) <= Len(j.steps)
         /\ \A i \in 1 .. Len(j.steps) :
              j.cursor < i /\ i <= j.cursor + Len(Pending(j)) => j.steps[i].kind # "bad"
<1> DEFINE n == IF j.cursor + Batch < Len(j.steps) THEN j.cursor + Batch ELSE Len(j.steps)
           s == SubSeq(j.steps, j.cursor + 1, n)
<1>0. /\ j.steps \in Seq(Step) /\ j.cursor \in Nat /\ Len(j.steps) \in Nat
      /\ Batch \in Nat
  BY WorkerAssumption DEF JobType
<1>1. n \in Nat /\ j.cursor <= n /\ n <= Len(j.steps) /\ n <= j.cursor + Batch
  BY <1>0
<1>2. Pending(j) = Encodable(s)
  BY DEF Pending
<1> HIDE DEF n
<1>3. s \in Seq(Step) /\ Len(s) = n - j.cursor
      /\ \A i \in 1 .. Len(s) : s[i] = j.steps[j.cursor + i]
  <2>1. Len(s) = n - j.cursor /\ s \in Seq(Step) /\ \A i \in 1 .. n - j.cursor : s[i] = j.steps[j.cursor + i]
    BY <1>0, <1>1, SliceOf
  <2> QED BY <2>1
<1> HIDE DEF s
<1>4. /\ Len(Pending(j)) \in Nat /\ Len(Pending(j)) <= n - j.cursor
      /\ \A i \in 1 .. Len(Pending(j)) : s[i].kind # "bad"
  BY <1>2, <1>3, EncodableFits
<1>5. ASSUME NEW i \in 1 .. Len(j.steps), j.cursor < i, i <= j.cursor + Len(Pending(j))
      PROVE  j.steps[i].kind # "bad"
  <2>1. i - j.cursor \in 1 .. Len(Pending(j)) /\ i - j.cursor \in 1 .. Len(s)
    <3>1. i \in Nat /\ Len(s) \in Nat /\ Len(Pending(j)) <= Len(s)
      BY <1>0, <1>1, <1>3, <1>4
    <3> QED BY <1>0, <1>4, <1>5, <3>1
  <2>2. s[i - j.cursor] = j.steps[j.cursor + (i - j.cursor)]
    BY <1>3, <2>1
  <2>3. j.cursor + (i - j.cursor) = i
    BY <1>0
  <2> QED BY <1>4, <2>1, <2>2, <2>3
<1> QED BY <1>0, <1>1, <1>4, <1>5

\* The handler's next step is one it has not taken.
LEMMA NextStepIsNew ==
  ASSUME NEW j \in JobType, Todo(j) # {}
  PROVE  /\ NextStep(j) \in 1 .. Steps /\ NextStep(j) \notin j.memo
         /\ \A i \in 1 .. Len(j.steps) : j.steps[i].id # NextStep(j)
<1>0. Todo(j) \in SUBSET Nat
  BY DEF Todo
<1>1. \E i \in Todo(j) : \A k \in Todo(j) : i <= k
  BY <1>0, LeastNumber
<1>2. NextStep(j) \in Todo(j)
  BY <1>1 DEF NextStep
<1>3. j.steps \in Seq(Step)
  BY DEF JobType
<1>4. \A i \in 1 .. Len(j.steps) : j.steps[i] \in Ran(j)
  BY <1>3 DEF Ran
<1> QED BY <1>2, <1>4 DEF Todo

-----------------------------------------------------------------------------
(* A job stays sound, and what is stored stays so. *)

\* From j to k the job has recorded more, at most.
Extends(j, k) ==
  /\ k.base = j.base /\ k.memo = j.memo /\ k.cursor = j.cursor
  /\ Len(j.steps) <= Len(k.steps)
  /\ \A i \in 1 .. Len(j.steps) : k.steps[i] = j.steps[i]

\* A step that records none leaves the same steps behind.
SameSteps(j, k) ==
  /\ k.base = j.base /\ k.memo = j.memo /\ k.cursor = j.cursor
  /\ k.steps = j.steps /\ k.heard = j.heard
  /\ j.pc \in {"finishing", "reporting", "over"} => k.pc \in {"finishing", "reporting", "over"}

LEMMA SameIsSound ==
  ASSUME NEW j, Sound(j), NEW k \in JobType, SameSteps(j, k),
         k.sending = 0 \/ k.sending = j.sending, InTurn(k), Honest(k)
  PROVE  Sound(k)
<1>1. j.sending \in Nat /\ j.cursor \in Nat /\ Len(j.steps) \in Nat
  BY DEF Sound, Ledger, JobType
<1>2. InTail(k)
  BY <1>1 DEF Sound, Ledger, InTail, SameSteps
<1>3. Distinct(k) /\ UndoLast(k)
  BY DEF Sound, Ledger, Distinct, UndoLast, SameSteps
<1>4. BehindCursor(k)
  BY DEF Sound, Ledger, BehindCursor, SameSteps
<1> QED BY <1>2, <1>3, <1>4 DEF Sound, Ledger

LEMMA SameExtends ==
  ASSUME NEW j \in JobType, NEW k, SameSteps(j, k)
  PROVE  Extends(j, k)
BY DEF JobType, SameSteps, Extends

LEMMA ExtendsThrough ==
  ASSUME NEW i \in JobType, NEW j \in JobType, NEW k \in JobType, Extends(i, j), Extends(j, k)
  PROVE  Extends(i, k)
<1>1. Len(i.steps) \in Nat /\ Len(j.steps) \in Nat /\ Len(k.steps) \in Nat
  BY DEF JobType
<1> QED BY <1>1 DEF Extends

LEMMA SendSound ==
  ASSUME NEW j, Sound(j), j.sending = 0, j.off \/ j.pc \notin {"none", "accepted", "acking", "reporting"}
  PROVE  /\ Sound(Send(j)) /\ SameSteps(j, Send(j))
         /\ Send(j).pc = j.pc /\ Send(j).queued = j.queued
<1>1. CASE j.off
  BY <1>1 DEF Send, Sound, Ledger, JobType, SameSteps
<1>2. CASE ~j.off
  <2> DEFINE k == [j EXCEPT !.sending = Len(Pending(j))]
  <2>1. Send(j) = k
    BY <1>2 DEF Send
  <2>2. j \in JobType /\ j.cursor <= Len(j.steps)
    BY DEF Sound, Ledger, InTail, JobType
  <2>3. k \in JobType
    BY <2>2, PendingFits DEF JobType
  <2>4. /\ k.base = j.base /\ k.memo = j.memo /\ k.cursor = j.cursor /\ k.steps = j.steps
        /\ k.heard = j.heard /\ k.pc = j.pc /\ k.outcome = j.outcome /\ k.timer = j.timer
        /\ k.off = j.off /\ k.queued = j.queued /\ k.sending = Len(Pending(j))
    BY <2>2 DEF JobType
  <2>5. SameSteps(j, k)
    BY <2>2 DEF JobType, SameSteps
  <2> HIDE DEF k
  <2>6. InTail(k)
    BY <2>2, <2>4, PendingFits DEF InTail
  <2>7. Distinct(k) /\ UndoLast(k) /\ InTurn(k) /\ Honest(k) /\ BehindCursor(k)
    BY <1>2, <2>4 DEF Sound, Ledger, Distinct, UndoLast, InTurn, Honest, Accounts, BehindCursor
  <2> QED BY <2>1, <2>3, <2>4, <2>5, <2>6, <2>7 DEF Sound, Ledger
<1> QED BY <1>1, <1>2 DEF Sound, Ledger, JobType

LEMMA SameThrough ==
  ASSUME NEW i, NEW j, NEW k, SameSteps(i, j), SameSteps(j, k)
  PROVE  SameSteps(i, k)
BY DEF SameSteps

LEMMA FlushSound ==
  ASSUME NEW j, Sound(j), j.off \/ j.pc \notin {"none", "accepted", "acking", "reporting"}
  PROVE  Sound(Flush(j)) /\ SameSteps(j, Flush(j)) /\ Flush(j).pc = j.pc
<1>0. j \in JobType /\ j.sending \in Nat
  BY DEF Sound, Ledger, JobType
<1>1. CASE j.sending > 0
  <2> DEFINE k == [j EXCEPT !.queued = @ + 1]
  <2>1. k \in JobType /\ SameSteps(j, k) /\ k.sending = j.sending /\ k.pc = j.pc
    BY <1>0 DEF JobType, SameSteps
  <2>2. InTurn(k) /\ Honest(k)
    BY <1>0 DEF JobType, Sound, Ledger, InTurn, Honest, Accounts
  <2> HIDE DEF k
  <2>3. Sound(k)
    BY <2>1, <2>2, SameIsSound
  <2>4. Flush(j) = k
    BY <1>1 DEF Flush, k
  <2> QED BY <2>1, <2>3, <2>4
<1>2. CASE j.sending = 0
  <2>1. Flush(j) = Send(j)
    BY <1>2 DEF Flush
  <2> QED BY <1>2, <2>1, SendSound
<1> QED BY <1>0, <1>1, <1>2

\* The chain goes on from a job whose request is over, i.
LEMMA ChainNextSound ==
  ASSUME NEW j \in JobType, NEW i, i = [j EXCEPT !.sending = 0], Sound(i),
         j.pc \notin {"none", "accepted", "acking", "reporting"}
  PROVE  Sound(ChainNext(j)) /\ SameSteps(j, ChainNext(j)) /\ ChainNext(j).pc = j.pc
<1>0. /\ i.sending = 0 /\ i.pc = j.pc /\ i.queued = j.queued /\ SameSteps(j, i)
      /\ i \in JobType
  <2>1. i \in JobType
    BY DEF Sound, Ledger
  <2> QED BY <2>1 DEF JobType, SameSteps
<1> DEFINE k == Send(i)
<1>1. /\ Sound(k) /\ SameSteps(i, k) /\ k.pc = j.pc /\ k.queued = j.queued
      /\ k \in JobType
  BY <1>0, SendSound DEF Sound, Ledger
<1> DEFINE m == [k EXCEPT !.queued = @ - 1]
           n == [i EXCEPT !.queued = 0]
<1>2. ChainNext(j) = IF j.queued > 0 /\ k.sending > 0 THEN m ELSE n
  BY DEF ChainNext
<1> HIDE DEF k
<1>3. ASSUME j.queued > 0 PROVE Sound(m) /\ SameSteps(j, m) /\ m.pc = j.pc
  <2>1. m \in JobType /\ SameSteps(k, m) /\ m.sending = k.sending /\ m.pc = j.pc
    BY <1>1, <1>3 DEF JobType, SameSteps
  <2>2. InTurn(m) /\ Honest(m)
    BY <1>1 DEF JobType, Sound, Ledger, InTurn, Honest, Accounts
  <2> HIDE DEF m
  <2>3. Sound(m) /\ SameSteps(j, m)
    BY <1>0, <1>1, <2>1, <2>2, SameIsSound, SameThrough
  <2> QED BY <2>1, <2>3
<1>4. /\ Sound(n) /\ SameSteps(j, n) /\ n.pc = j.pc
  <2>1. n \in JobType /\ SameSteps(i, n) /\ n.sending = 0 /\ n.pc = j.pc
    BY <1>0 DEF JobType, SameSteps
  <2>2. InTurn(n) /\ Honest(n)
    BY <1>0 DEF JobType, Sound, Ledger, InTurn, Honest, Accounts
  <2> HIDE DEF n
  <2>3. Sound(n) /\ SameSteps(j, n)
    BY <1>0, <2>1, <2>2, SameIsSound, SameThrough
  <2> QED BY <2>1, <2>3
<1> HIDE DEF m, n
<1> QED BY <1>2, <1>3, <1>4

LEMMA SettledSound ==
  ASSUME NEW j, Sound(j)
  PROVE  Sound(Settled(j)) /\ SameSteps(j, Settled(j))
<1>0. j \in JobType
  BY DEF Sound, Ledger
<1>1. CASE j.pc = "finishing" /\ j.sending = 0
  <2> DEFINE k == [j EXCEPT !.off = TRUE, !.pc = IF j.aborted THEN "over" ELSE "reporting"]
  <2>1. /\ k \in JobType /\ SameSteps(j, k) /\ k.sending = 0 /\ k.off
        /\ k.pc \in {"over", "reporting"}
    BY <1>0, <1>1 DEF JobType, SameSteps, Pcs
  <2>2. k.outcome = j.outcome /\ k.steps = j.steps /\ k.memo = j.memo /\ k.timer = j.timer
    BY <1>0 DEF JobType
  <2>3. Settled(j) = k
    BY <1>1 DEF Settled
  <2> HIDE DEF k
  <2>4. InTurn(k)
    BY <2>1, <2>2 DEF Sound, Ledger, InTurn
  <2>5. Honest(k)
    BY <2>1, <2>2 DEF Sound, Ledger, Honest, Accounts
  <2> QED BY <2>1, <2>3, <2>4, <2>5, SameIsSound
<1>2. CASE ~(j.pc = "finishing" /\ j.sending = 0)
  BY <1>0, <1>2 DEF Settled, SameSteps
<1> QED BY <1>1, <1>2

LEMMA AbortedSound ==
  ASSUME NEW j, Sound(j)
  PROVE  Sound(Aborted(j)) /\ SameSteps(j, Aborted(j)) /\ Aborted(j).pc = j.pc
         /\ Aborted(j).sending = j.sending /\ ~Aborted(j).timer
<1> DEFINE k == Aborted(j)
<1>0. j \in JobType
  BY DEF Sound, Ledger
<1>1. k \in JobType /\ SameSteps(j, k) /\ k.sending = j.sending /\ k.pc = j.pc /\ ~k.timer
  BY <1>0 DEF JobType, SameSteps, Aborted
<1>2. k.outcome = j.outcome
  BY <1>0 DEF JobType, Aborted
<1> HIDE DEF k
<1>3. InTurn(k) /\ Honest(k)
  BY <1>1, <1>2 DEF Sound, Ledger, InTurn, Honest, Accounts, SameSteps
<1>4. Sound(k)
  BY <1>1, <1>3, SameIsSound
<1> QED BY <1>1, <1>4 DEF k

LEMMA RecordedExtends ==
  ASSUME NEW j \in JobType, NEW s \in Step
  PROVE  LET k == Recorded(j, s)
         IN  /\ k \in JobType /\ Extends(j, k) /\ k.steps = Append(j.steps, s)
             /\ Len(k.steps) = Len(j.steps) + 1 /\ k.steps[Len(j.steps) + 1] = s
             /\ k.sending = j.sending /\ k.heard = j.heard /\ k.pc = j.pc
             /\ k.outcome = j.outcome /\ k.aborted = j.aborted
<1> DEFINE k == Recorded(j, s)
<1>1. j.steps \in Seq(Step) /\ Len(j.steps) \in Nat
  BY DEF JobType
<1>2. /\ Append(j.steps, s) \in Seq(Step) /\ Len(Append(j.steps, s)) = Len(j.steps) + 1
      /\ Append(j.steps, s)[Len(j.steps) + 1] = s
      /\ \A i \in 1 .. Len(j.steps) : Append(j.steps, s)[i] = j.steps[i]
  BY <1>1, AppendProperties
<1>3. /\ k \in JobType /\ k.steps = Append(j.steps, s)
      /\ k.base = j.base /\ k.memo = j.memo /\ k.cursor = j.cursor
      /\ k.sending = j.sending /\ k.heard = j.heard /\ k.pc = j.pc
      /\ k.outcome = j.outcome /\ k.aborted = j.aborted
  BY <1>2 DEF JobType, Recorded
<1> QED BY <1>1, <1>2, <1>3 DEF Extends

\* A step the handler had not taken: nothing that does not depend on where the
\* handler is changes.
LEMMA RecordedLedger ==
  ASSUME NEW j, Ledger(j), NEW s \in Step, s.id \notin j.memo, s.id # Sleep,
         \A i \in 1 .. Len(j.steps) : j.steps[i].id # s.id
  PROVE  Ledger(Recorded(j, s))
<1> DEFINE k == Recorded(j, s)
           n == Len(j.steps)
<1>1. /\ k \in JobType /\ Extends(j, k) /\ Len(k.steps) = n + 1 /\ k.steps[n + 1] = s
      /\ k.sending = j.sending /\ k.heard = j.heard
  BY RecordedExtends DEF Ledger
<1>2. n \in Nat /\ j.cursor \in Nat /\ j.sending \in Nat /\ j.cursor + j.sending <= n
  BY DEF Ledger, JobType, InTail
<1> HIDE DEF k, n
<1>3. \A i \in 1 .. n + 1 : i = n + 1 \/ i \in 1 .. n
  BY <1>2
<1>4. \A i \in 1 .. n : k.steps[i] = j.steps[i]
  BY <1>1 DEF Extends, n
<1>5. InTail(k)
  BY <1>1, <1>2, <1>3, <1>4 DEF Ledger, InTail, Extends, n
<1>6. Distinct(k)
  <2>1. ASSUME NEW i \in 1 .. n + 1
        PROVE  k.steps[i].id \notin k.memo /\ k.steps[i].id # Sleep
    BY <1>1, <1>3, <1>4, <2>1 DEF Ledger, Distinct, Extends, n
  <2>2. ASSUME NEW i \in 1 .. n + 1, NEW m \in 1 .. n + 1, k.steps[i].id = k.steps[m].id
        PROVE  i = m
    <3>1. CASE i \in 1 .. n /\ m \in 1 .. n
      BY <1>4, <2>2, <3>1 DEF Ledger, Distinct, n
    <3>2. CASE i = n + 1 /\ m \in 1 .. n
      BY <1>1, <1>4, <2>2, <3>2 DEF n
    <3>3. CASE m = n + 1 /\ i \in 1 .. n
      BY <1>1, <1>4, <2>2, <3>3 DEF n
    <3> QED BY <1>3, <3>1, <3>2, <3>3
  <2> QED BY <1>1, <2>1, <2>2 DEF Distinct
<1>7. BehindCursor(k)
  BY <1>1 DEF Ledger, BehindCursor, Extends
<1> QED BY <1>1, <1>5, <1>6, <1>7 DEF Ledger, k

LEMMA RecordedSound ==
  ASSUME NEW j, Sound(j), NEW s \in Step, s.id \in 1 .. Steps, s.id \notin j.memo,
         \A i \in 1 .. Len(j.steps) : j.steps[i].id # s.id,
         \/ j.pc = "running" /\ s.kind # "failed"
         \/ j.pc = "finishing" /\ j.outcome # "completed" /\ s.kind = "done"
  PROVE  Sound(Recorded(j, s))
<1> DEFINE k == Recorded(j, s)
           n == Len(j.steps)
<1>0. Steps \in Nat /\ s.id # Sleep /\ s.id # Undo
  BY WorkerAssumption DEF Sleep, Undo
<1>1. /\ k \in JobType /\ Extends(j, k) /\ Len(k.steps) = n + 1 /\ k.steps[n + 1] = s
      /\ k.sending = j.sending /\ k.pc = j.pc /\ k.outcome = j.outcome
  BY RecordedExtends DEF Sound, Ledger
<1>2. Ledger(k) /\ n \in Nat
  BY <1>0, RecordedLedger DEF Sound, Ledger, JobType
<1> HIDE DEF k, n
<1>3. \A i \in 1 .. n + 1 : i = n + 1 \/ i \in 1 .. n
  BY <1>2
<1>4. \A i \in 1 .. n : k.steps[i] = j.steps[i]
  BY <1>1 DEF Extends, n
<1>5. UndoLast(k)
  BY <1>0, <1>1, <1>3, <1>4 DEF Sound, UndoLast, n
<1>6. j.outcome # "unstarted" /\ j.outcome # "completed"
  BY DEF Sound, Honest
<1>7. InTurn(k)
  BY <1>1, <1>6 DEF Sound, InTurn
<1>8. Honest(k)
  BY <1>1, <1>3, <1>4, <1>6 DEF Sound, Honest, Accounts, Extends, n
<1> QED BY <1>2, <1>5, <1>7, <1>8 DEF Sound, k

\* finish(): the outcome must be true of what was recorded.
LEMMA FinishSound ==
  ASSUME NEW j, Ledger(j), NEW o \in {"completed", "yielded", "failed", "fatal"}, Accounts(j, o)
  PROVE  Sound(Finish(j, o)) /\ SameSteps(j, Finish(j, o))
<1> DEFINE k == [j EXCEPT !.pc = "finishing", !.outcome = o, !.timer = FALSE]
<1>0. j \in JobType
  BY DEF Ledger
<1>1. /\ k \in JobType /\ SameSteps(j, k) /\ k.pc = "finishing" /\ k.outcome = o /\ ~k.timer
      /\ k.sending = j.sending
  BY <1>0 DEF JobType, SameSteps, Pcs, Outcomes
<1> HIDE DEF k
<1>2. Ledger(k)
  BY <1>1 DEF Ledger, InTail, Distinct, BehindCursor, SameSteps
<1>3. UndoLast(k) /\ InTurn(k) /\ Honest(k)
  BY <1>1 DEF UndoLast, InTurn, Honest, Accounts, SameSteps
<1>4. Finish(j, o) = Settled(k)
  BY DEF Finish, k
<1> QED BY <1>1, <1>2, <1>3, <1>4, SettledSound, SameThrough DEF Sound

\* The handler ends: what follows is sound, and records nothing more.
LEMMA EndsSound ==
  ASSUME NEW j, Ledger(j), UndoLast(j), j.pc = "running",
         NEW o \in {"completed", "yielded", "failed", "fatal"},
         o \in {"completed", "yielded"} =>
           \A i \in 1 .. Len(j.steps) : j.steps[i].kind # "failed",
         o = "completed" => Todo(j) = {},
         o = "yielded" => Sleep \notin j.memo,
         j.outcome = "none",
         NEW k \in Ends(j, o)
  PROVE  Sound(k) /\ SameSteps(j, k)
<1> DEFINE p == IF o \in {"completed", "yielded"} /\ \E s \in Ran(j) : s.kind = "bad"
                THEN "fatal" ELSE o
<1>0. j \in JobType /\ j.steps \in Seq(Step)
  BY DEF Ledger, JobType
<1>1. p \in {"completed", "yielded", "failed", "fatal"}
  OBVIOUS
<1>2. Accounts(j, p)
  <2>1. \A i \in 1 .. Len(j.steps) : j.steps[i] \in Ran(j) /\ j.steps[i].kind \in Kinds
    BY <1>0, StepFields DEF Ran
  <2>2. p \in {"completed", "yielded"} =>
          p = o /\ \A i \in 1 .. Len(j.steps) : j.steps[i].kind = "done"
    BY <2>1 DEF Kinds
  <2>3. p = "completed" =>
          1 .. Steps \subseteq j.memo \cup {j.steps[i].id : i \in 1 .. Len(j.steps)}
    <3>1. {s.id : s \in Ran(j)} \subseteq {j.steps[i].id : i \in 1 .. Len(j.steps)}
      BY <1>0 DEF Ran
    <3>2. p = "completed" => Todo(j) = {}
      BY <2>2
    <3> HIDE DEF p
    <3> QED BY <3>1, <3>2 DEF Todo
  <2> HIDE DEF p
  <2> QED BY <2>2, <2>3 DEF Accounts
<1> DEFINE c == [j EXCEPT !.pc = "compensating", !.outcome = p]
<1>3. k = Finish(j, p) \/ (k = c /\ p = "fatal")
  BY DEF Ends
<1>4. ASSUME p = "fatal" PROVE Sound(c) /\ SameSteps(j, c)
  <2>1. /\ c \in JobType /\ SameSteps(j, c) /\ c.pc = "compensating" /\ c.outcome = "fatal"
        /\ c.sending = j.sending
    BY <1>0, <1>4 DEF JobType, SameSteps, Pcs, Outcomes
  <2> HIDE DEF c, p
  <2>2. Ledger(c) /\ UndoLast(c)
    BY <2>1 DEF Ledger, InTail, Distinct, BehindCursor, UndoLast, SameSteps
  <2>3. InTurn(c) /\ Honest(c)
    BY <2>1 DEF InTurn, Honest, Accounts, SameSteps
  <2> QED BY <2>1, <2>2, <2>3 DEF Sound
<1> HIDE DEF p, c
<1>5. CASE k = Finish(j, p)
  BY <1>1, <1>2, <1>5, FinishSound
<1> QED BY <1>3, <1>4, <1>5

-----------------------------------------------------------------------------
(* What a request adds to the rows of its run. *)

NewRow(j, K, i) == [slot |-> Offset(j) + i - 1, id |-> K[i].id, kind |-> K[i].kind]

Added(j, K) == {NewRow(j, K, i) : i \in DOMAIN K}

\* The steps K, sent at the cursor of j, where the engine has w of its steps.
Fits(j, w, K) ==
  /\ K \in Seq(Step)
  /\ \A i \in 1 .. Len(K) : j.cursor + i <= w => K[i] = j.steps[j.cursor + i]
  /\ \A i \in 1 .. Len(K), m \in 1 .. w : K[i].id = j.steps[m].id => m = j.cursor + i
  /\ \A i, k \in 1 .. Len(K) : K[i].id = K[k].id => i = k
  /\ \A i \in 1 .. Len(K) : K[i].id \notin j.memo

\* A slot at or past the rows there are is one of those to be added.
LEMMA OffsetIn ==
  ASSUME NEW n \in Int, NEW b \in Int, NEW c \in Int, NEW l \in Int, NEW w \in Int,
         c <= w, n >= b + w, n <= b + (c + l) - 1
  PROVE  n - b - c + 1 \in 1 .. l
<1>1. n - b - c + 1 \in Int /\ n - b - c + 1 >= 1 /\ n - b - c + 1 <= l
  OBVIOUS
<1> QED BY <1>1

\* What a request adds keeps the rows numbered without a gap.
LEMMA AddedRows ==
  ASSUME NEW R \in SUBSET Row, Numbered(R), NEW j \in JobType, NEW w \in Nat,
         Stored(R, j, w), NEW K, Fits(j, w, K)
  PROVE  LET S == R \cup Added(j, K)
             v == IF w < j.cursor + Len(K) THEN j.cursor + Len(K) ELSE w
         IN  /\ S \in SUBSET Row /\ Numbered(S) /\ v \in Nat
             /\ {r.slot : r \in S} = 0 .. j.base + v - 1
             /\ \A r \in R, i \in 1 .. Len(K) : r.slot = NewRow(j, K, i).slot => r = NewRow(j, K, i)
<1> DEFINE S == R \cup Added(j, K)
           v == IF w < j.cursor + Len(K) THEN j.cursor + Len(K) ELSE w
<1>0. /\ j.base \in Nat /\ j.cursor \in Nat /\ K \in Seq(Step) /\ Len(K) \in Nat
      /\ DOMAIN K = 1 .. Len(K) /\ j.cursor <= w /\ j.steps \in Seq(Step)
      /\ w <= Len(j.steps) /\ Len(j.steps) \in Nat
  BY DEF JobType, Fits, Stored
<1>1. \A i \in 1 .. Len(K) :
        /\ NewRow(j, K, i).slot = j.base + j.cursor + i - 1
        /\ NewRow(j, K, i).id = K[i].id /\ NewRow(j, K, i).kind = K[i].kind
        /\ NewRow(j, K, i) \in Row
  <2> SUFFICES ASSUME NEW i \in 1 .. Len(K)
               PROVE  /\ NewRow(j, K, i).slot = j.base + j.cursor + i - 1
                      /\ NewRow(j, K, i).id = K[i].id /\ NewRow(j, K, i).kind = K[i].kind
                      /\ NewRow(j, K, i) \in Row
    OBVIOUS
  <2>1. K[i].id \in Ids /\ K[i].kind \in Kinds
    BY <1>0, StepFields
  <2>2. j.base + j.cursor + i - 1 \in Nat
    BY <1>0
  <2> QED BY <2>1, <2>2 DEF NewRow, Offset, Row
<1>2. \A r \in Added(j, K) : \E i \in 1 .. Len(K) : r = NewRow(j, K, i)
  BY <1>0 DEF Added
<1>3. \A i \in 1 .. Len(K) : NewRow(j, K, i) \in Added(j, K)
  BY <1>0 DEF Added
<1>4. \A r \in R : r.slot \in Nat /\ r.slot < j.base + w
  <2>1. \A r \in R : r.slot \in 0 .. j.base + w - 1
    BY DEF Stored
  <2> QED BY <1>0, <2>1
<1>5. ASSUME NEW r \in R, NEW i \in 1 .. Len(K), r.slot = NewRow(j, K, i).slot
      PROVE  r = NewRow(j, K, i)
  <2>1. r.slot - j.base + 1 = j.cursor + i /\ j.cursor + i <= w /\ ~(r.slot < j.base)
    BY <1>0, <1>1, <1>4, <1>5
  <2>2. K[i] = j.steps[j.cursor + i]
    BY <2>1 DEF Fits
  <2>3. r.id = K[i].id /\ r.kind = K[i].kind
    BY <2>1, <2>2 DEF Stored
  <2>4. r \in Row /\ NewRow(j, K, i) \in Row
    BY <1>1
  <2> QED BY <1>1, <1>5, <2>3, <2>4 DEF Row
<1>6. ASSUME NEW r \in R, NEW i \in 1 .. Len(K), r.kind = "done", r.id = K[i].id
      PROVE  r = NewRow(j, K, i)
  <2>1. r.id \notin j.memo
    BY <1>6 DEF Fits
  <2>2. ~(r.slot < j.base)
    BY <1>6, <2>1 DEF Stored
  <2> DEFINE m == r.slot - j.base + 1
  <2>3. m \in 1 .. w /\ r.id = j.steps[m].id
    BY <1>0, <1>4, <2>2 DEF Stored
  <2>4. m = j.cursor + i
    BY <1>6, <2>3 DEF Fits
  <2>5. r.slot = NewRow(j, K, i).slot
    <3>1. r.slot \in Nat /\ NewRow(j, K, i).slot = j.base + j.cursor + i - 1
      BY <1>1, <1>4
    <3>2. r.slot - j.base + 1 = j.cursor + i
      BY <2>4
    <3>3. \A a, b, c, d \in Int : a - b + 1 = c + d => a = b + c + d - 1
      OBVIOUS
    <3>4. r.slot \in Int /\ j.base \in Int /\ j.cursor \in Int /\ i \in Int
      BY <1>0, <3>1
    <3>5. r.slot = j.base + j.cursor + i - 1
      BY <3>2, <3>3, <3>4
    <3> QED BY <3>1, <3>5
  <2> QED BY <1>5, <2>5
<1>7. ASSUME NEW i \in 1 .. Len(K), NEW k \in 1 .. Len(K),
             \/ NewRow(j, K, i).slot = NewRow(j, K, k).slot
             \/ NewRow(j, K, i).id = NewRow(j, K, k).id
      PROVE  i = k
  <2>1. CASE NewRow(j, K, i).slot = NewRow(j, K, k).slot
    BY <1>0, <1>1, <2>1
  <2>2. CASE NewRow(j, K, i).id = NewRow(j, K, k).id
    BY <1>1, <2>2 DEF Fits
  <2> QED BY <1>7, <2>1, <2>2
<1>8. v \in Nat
  BY <1>0
<1>9. {r.slot : r \in S} = 0 .. j.base + v - 1
  <2>1. ASSUME NEW r \in S PROVE r.slot \in 0 .. j.base + v - 1
    <3>1. CASE r \in R
      <4>1. r.slot \in Nat /\ r.slot < j.base + w
        BY <1>4, <3>1
      <4> QED BY <1>0, <4>1
    <3>2. CASE r \in Added(j, K)
      <4>1. PICK i \in 1 .. Len(K) : r = NewRow(j, K, i)
        BY <1>2, <3>2
      <4>2. r.slot = j.base + j.cursor + i - 1
        BY <1>1, <4>1
      <4> QED BY <1>0, <4>2
    <3> QED BY <2>1, <3>1, <3>2
  <2>2. ASSUME NEW n \in 0 .. j.base + v - 1 PROVE \E r \in S : n = r.slot
    <3>1. CASE n < j.base + w
      <4>1. n \in 0 .. j.base + w - 1
        BY <1>0, <3>1
      <4> QED BY <4>1 DEF Stored
    <3>2. CASE ~(n < j.base + w)
      <4>1. n - j.base - j.cursor + 1 \in 1 .. Len(K)
        <5>1. n \in Int /\ n <= j.base + v - 1 /\ n >= j.base + w
          BY <1>0, <1>8, <3>2
        <5>2. v = j.cursor + Len(K)
          BY <1>0, <1>8, <5>1
        <5>3. /\ j.base \in Int /\ j.cursor \in Int /\ Len(K) \in Int
              /\ w \in Int /\ j.cursor <= w
          BY <1>0
        <5>4. n \in Int /\ n <= j.base + (j.cursor + Len(K)) - 1 /\ n >= j.base + w
          BY <5>1, <5>2
        <5> QED BY <5>3, <5>4, OffsetIn
      <4>2. NewRow(j, K, n - j.base - j.cursor + 1).slot = n
        <5>1. n \in Int
          OBVIOUS
        <5>2. NewRow(j, K, n - j.base - j.cursor + 1).slot
                = j.base + j.cursor + (n - j.base - j.cursor + 1) - 1
          BY <1>1, <4>1
        <5> QED BY <1>0, <5>1, <5>2
      <4> QED BY <1>3, <4>1, <4>2
    <3> QED BY <3>1, <3>2
  <2> QED BY <2>1, <2>2
<1>10. S \in SUBSET Row
  BY <1>1, <1>2
<1>11. ASSUME NEW r \in S, NEW q \in S,
              \/ r.slot = q.slot
              \/ r.id = q.id /\ r.kind = "done" /\ q.kind = "done"
       PROVE  r = q
  <2>1. CASE r \in R /\ q \in R
    BY <1>11, <2>1 DEF Numbered
  <2>2. CASE r \in R /\ q \notin R
    <3>1. PICK i \in 1 .. Len(K) : q = NewRow(j, K, i)
      BY <1>2, <2>2
    <3> QED BY <1>1, <1>5, <1>6, <1>11, <2>2, <3>1
  <2>3. CASE r \notin R /\ q \in R
    <3>1. PICK i \in 1 .. Len(K) : r = NewRow(j, K, i)
      BY <1>2, <2>3
    <3> QED BY <1>1, <1>5, <1>6, <1>11, <2>3, <3>1
  <2>4. CASE r \notin R /\ q \notin R
    <3>1. PICK i \in 1 .. Len(K) : r = NewRow(j, K, i)
      BY <1>2, <2>4
    <3>2. PICK k \in 1 .. Len(K) : q = NewRow(j, K, k)
      BY <1>2, <2>4
    <3> QED BY <1>7, <1>11, <3>1, <3>2
  <2> QED BY <2>1, <2>2, <2>3, <2>4
<1>12. Numbered(S)
  <2>1. j.base + v \in Nat
    BY <1>0, <1>8
  <2> HIDE DEF S, v
  <2>2. \E n \in Nat : {r.slot : r \in S} = 0 .. n - 1
    <3>1. j.base + v - 1 = (j.base + v) - 1
      BY <1>0, <1>8
    <3> WITNESS j.base + v \in Nat
    <3> QED BY <1>9, <3>1
  <2>3. \A r, q \in S : r.slot = q.slot => r = q
    BY <1>11
  <2>4. \A r, q \in S : r.id = q.id /\ r.kind = "done" /\ q.kind = "done" => r = q
    BY <1>11
  <2> QED BY <2>2, <2>3, <2>4 DEF Numbered
<1> QED BY <1>5, <1>8, <1>9, <1>10, <1>12

-----------------------------------------------------------------------------
(* What the requests carry. *)

\* A slice of the tail from the cursor: a checkpoint, or the whole tail.
LEMMA SliceFits ==
  ASSUME NEW j, Ledger(j), NEW R, NEW w \in Nat, Stored(R, j, w),
         NEW b \in Nat, j.cursor <= b, b <= Len(j.steps)
  PROVE  LET K == SubSeq(j.steps, j.cursor + 1, b)
         IN  /\ Fits(j, w, K) /\ Len(K) = b - j.cursor
             /\ \A i \in 1 .. Len(K) : K[i] = j.steps[j.cursor + i]
<1> DEFINE K == SubSeq(j.steps, j.cursor + 1, b)
<1>0. j.steps \in Seq(Step) /\ j.cursor \in Nat /\ Len(j.steps) \in Nat /\ w <= Len(j.steps)
  BY DEF Ledger, JobType, Stored
<1>1. K \in Seq(Step) /\ Len(K) = b - j.cursor
      /\ \A i \in 1 .. b - j.cursor : K[i] = j.steps[j.cursor + i]
  BY <1>0, SliceOf
<1> HIDE DEF K
<1>2. \A i \in 1 .. Len(K) : K[i] = j.steps[j.cursor + i] /\ j.cursor + i \in 1 .. Len(j.steps)
  BY <1>0, <1>1
<1>3. \A i \in 1 .. Len(K), m \in 1 .. w : K[i].id = j.steps[m].id => m = j.cursor + i
  <2>1. \A m \in 1 .. w : m \in 1 .. Len(j.steps)
    BY <1>0
  <2> QED BY <1>2, <2>1 DEF Ledger, Distinct
<1>4. ASSUME NEW i \in 1 .. Len(K), NEW k \in 1 .. Len(K), K[i].id = K[k].id
      PROVE  i = k
  <2>1. /\ j.cursor + i \in 1 .. Len(j.steps) /\ j.cursor + k \in 1 .. Len(j.steps)
        /\ j.steps[j.cursor + i].id = j.steps[j.cursor + k].id
    BY <1>2, <1>4
  <2>2. j.cursor + i = j.cursor + k
    BY <2>1, Zenon DEF Ledger, Distinct
  <2> QED BY <1>0, <2>2
<1>5. \A i \in 1 .. Len(K) : K[i].id \notin j.memo
  BY <1>2 DEF Ledger, Distinct
<1> QED BY <1>1, <1>2, <1>3, <1>4, <1>5 DEF Fits, K

LEMMA UnsentFits ==
  ASSUME NEW j, Ledger(j), NEW R, NEW w \in Nat, Stored(R, j, w)
  PROVE  /\ Fits(j, w, Unsent(j)) /\ Len(Unsent(j)) = Len(j.steps) - j.cursor
         /\ \A i \in 1 .. Len(Unsent(j)) : Unsent(j)[i] = j.steps[j.cursor + i]
<1> DEFINE n == Len(j.steps)
           K == SubSeq(j.steps, j.cursor + 1, n)
<1>1. n \in Nat /\ j.cursor <= n
  <2>1. j.cursor \in Nat /\ j.cursor <= w /\ w <= n /\ n \in Nat
    BY DEF Ledger, JobType, Stored
  <2> QED BY <2>1
<1>2. n <= Len(j.steps)
  BY <1>1
<1> HIDE DEF n
<1>3. /\ Fits(j, w, K) /\ Len(K) = n - j.cursor
      /\ \A i \in 1 .. Len(K) : K[i] = j.steps[j.cursor + i]
  BY <1>1, <1>2, SliceFits
<1>4. Unsent(j) = K
  BY DEF Unsent, n
<1> QED BY <1>3, <1>4 DEF n

\* The place of a number in a set of numbers takes every value up to its size.
LEMMA Ranks ==
  ASSUME NEW n \in Nat, NEW good \in SUBSET (1 .. n)
  PROVE  /\ IsFiniteSet(good) /\ Cardinality(good) \in Nat /\ Cardinality(good) <= n
         /\ \A i \in good : Cardinality(good \cap (1 .. i)) \in Nat
                            /\ Cardinality(good \cap (1 .. i)) <= i
         /\ \A i, k \in good :
              Cardinality(good \cap (1 .. i)) = Cardinality(good \cap (1 .. k)) => i = k
         /\ \A m \in 1 .. Cardinality(good) :
              \E i \in good : Cardinality(good \cap (1 .. i)) = m
<1> DEFINE Below(i) == good \cap (1 .. i)
           rank == [i \in good |-> Cardinality(Below(i))]
           size == Cardinality(good)
<1>1. IsFiniteSet(1 .. n) /\ Cardinality(1 .. n) = n
  BY FS_Interval
<1>2. IsFiniteSet(good) /\ size \in Nat /\ size <= n
  BY <1>1, Shrinks
<1>3. \A i \in good : i \in Nat /\ 1 <= i
  OBVIOUS
<1>4. ASSUME NEW i \in good
      PROVE  /\ IsFiniteSet(Below(i)) /\ Cardinality(Below(i)) \in Nat
             /\ Cardinality(Below(i)) <= i /\ Cardinality(Below(i)) <= size
             /\ Cardinality(Below(i)) >= 1
  <2>1. IsFiniteSet(1 .. i) /\ Cardinality(1 .. i) = i
    BY <1>3, FS_Interval
  <2>2. /\ IsFiniteSet(Below(i)) /\ Cardinality(Below(i)) \in Nat
        /\ Cardinality(Below(i)) <= i /\ Cardinality(Below(i)) <= size
    <3>1. Below(i) \in SUBSET (1 .. i) /\ Below(i) \in SUBSET good
      OBVIOUS
    <3> QED BY <1>2, <2>1, <3>1, Shrinks
  <2>3. Below(i) # {}
    BY <1>3
  <2>4. Cardinality(Below(i)) # 0
    BY <2>2, <2>3, FS_EmptySet
  <2> HIDE DEF Below
  <2> QED BY <2>2, <2>4
<1>5. ASSUME NEW i \in good, NEW k \in good, i < k
      PROVE  Cardinality(Below(i)) < Cardinality(Below(k))
  <2>1. Below(i) \in SUBSET Below(k) /\ k \in Below(k) /\ k \notin Below(i)
    BY <1>3, <1>5
  <2>2. Below(i) # Below(k)
    BY <2>1
  <2> HIDE DEF Below
  <2>3. /\ Cardinality(Below(i)) <= Cardinality(Below(k))
        /\ Cardinality(Below(i)) # Cardinality(Below(k))
    BY <1>4, <2>1, <2>2, FS_Subset
  <2> QED BY <1>4, <2>3
<1> HIDE DEF Below, size
<1>6. \A i, k \in good : Cardinality(Below(i)) = Cardinality(Below(k)) => i = k
  <2> SUFFICES ASSUME NEW i \in good, NEW k \in good,
                      Cardinality(Below(i)) = Cardinality(Below(k))
               PROVE  i = k
    OBVIOUS
  <2>1. ~(i < k) /\ ~(k < i)
    BY <1>4, <1>5
  <2> QED BY <1>3, <2>1
<1>7. rank \in Injection(good, 1 .. size)
  BY <1>2, <1>4, <1>6 DEF Injection, IsInjective
<1>8. IsFiniteSet(1 .. size) /\ Cardinality(1 .. size) = size
  BY <1>2, FS_Interval
<1>9. rank \in Surjection(good, 1 .. size)
  <2>1. Cardinality(good) = Cardinality(1 .. size)
    BY <1>8 DEF size
  <2> HIDE DEF rank
  <2> QED BY <1>7, <1>8, <2>1, FS_Injection
<1>10. \A m \in 1 .. size : \E i \in good : Cardinality(Below(i)) = m
  BY <1>9 DEF Surjection
<1> QED BY <1>2, <1>4, <1>6, <1>10 DEF Below, size

\* DropUnencodable keeps order and duplicates nothing: its k-th step is one at `at',
\* not before k, and is the k-th itself if none before is dropped.
LEMMA DropKeepsOrder ==
  ASSUME NEW s \in Seq(Step)
  PROVE  LET D == DropUnencodable(s)
         IN  /\ D \in Seq(Step)
             /\ \A k \in 1 .. Len(D) : \E i \in 1 .. Len(s) :
                  /\ D[k] = s[i] /\ k <= i
                  /\ (\A m \in 1 .. k : m \in 1 .. Len(s) /\ s[m].kind # "bad") => i = k
             /\ \A k, l \in 1 .. Len(D) :
                  (\A i, m \in 1 .. Len(s) : s[i].id = s[m].id => i = m) =>
                    (D[k].id = D[l].id => k = l)
<1> DEFINE good == {i \in DOMAIN s : s[i].kind # "bad"}
           Rank(i) == Cardinality(good \cap (1 .. i))
           At(k) == CHOOSE i \in good : Rank(i) = k
           D == DropUnencodable(s)
<1>0. DOMAIN s = 1 .. Len(s) /\ Len(s) \in Nat
  OBVIOUS
<1>1. good \in SUBSET (1 .. Len(s))
  BY <1>0
<1>2. /\ IsFiniteSet(good) /\ Cardinality(good) \in Nat
      /\ \A i \in good : Rank(i) \in Nat /\ Rank(i) <= i
      /\ \A i, k \in good : Rank(i) = Rank(k) => i = k
      /\ \A m \in 1 .. Cardinality(good) : \E i \in good : Rank(i) = m
  <2> HIDE DEF good
  <2> QED BY <1>0, <1>1, Ranks
<1>3. \A k \in 1 .. Cardinality(good) : At(k) \in good /\ Rank(At(k)) = k
  <2> HIDE DEF good, Rank
  <2> QED BY <1>2
<1>4. D = [k \in 1 .. Cardinality(good) |-> s[At(k)]]
  BY DEF DropUnencodable
<1>5. \A k \in 1 .. Cardinality(good) : At(k) \in 1 .. Len(s) /\ s[At(k)] \in Step
  <2> HIDE DEF good, At
  <2> QED BY <1>0, <1>1, <1>3, StepFields
<1> HIDE DEF At, D
<1>6. D \in Seq(Step) /\ Len(D) = Cardinality(good)
      /\ \A k \in 1 .. Len(D) : D[k] = s[At(k)]
  <2> HIDE DEF good
  <2> QED BY <1>2, <1>4, <1>5, IsASeq
<1>7. ASSUME NEW k \in 1 .. Len(D)
      PROVE  /\ At(k) \in 1 .. Len(s) /\ D[k] = s[At(k)] /\ k <= At(k)
             /\ (\A m \in 1 .. k : m \in 1 .. Len(s) /\ s[m].kind # "bad") => At(k) = k
  <2>1. At(k) \in good /\ Rank(At(k)) = k /\ Rank(At(k)) <= At(k)
    <3> HIDE DEF good, Rank
    <3> QED BY <1>2, <1>3, <1>6
  <2>2. ASSUME \A m \in 1 .. k : m \in 1 .. Len(s) /\ s[m].kind # "bad"
        PROVE  At(k) = k
    <3>1. \A m \in 1 .. k : m \in good
      BY <1>0, <2>2
    <3>2. k \in Nat /\ 1 <= k
      BY <1>2, <1>6
    <3>3. good \cap (1 .. k) = 1 .. k
      <4> HIDE DEF good
      <4> QED BY <3>1
    <3>4. Rank(k) = k
      <4>1. Cardinality(1 .. k) = k
        BY <3>2, FS_Interval
      <4> QED BY <3>3, <4>1
    <3>5. k \in good
      BY <3>1, <3>2
    <3> HIDE DEF good, Rank
    <3> QED BY <1>2, <2>1, <3>4, <3>5
  <2> HIDE DEF good, Rank
  <2> QED BY <1>5, <1>6, <2>1, <2>2
<1>8. ASSUME NEW k \in 1 .. Len(D), NEW l \in 1 .. Len(D), D[k].id = D[l].id,
             \A i, m \in 1 .. Len(s) : s[i].id = s[m].id => i = m
      PROVE  k = l
  <2>1. At(k) = At(l)
    BY <1>7, <1>8
  <2> HIDE DEF good, Rank
  <2> QED BY <1>3, <1>6, <2>1
<1>9. \A k \in 1 .. Len(D) : \E i \in 1 .. Len(s) :
        /\ D[k] = s[i] /\ k <= i
        /\ (\A m \in 1 .. k : m \in 1 .. Len(s) /\ s[m].kind # "bad") => i = k
  <2> HIDE DEF good, Rank
  <2> QED BY <1>7
<1> QED BY <1>6, <1>8, <1>9 DEF D

\* The tail of a run that failed, without what JSON cannot encode.
LEMMA DropFits ==
  ASSUME NEW j, Ledger(j), NEW R, NEW w \in Nat, Stored(R, j, w)
  PROVE  Fits(j, w, DropUnencodable(Unsent(j)))
<1> DEFINE U == Unsent(j)
           D == DropUnencodable(U)
           n == Len(j.steps)
<1>0. /\ j.steps \in Seq(Step) /\ j.cursor \in Nat /\ n \in Nat /\ w <= n /\ j.cursor <= w
  BY DEF Ledger, JobType, Stored
<1>1. /\ Fits(j, w, U) /\ Len(U) = n - j.cursor
      /\ \A i \in 1 .. Len(U) : U[i] = j.steps[j.cursor + i]
  BY UnsentFits
<1>2. U \in Seq(Step)
  BY <1>1 DEF Fits
<1> HIDE DEF U, n
<1>3. /\ D \in Seq(Step)
      /\ \A k \in 1 .. Len(D) : \E i \in 1 .. Len(U) :
           /\ D[k] = U[i] /\ k <= i
           /\ (\A m \in 1 .. k : m \in 1 .. Len(U) /\ U[m].kind # "bad") => i = k
      /\ \A k, l \in 1 .. Len(D) :
           (\A i, m \in 1 .. Len(U) : U[i].id = U[m].id => i = m) => (D[k].id = D[l].id => k = l)
  BY <1>2, DropKeepsOrder
<1> HIDE DEF D
<1>4. ASSUME NEW k \in 1 .. Len(D)
      PROVE  \E i \in 1 .. Len(U) : /\ D[k] = U[i] /\ k <= i
                                    /\ j.cursor + k <= w => i = k
  <2>1. PICK i \in 1 .. Len(U) :
          /\ D[k] = U[i] /\ k <= i
          /\ (\A m \in 1 .. k : m \in 1 .. Len(U) /\ U[m].kind # "bad") => i = k
    BY <1>3
  <2>2. ASSUME j.cursor + k <= w, NEW m \in 1 .. k
        PROVE  m \in 1 .. Len(U) /\ U[m].kind # "bad"
    <3>1. k \in Nat /\ m \in Nat /\ 1 <= m /\ m <= k
      BY <1>3
    <3>2. j.cursor + m \in 1 .. w
      BY <1>0, <2>2, <3>1
    <3>3. m \in 1 .. Len(U)
      BY <1>0, <1>1, <3>1, <3>2
    <3> QED BY <1>1, <3>2, <3>3 DEF Stored
  <2> QED BY <2>1, <2>2
<1>5. \A k \in 1 .. Len(D) : j.cursor + k <= w => D[k] = j.steps[j.cursor + k]
  BY <1>1, <1>4
<1>6. ASSUME NEW k \in 1 .. Len(D), NEW m \in 1 .. w, D[k].id = j.steps[m].id
      PROVE  m = j.cursor + k
  <2>1. PICK i \in 1 .. Len(U) : D[k] = U[i] /\ k <= i /\ (j.cursor + k <= w => i = k)
    BY <1>4
  <2>2. m = j.cursor + i
    BY <1>1, <1>6, <2>1 DEF Fits
  <2>3. k \in Nat /\ i \in Nat /\ m <= w
    BY <1>0, <1>1, <1>3
  <2> QED BY <1>0, <2>1, <2>2, <2>3
<1>7. \A k, l \in 1 .. Len(D) : D[k].id = D[l].id => k = l
  BY <1>1, <1>3 DEF Fits
<1>8. \A k \in 1 .. Len(D) : D[k].id \notin j.memo
  BY <1>1, <1>4 DEF Fits
<1> QED BY <1>3, <1>5, <1>6, <1>7, <1>8 DEF Fits, D, U

\* The tail, and the step that a sleep leaves behind it.
LEMMA SleepFits ==
  ASSUME NEW j, Ledger(j), NEW R, NEW w \in Nat, Stored(R, j, w), Sleep \notin j.memo
  PROVE  Fits(j, w, Unsent(j) \o <<[id |-> Sleep, kind |-> "done"]>>)
<1> DEFINE U == Unsent(j)
           z == [id |-> Sleep, kind |-> "done"]
           K == U \o <<z>>
           n == Len(j.steps)
<1>0. /\ j.steps \in Seq(Step) /\ j.cursor \in Nat /\ n \in Nat /\ w <= n /\ j.cursor <= w
  BY DEF Ledger, JobType, Stored
<1>1. /\ Fits(j, w, U) /\ Len(U) = n - j.cursor
      /\ \A i \in 1 .. Len(U) : U[i] = j.steps[j.cursor + i]
  BY UnsentFits
<1>2. U \in Seq(Step) /\ z \in Step /\ z.id = Sleep
  BY <1>1, WorkerAssumption DEF Fits, Step, Ids, Sleep
<1> HIDE DEF U, n, z
<1>3. K \in Seq(Step) /\ Len(K) = Len(U) + 1 /\ K[Len(U) + 1] = z
      /\ \A i \in 1 .. Len(U) : K[i] = U[i]
  BY <1>2
<1> HIDE DEF K
<1>4. \A i \in 1 .. Len(K) : i \in 1 .. Len(U) \/ i = Len(U) + 1
  BY <1>2, <1>3
<1>5. \A m \in 1 .. n : j.steps[m].id # Sleep
  BY DEF Ledger, Distinct, n
<1>6. \A i \in 1 .. Len(U) : U[i].id # Sleep
  BY <1>0, <1>1, <1>5
<1>11. ~(j.cursor + (Len(U) + 1) <= w)
  BY <1>0, <1>1
<1>7. \A i \in 1 .. Len(K) : j.cursor + i <= w => K[i] = j.steps[j.cursor + i]
  BY <1>1, <1>3, <1>4, <1>11
<1>8. ASSUME NEW i \in 1 .. Len(K), NEW m \in 1 .. w, K[i].id = j.steps[m].id
      PROVE  m = j.cursor + i
  <2>1. m \in 1 .. n
    BY <1>0
  <2>2. CASE i \in 1 .. Len(U)
    BY <1>1, <1>3, <1>8, <2>2 DEF Fits
  <2>3. CASE i = Len(U) + 1
    BY <1>2, <1>3, <1>5, <1>8, <2>1, <2>3
  <2> QED BY <1>4, <2>2, <2>3
<1>9. \A i, k \in 1 .. Len(K) : K[i].id = K[k].id => i = k
  BY <1>1, <1>2, <1>3, <1>4, <1>6 DEF Fits
<1>10. \A i \in 1 .. Len(K) : K[i].id \notin j.memo
  BY <1>1, <1>2, <1>3, <1>4 DEF Fits
<1> QED BY <1>3, <1>7, <1>8, <1>9, <1>10 DEF Fits, K, U, z

-----------------------------------------------------------------------------
(* A step of one job. *)

LEMMA IdleHasType == Idle \in JobType
<1>1. <<>> \in Seq(Step) /\ 0 \in Nat /\ 0 \in 0 .. Batch /\ {} \in SUBSET Nat
      /\ {} \in SUBSET Ids
  BY WorkerAssumption
<1>2. "none" \in Pcs /\ "none" \in Outcomes
  BY DEF Pcs, Outcomes
<1> QED BY <1>1, <1>2 DEF Idle, JobType

LEMMA OverIsSound == Sound(Over) /\ ~InHand(Over) /\ ~Over.timer /\ Over \in JobType
<1>1. /\ Over.pc = "over" /\ Over.sending = 0 /\ ~Over.timer /\ Over.steps = <<>>
      /\ Over.cursor = 0 /\ Over.heard = {} /\ Over.outcome = "none"
  BY DEF Over, Idle
<1>2. Len(<<>>) = 0
  OBVIOUS
<1>3. Over \in JobType
  BY IdleHasType DEF JobType, Pcs, Over
<1> QED BY <1>1, <1>2, <1>3 DEF Sound, Ledger, InTail, Distinct, BehindCursor, UndoLast, InTurn,
          Honest, Accounts, InHand, Finished

LEMMA SameExecution ==
  ASSUME NEW e \in Exec, NEW q \in Exec, e[1] = q[1], e[2] = q[2]
  PROVE  e = q
BY DEF Exec

\* Execution e goes on as k, the engine goes onward, and only e adds rows, as it
\* may while it is the current one.
LEMMA JobStepKeeps ==
  ASSUME StepsInv, OnceInv, NEW e \in Exec, NEW k, Becomes(e, k), UNCHANGED batch,
         InHand(job[e]), Sound(k), k.memo = job[e].memo, Onward,
         rows' \in [Jobs -> SUBSET Row],
         \A j \in Jobs : Numbered(rows'[j]) /\ rows[j] \subseteq rows'[j],
         \A j \in Jobs : rows'[j] # rows[j] => j = e[1] /\ run[j].seq = e[2],
         e[2] = run'[e[1]].seq /\ InHand(k) => \E w \in Nat : Stored(rows'[e[1]], k, w),
         \A j \in Jobs : run'[j].phase = "completed" => 1 .. Steps \subseteq DoneIn(rows'[j])
  PROVE  StepsInv'
<1>0. job \in [Exec -> JobType] /\ k \in JobType
  BY DEF StepsInv, Sound, Ledger
<1> DEFINE i == IF k.pc = "over" /\ k.sending = 0 THEN Over ELSE k
<1>1. job' = [job EXCEPT ![e] = i]
  BY DEF Becomes
<1>2. Sound(i) /\ i \in JobType /\ (i.timer => InHand(i)) /\ (InHand(i) => i = k)
  <2>1. k.timer => k.pc # "none"
    BY DEF Sound, InTurn
  <2>2. k.sending \in Nat
    BY <1>0 DEF JobType
  <2> QED BY <1>0, <2>1, <2>2, OverIsSound DEF InHand, Finished
<1> HIDE DEF i
<1>3. job' \in [Exec -> JobType] /\ job'[e] = i /\ \A q \in Exec \ {e} : job'[q] = job[q]
  BY <1>0, <1>1, <1>2
<1>4. \A q \in Exec : Sound(job'[q]) /\ (job'[q].timer => InHand(job'[q]))
  BY <1>2, <1>3 DEF StepsInv
<1>5. \A q \in Exec : /\ q[1] \in Jobs /\ q[2] \in Nat /\ run[q[1]].seq \in Nat
                      /\ run'[q[1]].seq \in Nat /\ run[q[1]].seq <= run'[q[1]].seq
  <2> SUFFICES ASSUME NEW q \in Exec
               PROVE  /\ q[1] \in Jobs /\ q[2] \in Nat /\ run[q[1]].seq \in Nat
                      /\ run'[q[1]].seq \in Nat /\ run[q[1]].seq <= run'[q[1]].seq
    OBVIOUS
  <2>1. q[1] \in Jobs /\ q[2] \in Nat
    BY DEF Exec
  <2>2. run[q[1]].seq \in Nat /\ run'[q[1]].seq \in Nat
    BY <2>1 DEF OnceInv, Onward
  <2> QED BY <2>1, <2>2 DEF Onward
<1>6. ASSUME NEW q \in Exec, InHand(job'[q])
      PROVE  /\ q[2] <= run'[q[1]].seq
             /\ job'[q].memo \subseteq DoneIn(rows'[q[1]])
             /\ q[2] = run'[q[1]].seq => \E w \in Nat : Stored(rows'[q[1]], job'[q], w)
  <2>1. InHand(job[q]) /\ job'[q].memo = job[q].memo
    BY <1>2, <1>3, <1>6
  <2>2. q[2] <= run[q[1]].seq /\ job[q].memo \subseteq DoneIn(rows[q[1]])
    BY <2>1 DEF StepsInv
  <2>3. q[2] <= run'[q[1]].seq
    BY <1>5, <2>2
  <2>4. DoneIn(rows[q[1]]) \subseteq DoneIn(rows'[q[1]])
    BY <1>5 DEF DoneIn
  <2>5. ASSUME q[2] = run'[q[1]].seq PROVE \E w \in Nat : Stored(rows'[q[1]], job'[q], w)
    <3>1. CASE q = e
      BY <1>2, <1>3, <1>6, <2>5, <3>1
    <3>2. CASE q # e
      <4>1. run[q[1]].seq = q[2]
        BY <1>5, <2>2, <2>5
      <4>2. rows'[q[1]] = rows[q[1]]
        BY <1>5, <3>2, <4>1, SameExecution
      <4>3. job'[q] = job[q]
        BY <1>3, <3>2
      <4> QED BY <2>1, <4>1, <4>2, <4>3 DEF StepsInv
    <3> QED BY <3>1, <3>2
  <2> QED BY <2>1, <2>2, <2>3, <2>4, <2>5
<1>7. \A q \in batch' : q[2] <= run'[q[1]].seq /\ q \in Exec
  BY <1>5 DEF StepsInv
<1> QED BY <1>3, <1>4, <1>6, <1>7 DEF StepsInv

\* As above, when e adds no row.
LEMMA QuietStepKeeps ==
  ASSUME StepsInv, OnceInv, NEW e \in Exec, NEW k, Becomes(e, k), UNCHANGED <<batch, rows>>,
         InHand(job[e]), Sound(k), Extends(job[e], k), Onward,
         \A j \in Jobs : run'[j].phase = "completed" => run[j].phase = "completed"
  PROVE  StepsInv'
<1>1. /\ rows' \in [Jobs -> SUBSET Row]
      /\ \A j \in Jobs : Numbered(rows'[j]) /\ rows[j] \subseteq rows'[j] /\ rows'[j] = rows[j]
  BY DEF StepsInv
<1>2. ASSUME e[2] = run'[e[1]].seq, NEW w \in Nat, Stored(rows[e[1]], job[e], w)
      PROVE  Stored(rows'[e[1]], k, w)
  <2>1. /\ job[e].base \in Nat /\ job[e].cursor \in Nat /\ Len(job[e].steps) \in Nat
        /\ Len(k.steps) \in Nat
    BY DEF StepsInv, Sound, Ledger, JobType
  <2>2. w <= Len(k.steps) /\ \A i \in 1 .. w : k.steps[i] = job[e].steps[i]
    BY <1>2, <2>1 DEF Extends, Stored
  <2>3. \A r \in rows[e[1]] : r.slot \in Nat /\ r.slot < job[e].base + w
    <3>1. \A r \in rows[e[1]] : r.slot \in 0 .. job[e].base + w - 1
      BY <1>2 DEF Stored
    <3> QED BY <2>1, <3>1
  <2>4. \A r \in rows[e[1]] :
          ~(r.slot < job[e].base) => r.slot - job[e].base + 1 \in 1 .. w
    BY <2>1, <2>3
  <2>5. /\ k.cursor <= w /\ k.base = job[e].base /\ k.memo = job[e].memo
        /\ rows'[e[1]] = rows[e[1]]
    BY <1>2 DEF Stored, Extends
  <2>6. \A i \in 1 .. w : k.steps[i].kind # "bad"
    BY <1>2, <2>2 DEF Stored
  <2>7. ASSUME NEW r \in rows[e[1]]
        PROVE  IF r.slot < k.base THEN r.kind = "done" => r.id \in k.memo
               ELSE /\ r.id = k.steps[r.slot - k.base + 1].id
                    /\ r.kind = k.steps[r.slot - k.base + 1].kind
    BY <1>2, <2>2, <2>4, <2>5 DEF Stored
  <2>8. {r.slot : r \in rows[e[1]]} = 0 .. k.base + w - 1
    BY <1>2, <2>5 DEF Stored
  <2> QED BY <2>2, <2>5, <2>6, <2>7, <2>8 DEF Stored
<1>3. e[2] = run'[e[1]].seq => e[2] = run[e[1]].seq
  <2>1. e[1] \in Jobs /\ e[2] \in Nat /\ e[2] <= run[e[1]].seq
    BY DEF StepsInv, Exec
  <2>2. run[e[1]].seq \in Nat /\ run'[e[1]].seq \in Nat
    BY <2>1 DEF OnceInv, Onward
  <2> QED BY <2>1, <2>2 DEF Onward
<1>4. e[2] = run'[e[1]].seq /\ InHand(k) => \E w \in Nat : Stored(rows'[e[1]], k, w)
  BY <1>2, <1>3 DEF StepsInv
<1>5. \A j \in Jobs : run'[j].phase = "completed" => 1 .. Steps \subseteq DoneIn(rows'[j])
  BY <1>1 DEF StepsInv
<1>6. k.memo = job[e].memo
  BY DEF Extends
<1> QED BY <1>1, <1>4, <1>5, <1>6, JobStepKeeps

-----------------------------------------------------------------------------
(* The requests that add rows. *)

\* The engine takes the steps K from the current execution.
LEMMA PersistKeeps ==
  ASSUME StepsInv, NEW e \in Exec, NEW w \in Nat, Stored(rows[e[1]], job[e], w),
         e[2] = run[e[1]].seq, NEW K, Fits(job[e], w, K), Persist(e, Offset(job[e]), K)
  PROVE  /\ rows' \in [Jobs -> SUBSET Row]
         /\ \A j \in Jobs : Numbered(rows'[j]) /\ rows[j] \subseteq rows'[j]
         /\ \A j \in Jobs : rows'[j] # rows[j] => j = e[1] /\ run[j].seq = e[2]
         /\ rows'[e[1]] = rows[e[1]] \cup Added(job[e], K)
<1>0. e[1] \in Jobs /\ rows \in [Jobs -> SUBSET Row] /\ job[e] \in JobType
      /\ Numbered(rows[e[1]])
  BY DEF Exec, StepsInv
<1>1. rows' = [rows EXCEPT ![e[1]] = @ \cup Added(job[e], K)]
  BY DEF Persist, Added, NewRow
<1>2. /\ rows[e[1]] \cup Added(job[e], K) \in SUBSET Row
      /\ Numbered(rows[e[1]] \cup Added(job[e], K))
  BY <1>0, AddedRows
<1>3. rows' \in [Jobs -> SUBSET Row] /\ rows'[e[1]] = rows[e[1]] \cup Added(job[e], K)
      /\ \A j \in Jobs \ {e[1]} : rows'[j] = rows[j]
  BY <1>0, <1>1, <1>2
<1> QED BY <1>2, <1>3 DEF StepsInv

LEMMA CheckpointStores ==
  ASSUME StepsInv, NEW e \in Exec, job[e].sending > 0, e[2] = run[e[1]].seq,
         Persist(e, Offset(job[e]), Carried(job[e]))
  PROVE  /\ rows' \in [Jobs -> SUBSET Row]
         /\ \A j \in Jobs : Numbered(rows'[j]) /\ rows[j] \subseteq rows'[j]
         /\ \A j \in Jobs : rows'[j] # rows[j] => j = e[1] /\ run[j].seq = e[2]
         /\ \A k : /\ k.base = job[e].base /\ k.memo = job[e].memo /\ k.steps = job[e].steps
                   /\ k.cursor \in Nat /\ k.cursor <= job[e].cursor + job[e].sending
                   => \E v \in Nat : Stored(rows'[e[1]], k, v)
         /\ \A n \in Slots(job[e]) : n \in Nat /\ n < job[e].base + job[e].cursor + job[e].sending
<1> DEFINE j == job[e]
           b == j.cursor + j.sending
           K == SubSeq(j.steps, j.cursor + 1, b)
<1>0. /\ Sound(j) /\ Ledger(j) /\ InTail(j) /\ j \in JobType /\ j.base \in Nat
      /\ j.cursor \in Nat /\ j.sending \in Nat /\ j.steps \in Seq(Step) /\ Len(j.steps) \in Nat
      /\ e[1] \in Jobs /\ Numbered(rows[e[1]]) /\ rows[e[1]] \in SUBSET Row
  BY DEF StepsInv, Sound, Ledger, JobType, Exec
<1>1. PICK w \in Nat : Stored(rows[e[1]], j, w)
  BY DEF StepsInv, InHand
<1>2. j.pc # "reporting"
  BY <1>0 DEF Sound, InTurn
<1>3. Carried(j) = K
  BY <1>2 DEF Carried
<1>4. b \in Nat /\ j.cursor <= b /\ b <= Len(j.steps)
  BY <1>0 DEF InTail
<1> HIDE DEF j, b
<1>5. /\ Fits(j, w, K) /\ Len(K) = b - j.cursor
      /\ \A i \in 1 .. Len(K) : K[i] = j.steps[j.cursor + i]
  BY <1>0, <1>1, <1>4, SliceFits
<1> HIDE DEF K
<1> DEFINE S == rows[e[1]] \cup Added(j, K)
           v == IF w < j.cursor + Len(K) THEN j.cursor + Len(K) ELSE w
<1>6. /\ rows' \in [Jobs -> SUBSET Row]
      /\ \A i \in Jobs : Numbered(rows'[i]) /\ rows[i] \subseteq rows'[i]
      /\ \A i \in Jobs : rows'[i] # rows[i] => i = e[1] /\ run[i].seq = e[2]
      /\ rows'[e[1]] = S
  BY <1>1, <1>3, <1>5, PersistKeeps DEF j
<1>7. v \in Nat /\ {r.slot : r \in S} = 0 .. j.base + v - 1
  BY <1>0, <1>1, <1>5, AddedRows
<1>8. j.cursor + Len(K) = b /\ Len(K) \in Nat /\ w <= Len(j.steps) /\ j.cursor <= w
  BY <1>0, <1>1, <1>4, <1>5 DEF Stored
<1>9. b <= v /\ v <= Len(j.steps) /\ w <= v
  BY <1>0, <1>4, <1>8
<1>10. \A i \in 1 .. v : j.steps[i].kind # "bad"
  <2> SUFFICES ASSUME NEW i \in 1 .. v PROVE j.steps[i].kind # "bad"
    OBVIOUS
  <2>1. CASE i <= w
    BY <1>1, <1>7, <2>1 DEF Stored
  <2>2. CASE ~(i <= w)
    <3>1. i \in 1 .. Len(j.steps) /\ j.cursor < i /\ i <= b
      BY <1>0, <1>4, <1>7, <1>8, <1>9, <2>2
    <3> QED BY <1>0, <3>1 DEF InTail, b
  <2> QED BY <2>1, <2>2
<1>11. \A r \in S : IF r.slot < j.base THEN r.kind = "done" => r.id \in j.memo
                    ELSE /\ r.id = j.steps[r.slot - j.base + 1].id
                         /\ r.kind = j.steps[r.slot - j.base + 1].kind
  <2> SUFFICES ASSUME NEW r \in Added(j, K)
               PROVE  /\ ~(r.slot < j.base)
                      /\ r.id = j.steps[r.slot - j.base + 1].id
                      /\ r.kind = j.steps[r.slot - j.base + 1].kind
    BY <1>1 DEF Stored
  <2>1. DOMAIN K = 1 .. Len(K)
    BY <1>5 DEF Fits
  <2>2. PICK i \in 1 .. Len(K) : r = NewRow(j, K, i)
    BY <2>1 DEF Added
  <2>3. r.slot = j.base + j.cursor + i - 1 /\ r.id = K[i].id /\ r.kind = K[i].kind
    BY <2>2 DEF NewRow, Offset
  <2>4. i \in Nat /\ 1 <= i
    BY <1>8
  <2>5. ~(r.slot < j.base) /\ r.slot - j.base + 1 = j.cursor + i
    BY <1>0, <2>3, <2>4
  <2> QED BY <1>5, <2>3, <2>5
<1>12. ASSUME NEW k, k.base = j.base, k.memo = j.memo, k.steps = j.steps,
              k.cursor \in Nat, k.cursor <= b
       PROVE  \E u \in Nat : Stored(rows'[e[1]], k, u)
  <2>1. k.cursor <= v
    BY <1>4, <1>7, <1>9, <1>12
  <2>2. Stored(S, k, v)
    <3> HIDE DEF S, v
    <3> QED BY <1>7, <1>9, <1>10, <1>11, <1>12, <2>1 DEF Stored
  <2> HIDE DEF S, v
  <2> QED BY <1>6, <1>7, <2>2
<1>13. \A n \in Slots(j) : n \in Nat /\ n < j.base + b
  <2>1. Slots(j) = j.base + j.cursor .. j.base + j.cursor + Len(K) - 1
    BY <1>3 DEF Slots, Offset, j
  <2> QED BY <1>0, <1>4, <1>8, <2>1
<1>14. j.base + b = j.base + j.cursor + j.sending
  BY <1>0 DEF b
<1> QED BY <1>6, <1>12, <1>13, <1>14 DEF j, b

\* The report of the current execution: what it carries after the confirmed steps.
LEMMA ReportFits ==
  ASSUME NEW j, Sound(j), j.pc = "reporting", NEW R, NEW w \in Nat, Stored(R, j, w),
         NEW z, z = (IF j.outcome = "yielded" THEN <<[id |-> Sleep, kind |-> "done"]>> ELSE <<>>)
  PROVE  /\ Fits(j, w, Carried(j) \o z)
         /\ j.outcome = "completed" => Carried(j) \o z = Unsent(j)
<1>0. Ledger(j) /\ Honest(j)
  BY DEF Sound
<1>1. CASE j.outcome \in {"failed", "fatal"}
  <2>1. Carried(j) = DropUnencodable(Unsent(j)) /\ z = <<>>
    BY <1>1 DEF Carried
  <2>2. Fits(j, w, DropUnencodable(Unsent(j)))
    BY <1>0, DropFits
  <2>3. DropUnencodable(Unsent(j)) \o <<>> = DropUnencodable(Unsent(j))
    <3>1. DropUnencodable(Unsent(j)) \in Seq(Step)
      BY <2>2 DEF Fits
    <3> HIDE DEF DropUnencodable
    <3> QED BY <3>1, ConcatEmptySeq
  <2> QED BY <1>1, <2>1, <2>2, <2>3
<1>2. CASE j.outcome = "yielded"
  <2>1. Carried(j) = Unsent(j) /\ z = <<[id |-> Sleep, kind |-> "done"]>>
    BY <1>2 DEF Carried
  <2>2. Sleep \notin j.memo
    BY <1>0, <1>2 DEF Honest, Accounts
  <2> QED BY <1>0, <1>2, <2>1, <2>2, SleepFits
<1>3. CASE j.outcome \notin {"failed", "fatal", "yielded"}
  <2>1. Carried(j) = Unsent(j) /\ z = <<>>
    BY <1>3 DEF Carried
  <2>2. Fits(j, w, Unsent(j))
    BY <1>0, UnsentFits
  <2>3. Unsent(j) \o <<>> = Unsent(j)
    <3>1. Unsent(j) \in Seq(Step)
      BY <2>2 DEF Fits
    <3> QED BY <3>1, ConcatEmptySeq
  <2> QED BY <2>1, <2>2, <2>3
<1> QED BY <1>1, <1>2, <1>3

\* The rows behind a completed report hold every step that was recorded.
LEMMA RecordedAreStored ==
  ASSUME NEW j, Ledger(j), NEW R, NEW w \in Nat, Stored(R, j, w),
         NEW i \in 1 .. Len(j.steps), j.steps[i].kind = "done"
  PROVE  j.steps[i].id \in DoneIn(R \cup Added(j, Unsent(j)))
<1> DEFINE U == Unsent(j)
           n == Len(j.steps)
<1>0. /\ j.base \in Nat /\ j.cursor \in Nat /\ n \in Nat /\ w <= n /\ j.cursor <= w
      /\ i \in Nat /\ 1 <= i /\ i <= n
  BY DEF Ledger, JobType, Stored
<1>1. /\ U \in Seq(Step) /\ Len(U) = n - j.cursor
      /\ \A m \in 1 .. Len(U) : U[m] = j.steps[j.cursor + m]
  BY UnsentFits DEF Fits
<1> HIDE DEF U, n
<1>2. CASE i <= w
  <2>1. j.base + i - 1 \in 0 .. j.base + w - 1
    BY <1>0, <1>2
  <2>2. PICK r \in R : r.slot = j.base + i - 1
    BY <2>1 DEF Stored
  <2>3. ~(r.slot < j.base) /\ r.slot - j.base + 1 = i
    BY <1>0, <2>2
  <2>4. r.id = j.steps[i].id /\ r.kind = "done"
    BY <2>3 DEF Stored
  <2> QED BY <2>4 DEF DoneIn
<1>3. CASE ~(i <= w)
  <2> DEFINE m == i - j.cursor
  <2>1. m \in 1 .. Len(U) /\ j.cursor + m = i
    BY <1>0, <1>1, <1>3
  <2>2. U[m] = j.steps[i]
    BY <1>1, <2>1
  <2>3. m \in DOMAIN U
    BY <1>1, <2>1
  <2> HIDE DEF m
  <2>4. NewRow(j, U, m) \in Added(j, U)
    BY <2>3 DEF Added
  <2>5. NewRow(j, U, m).id = j.steps[i].id /\ NewRow(j, U, m).kind = "done"
    BY <2>2 DEF NewRow
  <2> QED BY <2>4, <2>5 DEF DoneIn, U
<1> QED BY <1>2, <1>3

-----------------------------------------------------------------------------
(* The steps of the handler and the engine. *)

\* A job ends where it is.
LEMMA OverSound ==
  ASSUME NEW j, Sound(j), NEW k, k = [j EXCEPT !.pc = "over"]
  PROVE  Sound(k) /\ SameSteps(j, k) /\ k.sending = j.sending /\ k.pc = "over"
<1>0. j \in JobType
  BY DEF Sound, Ledger
<1>1. k \in JobType /\ SameSteps(j, k) /\ k.sending = j.sending /\ k.pc = "over"
      /\ k.outcome = j.outcome /\ k.timer = j.timer
  BY <1>0 DEF JobType, SameSteps, Pcs
<1>2. InTurn(k) /\ Honest(k)
  BY <1>1 DEF Sound, InTurn, Honest, Accounts, SameSteps
<1> QED BY <1>1, <1>2, SameIsSound

\* Before the handler is entered there is nothing to lose.
LEMMA BeginSound ==
  ASSUME NEW j, Sound(j), j.pc \in {"accepted", "acking"},
         NEW p \in {"acking", "running", "reporting"},
         NEW k, k = [j EXCEPT !.pc = p, !.outcome = IF p = "reporting" THEN "unstarted" ELSE @]
  PROVE  Sound(k) /\ SameSteps(j, k)
<1>0. j \in JobType /\ j.steps = <<>> /\ ~j.timer /\ j.sending = 0 /\ j.outcome = "none"
  BY DEF Sound, Ledger, InTurn, Honest, JobType
<1>1. /\ k \in JobType /\ SameSteps(j, k) /\ k.sending = 0 /\ k.pc = p /\ ~k.timer
      /\ k.steps = <<>> /\ k.outcome = IF p = "reporting" THEN "unstarted" ELSE "none"
  BY <1>0 DEF JobType, SameSteps, Pcs, Outcomes
<1>2. Len(<<>>) = 0
  OBVIOUS
<1>3. InTurn(k) /\ Honest(k)
  BY <1>1, <1>2 DEF InTurn, Honest, Accounts
<1> QED BY <1>1, <1>3, SameIsSound

LEMMA SameStepKeeps ==
  ASSUME StepsInv, OnceInv, NEW e \in Exec, NEW k, Becomes(e, k), UNCHANGED <<batch, rows>>,
         InHand(job[e]), Sound(k), SameSteps(job[e], k), Onward,
         \A j \in Jobs : run'[j].phase = "completed" => run[j].phase = "completed"
  PROVE  StepsInv'
<1>1. Extends(job[e], k)
  BY SameExtends DEF StepsInv
<1> QED BY <1>1, QuietStepKeeps

LEMMA TimerStep ==
  ASSUME StepsInv, OnceInv, NEW e \in Exec, TimerFires(e)
  PROVE  StepsInv'
<1> DEFINE j == job[e]
           i == [j EXCEPT !.timer = FALSE]
<1>0. j \in JobType /\ Sound(j) /\ InHand(j) /\ j.timer
  BY DEF StepsInv, TimerFires
<1>1. /\ i \in JobType /\ SameSteps(j, i) /\ i.sending = j.sending /\ i.pc = j.pc
      /\ i.off = j.off /\ i.outcome = j.outcome /\ ~i.timer
  BY <1>0 DEF JobType, SameSteps
<1>2. Becomes(e, IF i.pc = "finishing" THEN i ELSE Flush(i)) /\ UNCHANGED <<batch, rows, run>>
  BY DEF TimerFires, Local, worker, engine
<1> HIDE DEF i, j
<1>3. InTurn(i) /\ Honest(i) /\ (i.off \/ i.pc \notin {"none", "accepted", "acking", "reporting"})
  BY <1>0, <1>1 DEF Sound, InTurn, Honest, Accounts, SameSteps
<1>4. Sound(i)
  BY <1>0, <1>1, <1>3, SameIsSound
<1>5. Sound(Flush(i)) /\ SameSteps(j, Flush(i))
  BY <1>1, <1>3, <1>4, FlushSound, SameThrough
<1> QED BY <1>0, <1>1, <1>2, <1>4, <1>5, EngineStays, SameStepKeeps DEF j

\* What an answer to a checkpoint may change before the chain goes on.
Answered(j, k) ==
  /\ k.pc = j.pc /\ k.base = j.base /\ k.memo = j.memo /\ k.steps = j.steps
  /\ k.outcome = j.outcome /\ (k.timer => j.timer)
  /\ k.cursor \in {j.cursor, j.cursor + j.sending}
  /\ BehindCursor(k)

LEMMA AnsweredSound ==
  ASSUME NEW j, Sound(j), j.sending > 0, NEW k \in JobType, Answered(j, k)
  PROVE  LET m == Settled(ChainNext(k))
         IN  Sound(m) /\ SameSteps(k, m)
<1> DEFINE i == [k EXCEPT !.sending = 0]
           m == Settled(ChainNext(k))
<1>0. /\ j \in JobType /\ j.pc \notin {"none", "accepted", "acking", "reporting"}
      /\ j.cursor \in Nat /\ j.sending \in Nat /\ Len(j.steps) \in Nat
  BY DEF Sound, Ledger, InTurn, JobType
<1>2. /\ i \in JobType /\ i.pc = k.pc /\ i.base = k.base /\ i.memo = k.memo
      /\ i.steps = k.steps /\ i.cursor = k.cursor /\ i.heard = k.heard
      /\ i.outcome = k.outcome /\ i.timer = k.timer /\ i.sending = 0
  <2>1. 0 \in 0 .. Batch
    BY WorkerAssumption
  <2> QED BY <2>1 DEF JobType
<1> HIDE DEF i
<1>3. InTail(i)
  <2>1. j.cursor + j.sending <= Len(j.steps)
    BY DEF Sound, Ledger, InTail
  <2>2. i.cursor <= Len(i.steps) /\ i.cursor \in Nat
    BY <1>0, <1>2, <2>1 DEF Answered
  <2> QED BY <1>2, <2>2 DEF InTail
<1>4. Distinct(i) /\ UndoLast(i)
  BY <1>2 DEF Sound, Ledger, Distinct, UndoLast, Answered
<1>5. BehindCursor(i)
  BY <1>2 DEF BehindCursor, Answered
<1>6. InTurn(i) /\ Honest(i)
  <2>1. i.sending = 0 /\ i.pc = j.pc /\ i.steps = j.steps /\ i.memo = j.memo
        /\ i.outcome = j.outcome /\ (i.timer => j.timer)
    BY <1>2 DEF Answered
  <2>2. InTurn(i)
    BY <1>0, <2>1 DEF Sound, InTurn
  <2>3. Honest(i)
    BY <1>0, <2>1 DEF Sound, Honest, Accounts
  <2> QED BY <2>2, <2>3
<1>7. Sound(i)
  BY <1>2, <1>3, <1>4, <1>5, <1>6 DEF Sound, Ledger
<1>8. Sound(ChainNext(k)) /\ SameSteps(k, ChainNext(k))
  BY <1>0, <1>7, ChainNextSound DEF i, Answered
<1> QED BY <1>8, SettledSound, SameThrough

\* The engine stored the checkpoint, whether the worker hears of it or not.
LEMMA StoredStep ==
  ASSUME StepsInv, OnceInv, NEW e \in Exec, job[e].sending > 0, Accepts(e),
         Persist(e, Offset(job[e]), Carried(job[e])), UNCHANGED <<worker, run>>,
         NEW k \in JobType, Answered(job[e], k), Becomes(e, Settled(ChainNext(k)))
  PROVE  StepsInv'
<1> DEFINE j == job[e]
           m == Settled(ChainNext(k))
<1>0. Sound(j) /\ j.cursor \in Nat /\ j.sending \in Nat
  BY DEF StepsInv, Sound, Ledger, JobType
<1>1. e[2] = run[e[1]].seq
  BY DEF Accepts, Stamped
<1>2. /\ rows' \in [Jobs -> SUBSET Row]
      /\ \A i \in Jobs : Numbered(rows'[i]) /\ rows[i] \subseteq rows'[i]
      /\ \A i \in Jobs : rows'[i] # rows[i] => i = e[1] /\ run[i].seq = e[2]
      /\ \A i : /\ i.base = j.base /\ i.memo = j.memo /\ i.steps = j.steps
                /\ i.cursor \in Nat /\ i.cursor <= j.cursor + j.sending
                => \E v \in Nat : Stored(rows'[e[1]], i, v)
  BY <1>1, CheckpointStores
<1>3. Sound(m) /\ SameSteps(k, m)
  BY <1>0, AnsweredSound
<1>4. Becomes(e, m)
  OBVIOUS
<1> HIDE DEF m
<1>5. m.base = j.base /\ m.memo = j.memo /\ m.steps = j.steps
      /\ m.cursor \in Nat /\ m.cursor <= j.cursor + j.sending
  BY <1>0, <1>3 DEF SameSteps, Answered
<1>6. \E v \in Nat : Stored(rows'[e[1]], m, v)
  BY <1>2, <1>5
<1>7. Onward /\ UNCHANGED batch /\ InHand(j)
  BY EngineStays DEF worker, InHand
<1>8. \A i \in Jobs : run'[i].phase = "completed" => 1 .. Steps \subseteq DoneIn(rows'[i])
  <2>1. \A i \in Jobs : DoneIn(rows[i]) \subseteq DoneIn(rows'[i])
    BY <1>2 DEF DoneIn
  <2> QED BY <2>1 DEF StepsInv
<1> QED BY <1>2, <1>3, <1>4, <1>5, <1>6, <1>7, <1>8, JobStepKeeps

\* It did not, or refused it.
LEMMA UnstoredStep ==
  ASSUME StepsInv, OnceInv, NEW e \in Exec, job[e].sending > 0,
         NEW k \in JobType, Answered(job[e], k), k.cursor = job[e].cursor,
         k.heard = job[e].heard, Local(e, Settled(ChainNext(k)))
  PROVE  StepsInv'
<1> DEFINE m == Settled(ChainNext(k))
<1>1. Sound(job[e])
  BY DEF StepsInv
<1>2. Sound(m) /\ SameSteps(k, m)
  BY <1>1, AnsweredSound
<1>3. SameSteps(job[e], k)
  BY DEF Answered, SameSteps
<1>4. Becomes(e, m) /\ UNCHANGED <<batch, rows, run>>
  BY DEF Local, worker, engine
<1> HIDE DEF m
<1> QED BY <1>2, <1>3, <1>4, SameThrough, EngineStays, SameStepKeeps DEF InHand

LEMMA CheckpointerKeeps ==
  ASSUME StepsInv, OnceInv, NEW e \in Exec, Checkpointer(e)
  PROVE  StepsInv'
<1> DEFINE j == job[e]
<1>0. /\ Sound(j) /\ j \in JobType /\ j.cursor \in Nat /\ j.sending \in Nat
      /\ j.heard \in SUBSET Nat /\ j.base \in Nat /\ BehindCursor(j)
  BY DEF StepsInv, Sound, Ledger, JobType
<1>1. Answered(j, j)
  BY <1>0 DEF Answered
<1>2. CASE CheckpointStored(e)
  <2> DEFINE k == [j EXCEPT !.cursor = @ + j.sending, !.heard = @ \cup Slots(j)]
  <2>1. /\ j.sending > 0 /\ Accepts(e) /\ Persist(e, Offset(j), Carried(j))
        /\ UNCHANGED <<worker, run>> /\ Becomes(e, Settled(ChainNext(k)))
    BY <1>2 DEF CheckpointStored
  <2>2. \A n \in Slots(j) : n \in Nat /\ n < j.base + j.cursor + j.sending
    BY <2>1, CheckpointStores DEF Accepts, Stamped
  <2> HIDE DEF j
  <2>3. j.cursor + j.sending \in Nat /\ j.heard \cup Slots(j) \in SUBSET Nat
    BY <1>0, <2>2
  <2>4. /\ k \in JobType /\ k.pc = j.pc /\ k.base = j.base /\ k.memo = j.memo
        /\ k.steps = j.steps /\ k.outcome = j.outcome /\ k.timer = j.timer
        /\ k.cursor = j.cursor + j.sending /\ k.heard = j.heard \cup Slots(j)
    BY <1>0, <2>3 DEF JobType
  <2> HIDE DEF k
  <2>5. BehindCursor(k)
    <3>1. \A n \in j.heard : n \in Nat /\ n < j.base + j.cursor
      BY <1>0 DEF BehindCursor
    <3>2. \A n \in j.heard \cup Slots(j) : n < j.base + (j.cursor + j.sending)
      BY <1>0, <2>2, <3>1
    <3> QED BY <2>4, <3>2 DEF BehindCursor
  <2>6. Answered(j, k)
    BY <2>4, <2>5 DEF Answered
  <2> QED BY <2>1, <2>4, <2>6, StoredStep DEF j
<1>3. CASE CheckpointUnheard(e)
  <2>1. /\ j.sending > 0 /\ Accepts(e) /\ Persist(e, Offset(j), Carried(j))
        /\ UNCHANGED <<worker, run>> /\ Becomes(e, Settled(ChainNext(j)))
    BY <1>3 DEF CheckpointUnheard
  <2> QED BY <1>0, <1>1, <2>1, StoredStep
<1>4. ASSUME NEW off \in BOOLEAN, CheckpointFails(e, off) PROVE StepsInv'
  <2> DEFINE k == [j EXCEPT !.off = @ \/ off]
  <2>1. j.sending > 0 /\ Local(e, Settled(ChainNext(k)))
    BY <1>4 DEF CheckpointFails
  <2>2. k \in JobType /\ Answered(j, k) /\ k.cursor = j.cursor /\ k.heard = j.heard
    BY <1>0 DEF JobType, Answered, BehindCursor
  <2> HIDE DEF k
  <2> QED BY <2>1, <2>2, UnstoredStep
<1>5. CASE CheckpointStale(e)
  <2> DEFINE k == Aborted(j)
  <2>1. j.sending > 0 /\ Local(e, Settled(ChainNext(k)))
    BY <1>5 DEF CheckpointStale
  <2>2. k \in JobType /\ Answered(j, k) /\ k.cursor = j.cursor /\ k.heard = j.heard
    BY <1>0 DEF Aborted, JobType, Answered, BehindCursor
  <2> HIDE DEF k
  <2> QED BY <2>1, <2>2, UnstoredStep
<1> QED BY <1>2, <1>3, <1>4, <1>5, TimerStep DEF Checkpointer

LEMMA ReportedKeeps ==
  ASSUME StepsInv, OnceInv, NEW e \in Exec, Reported(e)
  PROVE  StepsInv'
<1> DEFINE j == job[e]
           z == IF j.outcome = "yielded" THEN <<[id |-> Sleep, kind |-> "done"]>> ELSE <<>>
           K == Carried(j) \o z
           k == [j EXCEPT !.pc = "over"]
<1>0. /\ Sound(j) /\ Ledger(j) /\ Honest(j) /\ j \in JobType /\ j.pc = "reporting"
      /\ j.sending = 0 /\ InHand(j) /\ e[1] \in Jobs /\ j.steps \in Seq(Step)
  BY DEF StepsInv, Sound, Ledger, JobType, InTurn, Reported, InHand, Finished, Exec
<1>1. /\ Persist(e, Offset(j), K) /\ Becomes(e, k) /\ UNCHANGED <<batch, starts>>
      /\ run[e[1]].seq = e[2] /\ run[e[1]].phase \in {"assigned", "acked"}
  BY DEF Reported, worker, Accepts, Stamped
<1>2. PICK w \in Nat : Stored(rows[e[1]], j, w)
  BY <1>0, <1>1 DEF StepsInv
<1>3. Fits(j, w, K) /\ (j.outcome = "completed" => K = Unsent(j))
  <2>1. z = IF j.outcome = "yielded" THEN <<[id |-> Sleep, kind |-> "done"]>> ELSE <<>>
    OBVIOUS
  <2> HIDE DEF z
  <2> QED BY <1>0, <1>2, <2>1, ReportFits
<1> HIDE DEF K
<1>4. /\ rows' \in [Jobs -> SUBSET Row]
      /\ \A i \in Jobs : Numbered(rows'[i]) /\ rows[i] \subseteq rows'[i]
      /\ \A i \in Jobs : rows'[i] # rows[i] => i = e[1] /\ run[i].seq = e[2]
      /\ rows'[e[1]] = rows[e[1]] \cup Added(j, K)
  BY <1>1, <1>2, <1>3, PersistKeeps
<1>5. Sound(k) /\ k.memo = j.memo /\ ~InHand(k)
  <2>1. Sound(k) /\ SameSteps(j, k) /\ k.sending = j.sending /\ k.pc = "over"
    BY <1>0, OverSound
  <2> HIDE DEF k
  <2> QED BY <1>0, <2>1 DEF SameSteps, InHand, Finished
<1>6. /\ Onward
      /\ \A i \in Jobs : run'[i].phase = "completed" =>
           run[i].phase = "completed" \/ (i = e[1] /\ j.outcome = "completed")
  <2>1. CASE j.outcome = "completed"
    <3>1. run' = [run EXCEPT ![e[1]].phase = "completed"]
      BY <2>1 DEF Reported
    <3> QED BY <1>0, <2>1, <3>1, PhaseIsOnward DEF OnceInv
  <2>2. CASE j.outcome \in {"fatal", "unstarted"}
    <3>1. run' = [run EXCEPT ![e[1]].phase = "ended"]
      BY <2>2 DEF Reported
    <3> QED BY <1>0, <3>1, PhaseIsOnward DEF OnceInv
  <2>3. CASE j.outcome \notin {"completed", "fatal", "unstarted"}
    <3>1. run' = [run EXCEPT ![e[1]] = Requeued(e[1])]
      BY <2>3 DEF Reported
    <3>2. Requeued(e[1]).phase # "completed"
      BY <1>0 DEF Requeued, OnceInv
    <3> QED BY <1>0, <1>1, <3>1, <3>2, RequeuedIsOnward DEF OnceInv
  <2> QED BY <2>1, <2>2, <2>3
<1>7. ASSUME j.outcome = "completed" PROVE 1 .. Steps \subseteq DoneIn(rows'[e[1]])
  <2>1. 1 .. Steps \subseteq j.memo \cup {j.steps[i].id : i \in 1 .. Len(j.steps)}
        /\ \A i \in 1 .. Len(j.steps) : j.steps[i].kind = "done"
    BY <1>0, <1>7 DEF Honest, Accounts
  <2>2. j.memo \subseteq DoneIn(rows[e[1]])
    BY <1>0 DEF StepsInv
  <2>3. DoneIn(rows[e[1]]) \subseteq DoneIn(rows'[e[1]])
    BY <1>0, <1>4 DEF DoneIn
  <2>4. rows'[e[1]] = rows[e[1]] \cup Added(j, Unsent(j))
    BY <1>3, <1>4, <1>7
  <2>5. \A i \in 1 .. Len(j.steps) : j.steps[i].id \in DoneIn(rows'[e[1]])
    BY <1>0, <1>2, <2>1, <2>4, RecordedAreStored
  <2> QED BY <2>1, <2>2, <2>3, <2>5
<1>8. \A i \in Jobs : run'[i].phase = "completed" => 1 .. Steps \subseteq DoneIn(rows'[i])
  <2>1. \A i \in Jobs : DoneIn(rows[i]) \subseteq DoneIn(rows'[i])
    BY <1>4 DEF DoneIn
  <2> QED BY <1>6, <1>7, <2>1 DEF StepsInv
<1> HIDE DEF k
<1> QED BY <1>0, <1>1, <1>4, <1>5, <1>6, <1>8, JobStepKeeps

LEMMA ExecuteKeeps ==
  ASSUME StepsInv, OnceInv, NEW e \in Exec, Execute(e)
  PROVE  StepsInv'
<1> DEFINE j == job[e]
<1>0. /\ Sound(j) /\ Ledger(j) /\ UndoLast(j) /\ Honest(j) /\ j \in JobType /\ e[1] \in Jobs
      /\ j.sending \in Nat /\ j.memo \in SUBSET Ids /\ j.steps \in Seq(Step)
  BY DEF StepsInv, Sound, Ledger, JobType, Exec
<1>1. ASSUME NEW k, Local(e, k), Sound(k), SameSteps(j, k), j.pc \notin {"none", "over"}
      PROVE  StepsInv'
  BY <1>1, EngineStays, SameStepKeeps DEF Local, worker, engine, InHand, Finished
<1>2. ASSUME NEW k, Local(e, k), Sound(k), Extends(j, k), j.pc \notin {"none", "over"}
      PROVE  StepsInv'
  BY <1>2, EngineStays, QuietStepKeeps DEF Local, worker, engine, InHand, Finished
<1>3. ASSUME NEW k, Acked(e), Becomes(e, k), Sound(k), SameSteps(j, k)
      PROVE  StepsInv'
  <2>1. /\ run' = [run EXCEPT ![e[1]].phase = "acked"] /\ UNCHANGED <<batch, rows>>
        /\ j.pc = "acking"
    BY <1>3 DEF Acked, worker
  <2>2. Onward
    BY <1>0, <2>1, PhaseIsOnward
  <2>3. \A i \in Jobs : run'[i].phase = "completed" => run[i].phase = "completed"
    BY <2>1 DEF OnceInv
  <2> QED BY <1>3, <2>1, <2>2, <2>3, SameStepKeeps DEF InHand, Finished
<1>4. ASSUME NEW k, k = [j EXCEPT !.pc = "over"] PROVE Sound(k) /\ SameSteps(j, k)
  BY <1>0, <1>4, OverSound
<1>5. ASSUME j.pc \in {"accepted", "acking"}
      PROVE  /\ Sound([j EXCEPT !.pc = "acking"]) /\ SameSteps(j, [j EXCEPT !.pc = "acking"])
             /\ Sound([j EXCEPT !.pc = "running"]) /\ SameSteps(j, [j EXCEPT !.pc = "running"])
             /\ LET k == [j EXCEPT !.pc = "reporting", !.outcome = "unstarted"]
                IN  Sound(k) /\ SameSteps(j, k)
  <2>1. [j EXCEPT !.pc = "acking"] = [j EXCEPT !.pc = "acking", !.outcome = j.outcome]
    BY <1>0 DEF JobType
  <2>2. [j EXCEPT !.pc = "running"] = [j EXCEPT !.pc = "running", !.outcome = j.outcome]
    BY <1>0 DEF JobType
  <2>3. ASSUME NEW p \in {"acking", "running", "reporting"}, NEW k,
               k = [j EXCEPT !.pc = p, !.outcome = IF p = "reporting" THEN "unstarted" ELSE @]
        PROVE  Sound(k) /\ SameSteps(j, k)
    BY <1>0, <1>5, <2>3, BeginSound
  <2> HIDE DEF j
  <2> QED BY <2>1, <2>2, <2>3
<1>6. CASE NoFunction(e)
  BY <1>1, <1>5, <1>6 DEF NoFunction
<1>7. CASE Ack(e)
  BY <1>1, <1>5, <1>7 DEF Ack
<1>8. CASE Enter(e)
  <2>1. CASE j.aborted
    <3>1. Acked(e) /\ Becomes(e, [j EXCEPT !.pc = "over"])
      BY <1>8, <2>1 DEF Enter
    <3> QED BY <1>3, <1>4, <3>1
  <2>2. CASE ~j.aborted
    <3>1. Acked(e) /\ Becomes(e, [j EXCEPT !.pc = "running"]) /\ j.pc = "acking"
      BY <1>8, <2>2 DEF Enter, Acked
    <3> QED BY <1>3, <1>5, <3>1
  <2> QED BY <2>1, <2>2
<1>9. CASE UpcastFails(e)
  <2>1. /\ Acked(e) /\ Becomes(e, [j EXCEPT !.pc = "reporting", !.outcome = "unstarted"])
        /\ j.pc = "acking"
    BY <1>9 DEF UpcastFails, Acked
  <2> QED BY <1>3, <1>5, <2>1
<1>10. CASE AckUnheard(e)
  BY <1>3, <1>4, <1>10 DEF AckUnheard
<1>11. CASE AckFails(e) \/ ReportFails(e)
  BY <1>1, <1>4, <1>11 DEF AckFails, ReportFails
\* What the handler records is the next step it has not taken.
<1>12. ASSUME Todo(j) # {}, NEW kind \in Kinds
       PROVE  LET s == [id |-> NextStep(j), kind |-> kind]
              IN  /\ s \in Step /\ s.id = NextStep(j) /\ s.kind = kind /\ s.id \in 1 .. Steps
                  /\ s.id \notin j.memo /\ \A i \in 1 .. Len(j.steps) : j.steps[i].id # s.id
  <2>1. /\ NextStep(j) \in 1 .. Steps /\ NextStep(j) \notin j.memo
        /\ \A i \in 1 .. Len(j.steps) : j.steps[i].id # NextStep(j)
    BY <1>0, <1>12, NextStepIsNew
  <2> HIDE DEF j
  <2>2. NextStep(j) \in Ids
    BY <2>1, WorkerAssumption DEF Ids
  <2> QED BY <1>12, <2>1, <2>2 DEF Step, Kinds
<1>13. ASSUME NEW kind \in {"done", "bad"}, RunStep(e, kind) PROVE StepsInv'
  <2> DEFINE s == [id |-> NextStep(j), kind |-> kind]
  <2>1. /\ Todo(j) # {} /\ Local(e, Recorded(j, s))
        /\ \/ j.pc = "running"
           \/ j.pc = "finishing" /\ j.outcome # "completed" /\ kind = "done"
    BY <1>13 DEF RunStep
  <2>2. /\ s \in Step /\ s.kind = kind /\ s.id \in 1 .. Steps
        /\ s.id \notin j.memo /\ \A i \in 1 .. Len(j.steps) : j.steps[i].id # s.id
    BY <1>12, <2>1 DEF Kinds
  <2> HIDE DEF s, j
  <2>3. Sound(Recorded(j, s))
    BY <1>0, <2>1, <2>2, RecordedSound
  <2>4. Extends(j, Recorded(j, s))
    BY <1>0, <2>2, RecordedExtends
  <2> QED BY <1>2, <2>1, <2>3, <2>4
<1>14. ASSUME NEW o \in {"failed", "fatal"}, StepFails(e, o) PROVE StepsInv'
  <2> DEFINE s == [id |-> NextStep(j), kind |-> "failed"]
             i == Recorded(j, s)
  <2>1. Todo(j) # {} /\ j.pc = "running"
    BY <1>14 DEF StepFails
  <2>2. PICK k \in Ends(i, o) : Local(e, k)
    BY <1>14 DEF StepFails
  <2>3. /\ s \in Step /\ s.id \in 1 .. Steps
        /\ s.id \notin j.memo /\ \A m \in 1 .. Len(j.steps) : j.steps[m].id # s.id
    BY <1>12, <2>1 DEF Kinds
  <2>4. s.id # Sleep /\ s.id # Undo
    <3>1. s.id \in 1 .. Steps
      BY <2>3
    <3> HIDE DEF s
    <3> QED BY <3>1, WorkerAssumption DEF Sleep, Undo
  <2> HIDE DEF s, j
  <2>5. /\ i \in JobType /\ Extends(j, i) /\ Len(i.steps) = Len(j.steps) + 1
        /\ i.steps[Len(j.steps) + 1] = s /\ i.pc = "running" /\ i.outcome = j.outcome
    BY <1>0, <2>1, <2>3, RecordedExtends
  <2>6. Ledger(i)
    BY <1>0, <2>3, <2>4, RecordedLedger
  <2> HIDE DEF i
  <2>7. UndoLast(i)
    <3>1. Len(j.steps) \in Nat
      BY <1>0
    <3>2. \A m \in 1 .. Len(i.steps) : m \in 1 .. Len(j.steps) \/ m = Len(j.steps) + 1
      BY <2>5, <3>1
    <3>3. \A m \in 1 .. Len(j.steps) : j.steps[m].id # Undo
      BY <1>0, <2>1 DEF UndoLast
    <3> QED BY <2>4, <2>5, <3>2, <3>3 DEF Extends, UndoLast
  <2>8. i.outcome = "none"
    BY <1>0, <2>1, <2>5 DEF Honest
  <2>9. Sound(k) /\ SameSteps(i, k)
    BY <2>2, <2>5, <2>6, <2>7, <2>8, EndsSound
  <2>10. Extends(j, k)
    BY <1>0, <2>5, <2>9, SameExtends, ExtendsThrough DEF Sound, Ledger
  <2> QED BY <1>2, <2>1, <2>2, <2>9, <2>10
<1>15. ASSUME NEW o \in {"completed", "yielded", "failed", "fatal"}, HandlerEnds(e, o)
       PROVE  StepsInv'
  <2>1. /\ j.pc = "running" /\ (o = "completed" => Todo(j) = {})
        /\ (o = "yielded" => Sleep \notin j.memo)
    BY <1>15 DEF HandlerEnds
  <2>2. PICK k \in Ends(j, o) : Local(e, k)
    BY <1>15 DEF HandlerEnds
  <2>3. j.outcome = "none" /\ \A i \in 1 .. Len(j.steps) : j.steps[i].kind # "failed"
    BY <1>0, <2>1 DEF Honest
  <2> HIDE DEF j
  <2>4. Sound(k) /\ SameSteps(j, k)
    BY <1>0, <2>1, <2>2, <2>3, EndsSound
  <2> QED BY <1>1, <2>1, <2>2, <2>4
<1>16. ASSUME NEW kind \in {"done", "failed"}, Compensate(e, kind) PROVE StepsInv'
  <2> DEFINE s == [id |-> Undo, kind |-> kind]
             i == Recorded(j, s)
  <2>1. /\ j.pc = "compensating"
        /\ \/ Local(e, [j EXCEPT !.pc = "over"])
           \/ Local(e, Finish(j, "fatal"))
           \/ Undo \notin j.memo /\ Local(e, Finish(i, "fatal"))
    BY <1>16 DEF Compensate
  <2>2. \A k : Accounts(k, "fatal")
    BY DEF Accounts
  <2>3. CASE Local(e, [j EXCEPT !.pc = "over"])
    BY <1>1, <1>4, <2>1, <2>3
  <2>4. CASE Local(e, Finish(j, "fatal"))
    <3>1. Sound(Finish(j, "fatal")) /\ SameSteps(j, Finish(j, "fatal"))
      BY <1>0, <2>2, FinishSound
    <3> QED BY <1>1, <2>1, <2>4, <3>1
  <2>5. CASE Undo \notin j.memo /\ Local(e, Finish(i, "fatal"))
    <3>1. s \in Step /\ s.id = Undo /\ Undo # Sleep
      BY WorkerAssumption DEF Step, Ids, Undo, Sleep
    <3>2. \A m \in 1 .. Len(j.steps) : j.steps[m].id # Undo
      BY <1>0, <2>1 DEF UndoLast
    <3> HIDE DEF s, j
    <3>3. Ledger(i) /\ Extends(j, i) /\ i \in JobType
      BY <1>0, <2>5, <3>1, <3>2, RecordedLedger, RecordedExtends
    <3> HIDE DEF i
    <3>4. Sound(Finish(i, "fatal")) /\ SameSteps(i, Finish(i, "fatal"))
      BY <2>2, <3>3, FinishSound
    <3>5. Extends(j, Finish(i, "fatal"))
      BY <1>0, <3>3, <3>4, SameExtends, ExtendsThrough DEF Sound, Ledger
    <3> QED BY <1>2, <2>1, <2>5, <3>4, <3>5
  <2> QED BY <2>1, <2>3, <2>4, <2>5
<1> QED BY <1>6, <1>7, <1>8, <1>9, <1>10, <1>11, <1>13, <1>14, <1>15, <1>16, ReportedKeeps
        DEF Execute

-----------------------------------------------------------------------------
(* The worker and the engine. *)

\* The rows of a run are counted by the sequence after the last.
LEMMA NextSlotCounts ==
  ASSUME NEW j \in Jobs, rows[j] \in SUBSET Row, NEW n \in Nat,
         {r.slot : r \in rows[j]} = 0 .. n - 1,
         \A r, q \in rows[j] : r.slot = q.slot => r = q
  PROVE  NextSlot(j) = n /\ IsFiniteSet(rows[j]) /\ Cardinality(rows[j]) = n
<1> DEFINE R == rows[j]
           f == [r \in R |-> r.slot]
           Last(m) == (\A r \in R : r.slot <= m) /\ (m = -1 \/ \E r \in R : r.slot = m)
           Bound == MaxSeq * (Steps + 2)
<1>0. Bound \in Nat
  <2>1. \A a, b \in Nat : a * b \in Nat
    OBVIOUS
  <2>2. MaxSeq \in Nat /\ Steps + 2 \in Nat
    BY WorkerAssumption
  <2> QED BY <2>1, <2>2
<1>1. \A r \in R : r.slot \in 0 .. n - 1
  OBVIOUS
<1>2. \A m \in 0 .. n - 1 : \E r \in R : r.slot = m
  OBVIOUS
<1>3. f \in Injection(R, 0 .. n - 1) /\ f \in Surjection(R, 0 .. n - 1)
  BY <1>1, <1>2 DEF Injection, IsInjective, Surjection
<1>4. IsFiniteSet(0 .. n - 1) /\ Cardinality(0 .. n - 1) = n
  BY FS_Interval
<1> HIDE DEF f
<1>5. IsFiniteSet(R) /\ Cardinality(R) = n
  BY <1>3, <1>4, FS_Injection
<1> HIDE DEF Bound
<1>6. n - 1 \in -1 .. Cardinality(R) + Bound /\ Last(n - 1)
  <2>1. n - 1 \in -1 .. Cardinality(R) + Bound
    BY <1>0, <1>5
  <2>2. \A r \in R : r.slot <= n - 1
    BY <1>1
  <2>3. n - 1 = -1 \/ \E r \in R : r.slot = n - 1
    BY <1>2
  <2> QED BY <2>1, <2>2, <2>3
<1>7. \A m \in -1 .. Cardinality(R) + Bound : Last(m) => m = n - 1
  <2> SUFFICES ASSUME NEW m \in -1 .. Cardinality(R) + Bound, Last(m) PROVE m = n - 1
    OBVIOUS
  <2>0. m \in Int
    BY <1>0, <1>5
  <2>1. CASE n = 0
    BY <1>1, <2>0, <2>1
  <2>2. CASE n # 0
    <3>1. \E r \in R : r.slot = n - 1
      BY <1>2, <2>2
    <3>2. n - 1 <= m
      BY <3>1
    <3>3. m # -1
      BY <2>0, <2>2, <3>2
    <3>4. m <= n - 1
      BY <1>1, <3>3
    <3> QED BY <2>0, <3>2, <3>4
  <2> QED BY <2>1, <2>2
<1>8. NextSlot(j) = 1 + CHOOSE m \in -1 .. Cardinality(R) + Bound : Last(m)
  BY DEF NextSlot, Bound
<1> HIDE DEF Last
<1>9. (CHOOSE m \in -1 .. Cardinality(R) + Bound : Last(m)) = n - 1
  BY <1>6, <1>7
<1> HIDE DEF R
<1>10. 1 + (n - 1) = n
  OBVIOUS
<1> QED BY <1>5, <1>8, <1>9, <1>10 DEF R

\* A job that is taken up counts on from the rows there are.
LEMMA FreshSound ==
  ASSUME StepsInv, NEW e \in Exec
  PROVE  /\ Sound(Fresh(e)) /\ ~Fresh(e).timer
         /\ Fresh(e).memo = DoneIn(rows[e[1]]) /\ Stored(rows[e[1]], Fresh(e), 0)
<1> DEFINE R == rows[e[1]]
           k == Fresh(e)
<1>0. e[1] \in Jobs /\ R \in SUBSET Row /\ Numbered(R)
  BY DEF Exec, StepsInv
<1>1. PICK n \in Nat : {r.slot : r \in R} = 0 .. n - 1
  BY <1>0 DEF Numbered
<1>2. NextSlot(e[1]) = n
  BY <1>0, <1>1, NextSlotCounts DEF Numbered
<1>3. Completed(e[1]) = DoneIn(R) /\ DoneIn(R) \in SUBSET Ids
  BY <1>0 DEF Completed, DoneIn, Row
<1>4. /\ k = [Idle EXCEPT !.pc = "accepted", !.memo = DoneIn(R), !.base = n]
      /\ Idle \in JobType
  BY <1>2, <1>3, IdleHasType DEF Fresh
<1> HIDE DEF R, k
<1>5. /\ k \in JobType /\ k.pc = "accepted" /\ k.memo = DoneIn(R) /\ k.base = n
      /\ k.steps = <<>> /\ k.cursor = 0 /\ k.sending = 0 /\ ~k.timer
      /\ k.outcome = "none" /\ k.heard = {}
  <2>1. "accepted" \in Pcs
    BY DEF Pcs
  <2>2. k \in JobType
    BY <1>1, <1>3, <1>4, <2>1 DEF JobType
  <2>3. DOMAIN Idle = {"pc", "aborted", "memo", "base", "steps", "cursor", "sending",
                       "queued", "timer", "off", "outcome", "heard"}
    BY ShapeOfIdle DEF Fields
  <2>4. k.pc = "accepted" /\ k.memo = DoneIn(R) /\ k.base = n
    BY <1>4, <2>3
  <2>5. k.steps = Idle.steps /\ k.cursor = Idle.cursor /\ k.sending = Idle.sending
        /\ k.timer = Idle.timer /\ k.outcome = Idle.outcome /\ k.heard = Idle.heard
    BY <1>4, <2>3
  <2>6. Idle.steps = <<>> /\ Idle.cursor = 0 /\ Idle.sending = 0 /\ ~Idle.timer
        /\ Idle.outcome = "none" /\ Idle.heard = {}
    BY DEF Idle
  <2> QED BY <2>2, <2>4, <2>5, <2>6
<1>6. Len(<<>>) = 0
  OBVIOUS
<1>7. Ledger(k)
  BY <1>5, <1>6 DEF Ledger, InTail, Distinct, BehindCursor
<1>8. UndoLast(k) /\ InTurn(k) /\ Honest(k)
  BY <1>5, <1>6 DEF UndoLast, InTurn, Honest, Accounts
<1>9. Stored(R, k, 0)
  <2>1. {r.slot : r \in R} = 0 .. k.base + 0 - 1
    BY <1>1, <1>5
  <2>2. \A r \in R : r.slot < k.base /\ (r.kind = "done" => r.id \in k.memo)
    <3>1. \A r \in R : r.slot \in 0 .. n - 1
      BY <1>1
    <3>2. \A r \in R : r.kind = "done" => r.id \in DoneIn(R)
      BY DEF DoneIn
    <3> QED BY <1>1, <1>5, <3>1, <3>2
  <2> QED BY <1>5, <1>6, <2>1, <2>2 DEF Stored
<1> QED BY <1>5, <1>7, <1>8, <1>9 DEF Sound, R, k

\* Jobs are taken up or aborted, and the engine goes onward.
LEMMA WorkerStepKeeps ==
  ASSUME StepsInv, OnceInv, UNCHANGED rows, Onward,
         job' \in [Exec -> JobType],
         \A e \in Exec : job'[e] \in {job[e], Aborted(job[e])} \/ (e \in batch /\ job'[e] = Fresh(e)),
         \A e \in batch' : e \in Exec /\ (e \in batch \/ e[2] = run'[e[1]].seq),
         \A j \in Jobs : run'[j].phase = "completed" => run[j].phase = "completed"
  PROVE  StepsInv'
<1>1. \A e \in Exec : e[1] \in Jobs /\ e[2] \in Nat /\ run[e[1]].seq \in Nat
                      /\ run'[e[1]].seq \in Nat /\ run[e[1]].seq <= run'[e[1]].seq
  <2> SUFFICES ASSUME NEW e \in Exec
               PROVE  e[1] \in Jobs /\ e[2] \in Nat /\ run[e[1]].seq \in Nat
                      /\ run'[e[1]].seq \in Nat /\ run[e[1]].seq <= run'[e[1]].seq
    OBVIOUS
  <2>1. e[1] \in Jobs /\ e[2] \in Nat
    BY DEF Exec
  <2>2. run[e[1]].seq \in Nat /\ run'[e[1]].seq \in Nat
    BY <2>1 DEF OnceInv, Onward
  <2> QED BY <2>1, <2>2 DEF Onward
<1>2. \A e \in batch' : e[2] <= run'[e[1]].seq /\ e \in Exec
  <2> SUFFICES ASSUME NEW e \in batch' PROVE e[2] <= run'[e[1]].seq /\ e \in Exec
    OBVIOUS
  <2>1. e \in batch => e[2] <= run[e[1]].seq
    BY DEF StepsInv
  <2> QED BY <1>1, <2>1
<1>3. ASSUME NEW e \in Exec
      PROVE  /\ Sound(job'[e]) /\ (job'[e].timer => InHand(job'[e]))
             /\ InHand(job'[e]) =>
                  /\ e[2] <= run'[e[1]].seq
                  /\ job'[e].memo \subseteq DoneIn(rows'[e[1]])
                  /\ e[2] = run'[e[1]].seq => \E w \in Nat : Stored(rows'[e[1]], job'[e], w)
  <2>1. CASE job'[e] \in {job[e], Aborted(job[e])}
    <3>1. Sound(job[e])
      BY DEF StepsInv
    <3>2. /\ Sound(job'[e]) /\ SameSteps(job[e], job'[e])
          /\ job'[e].sending = job[e].sending /\ job'[e].pc = job[e].pc
          /\ (job'[e].timer => job[e].timer)
      BY <2>1, <3>1, AbortedSound DEF SameSteps
    <3>3. InHand(job'[e]) <=> InHand(job[e])
      BY <3>2 DEF InHand, Finished
    <3>4. \A w : Stored(rows[e[1]], job[e], w) => Stored(rows'[e[1]], job'[e], w)
      BY <3>2 DEF SameSteps, Stored
    <3>5. InHand(job[e]) /\ e[2] = run'[e[1]].seq => e[2] = run[e[1]].seq
      <4>1. InHand(job[e]) => e[2] <= run[e[1]].seq
        BY DEF StepsInv
      <4> QED BY <1>1, <4>1
    <3>6. job'[e].memo = job[e].memo /\ (InHand(job[e]) => e[2] <= run'[e[1]].seq)
      BY <1>1, <3>2 DEF StepsInv, SameSteps
    <3> QED BY <3>2, <3>3, <3>4, <3>5, <3>6 DEF StepsInv
  <2>2. CASE e \in batch /\ job'[e] = Fresh(e)
    <3>1. /\ Sound(job'[e]) /\ ~job'[e].timer /\ job'[e].memo = DoneIn(rows[e[1]])
          /\ Stored(rows[e[1]], job'[e], 0)
      BY <2>2, FreshSound
    <3>2. e[2] <= run[e[1]].seq
      BY <2>2 DEF StepsInv
    <3>3. e[2] <= run'[e[1]].seq
      BY <1>1, <3>2
    <3> QED BY <3>1, <3>3
  <2> QED BY <2>1, <2>2
<1>4. /\ rows' \in [Jobs -> SUBSET Row] /\ \A j \in Jobs : Numbered(rows'[j])
  BY DEF StepsInv
<1>5. \A j \in Jobs : run'[j].phase = "completed" => 1 .. Steps \subseteq DoneIn(rows'[j])
  BY DEF StepsInv
<1> QED BY <1>2, <1>3, <1>4, <1>5 DEF StepsInv

LEMMA LifecycleKeeps ==
  ASSUME StepsInv, OnceInv,
         Lifecycle \/ (\E j \in Jobs : LeaseExpires(j)) \/ UNCHANGED vars
  PROVE  StepsInv'
<1>0. /\ job \in [Exec -> JobType] /\ \A e \in Exec : Aborted(job[e]) \in JobType
      /\ batch \subseteq Exec
  <2>1. \A e \in Exec : Sound(job[e])
    BY DEF StepsInv
  <2>2. \A e \in Exec : Sound(Aborted(job[e]))
    BY <2>1, AbortedSound
  <2> QED BY <2>2 DEF StepsInv, Sound, Ledger
<1>1. CASE StopWorker /\ UNCHANGED <<batch, run, rows>>
  <2>1. job' = [e \in Exec |-> IF e \in active THEN Aborted(job[e]) ELSE job[e]]
    BY <1>1 DEF StopWorker
  <2>2. job' \in [Exec -> JobType] /\ \A e \in Exec : job'[e] \in {job[e], Aborted(job[e])}
    BY <1>0, <2>1
  <2> QED BY <1>0, <1>1, <2>2, EngineStays, WorkerStepKeeps
<1>2. CASE UNCHANGED <<job, batch, run, rows>>
  BY <1>0, <1>2, EngineStays, WorkerStepKeeps
<1>3. ASSUME NEW es \in SUBSET Exec, ProcessJobs(es) PROVE StepsInv'
  <2>1. /\ job' = [e \in Exec |-> IF e \in Taken(es) THEN Fresh(e) ELSE job[e]]
        /\ Taken(es) \subseteq batch /\ batch' = {} /\ UNCHANGED <<run, rows>>
    BY <1>3 DEF ProcessJobs, Taken, engine
  <2>2. \A e \in Exec : Fresh(e) \in JobType
    BY FreshSound DEF Sound, Ledger
  <2>3. job' \in [Exec -> JobType]
        /\ \A e \in Exec : job'[e] = job[e] \/ (e \in batch /\ job'[e] = Fresh(e))
    BY <1>0, <2>1, <2>2
  <2> QED BY <2>1, <2>3, EngineStays, WorkerStepKeeps
<1>4. ASSUME NEW es \in SUBSET Exec, Assign(es) \/ AssignUnheard(es) PROVE StepsInv'
  <2>1. /\ Onward /\ UNCHANGED <<job, rows>>
        /\ batch' \subseteq batch \cup es
        /\ run' = [j \in Jobs |-> IF \E e \in es : e[1] = j
                                  THEN [run[j] EXCEPT !.phase = "assigned"] ELSE run[j]]
        /\ \A e \in es : run[e[1]].seq = e[2]
    BY <1>4, AssignIsOnward DEF Assign, AssignUnheard
  <2>2. \A j \in Jobs : /\ run'[j].phase = "completed" => run[j].phase = "completed"
                        /\ run'[j].seq = run[j].seq
    BY <2>1 DEF OnceInv
  <2>3. \A e \in batch' : e \in Exec /\ (e \in batch \/ e[2] = run'[e[1]].seq)
    BY <1>0, <2>1, <2>2 DEF Exec
  <2> QED BY <1>0, <2>1, <2>2, <2>3, WorkerStepKeeps
<1>5. ASSUME NEW j \in Jobs, LeaseExpires(j) PROVE StepsInv'
  <2>1. /\ run[j].phase \in {"assigned", "acked"} /\ run' = [run EXCEPT ![j] = Requeued(j)]
        /\ UNCHANGED <<job, rows, batch>>
    BY <1>5 DEF LeaseExpires, worker
  <2>2. Onward
    BY <2>1, RequeuedIsOnward
  <2>3. Requeued(j).phase # "completed"
    BY <2>1 DEF Requeued, OnceInv
  <2>4. \A i \in Jobs : run'[i].phase = "completed" => run[i].phase = "completed"
    BY <2>1, <2>3 DEF OnceInv
  <2> QED BY <1>0, <2>1, <2>2, <2>4, WorkerStepKeeps
<1>6. Lifecycle \/ UNCHANGED vars =>
        \/ StopWorker /\ UNCHANGED <<batch, run, rows>>
        \/ UNCHANGED <<job, batch, run, rows>>
        \/ \E es \in SUBSET Exec : Assign(es) \/ AssignUnheard(es) \/ ProcessJobs(es)
  BY DEF Lifecycle, Stop, Refused, DrainStops, Drain, DrainDeadline, Start, Connect,
     LeaveLoop, StartReturns, FunctionsRegistered, WorkerRegistered, ConnectFails,
     ConnectAborted, Retry, Poll, PollEnds, PollFails, PollAborted, PollOver, NotFound,
     Goto, engine, vars, worker
<1> QED BY <1>1, <1>2, <1>3, <1>4, <1>5, <1>6

LEMMA StepsInvInductive == Spec => []StepsInv
<1>1. Init => StepsInv
  <2> SUFFICES ASSUME Init PROVE StepsInv
    OBVIOUS
  <2>1. /\ job = [e \in Exec |-> Idle] /\ rows = [j \in Jobs |-> {}] /\ batch = {}
        /\ run = [j \in Jobs |-> [seq |-> 1, phase |-> "queued"]]
    BY DEF Init
  <2>2. /\ Idle.pc = "none" /\ Idle.sending = 0 /\ ~Idle.timer /\ Idle.steps = <<>>
        /\ Idle.cursor = 0 /\ Idle.heard = {} /\ Idle.outcome = "none"
    BY DEF Idle
  <2>3. Len(<<>>) = 0
    OBVIOUS
  <2>4. Sound(Idle) /\ ~InHand(Idle)
    BY <2>2, <2>3, IdleHasType DEF Sound, Ledger, InTail, Distinct, BehindCursor, UndoLast,
       InTurn, Honest, Accounts, InHand, Finished
  <2>5. Numbered({})
    <3>1. {r.slot : r \in {}} = 0 .. 0 - 1
      OBVIOUS
    <3> QED BY <3>1 DEF Numbered
  <2> HIDE DEF Idle
  <2> QED BY <2>1, <2>2, <2>4, <2>5, IdleHasType DEF StepsInv
<1>2. StepsInv /\ OnceInv /\ [Next]_vars => StepsInv'
  BY LifecycleKeeps, CheckpointerKeeps, ExecuteKeeps DEF Next
<1> QED BY <1>1, <1>2, OnceInvInductive, PTL DEF Spec

-----------------------------------------------------------------------------
\* The persisted steps of a run are numbered without a gap and none completes
\* twice, for any loss, retry or lease that expires (startCheckpointer, finish).
THEOREM NumberedOnce == Spec => []StepsNumberedOnce
<1>1. StepsInv => StepsNumberedOnce
  <2> SUFFICES ASSUME StepsInv, NEW j \in Jobs
               PROVE  /\ {r.slot : r \in rows[j]} = 0 .. Cardinality(rows[j]) - 1
                      /\ \A r, q \in rows[j] :
                           r.id = q.id /\ r.kind = "done" /\ q.kind = "done" => r = q
    BY DEF StepsNumberedOnce
  <2>1. Numbered(rows[j]) /\ rows[j] \in SUBSET Row
    BY DEF StepsInv
  <2>2. PICK n \in Nat : {r.slot : r \in rows[j]} = 0 .. n - 1
    BY <2>1 DEF Numbered
  <2>3. Cardinality(rows[j]) = n
    BY <2>1, <2>2, NextSlotCounts DEF Numbered
  <2> QED BY <2>1, <2>2, <2>3 DEF Numbered
<1> QED BY <1>1, StepsInvInductive, PTL

\* A run that the engine has as completed has every step of its function, however
\* many executions and lost checkpoints they came from (finish).
THEOREM CompletedHasAll == Spec => []CompletedIsWhole
<1>1. StepsInv => CompletedIsWhole
  BY DEF StepsInv, CompletedIsWhole, Completed, DoneIn
<1> QED BY <1>1, StepsInvInductive, PTL

\* No request carries a step whose storing the engine has confirmed (flush).
THEOREM ReportedOnce == Spec => []NoDoubleReport
<1>1. StepsInv => NoDoubleReport
  <2> SUFFICES ASSUME StepsInv, NEW e \in Exec
               PROVE  job[e].heard \cap Slots(job[e]) = {}
    BY DEF NoDoubleReport
  <2>1. Sound(job[e])
    BY DEF StepsInv
  <2> DEFINE j == job[e]
  <2>2. j.base \in Nat /\ j.cursor \in Nat /\ j.heard \in SUBSET Nat
        /\ \A n \in j.heard : n < j.base + j.cursor
    BY <2>1 DEF Sound, Ledger, JobType, BehindCursor
  <2>3. \A n \in Slots(j) : n \in Int /\ ~(n < j.base + j.cursor)
    <3>1. Offset(j) \in Nat /\ Offset(j) = j.base + j.cursor
      BY <2>2 DEF Offset
    <3>2. \A n \in Slots(j) : n \in Int /\ Offset(j) <= n
      BY <3>1 DEF Slots
    <3> QED BY <2>2, <3>1, <3>2
  <2> HIDE DEF j
  <2>4. j.heard \cap Slots(j) = {}
    BY <2>2, <2>3
  <2> QED BY <2>4 DEF j
<1> QED BY <1>1, StepsInvInductive, PTL

\* The rest of the worker's variables have their types.
LoopTypes ==
  /\ state \in {"idle", "connecting", "connected", "draining", "stopped"}
  /\ main \in {"idle", "loop", "functions", "worker", "retry", "poll", "polling",
               "reading", "leaving", "done", "threw"}
  /\ drain \in {"none", "waiting", "late", "over"}
  /\ heart \in BOOLEAN /\ avail \in 0 .. MaxConcurrent /\ active \subseteq Exec
  /\ IsFiniteSet(active)

LEMMA LoopTypesKept ==
  ASSUME LoopTypes, batch \subseteq Exec, Next
  PROVE  LoopTypes'
<1>0. 0 \in 0 .. MaxConcurrent
  BY WorkerAssumption
<1>1. CASE StopWorker /\ main' \in {main, "threw"} /\ avail' \in {avail, 0}
           /\ drain' \in {drain, "over"}
  <2>1. IsFiniteSet({})
    BY FS_EmptySet
  <2> QED BY <1>0, <1>1, <2>1 DEF StopWorker, LoopTypes
<1>2. CASE Drain
  <2>1. IsFiniteSet({})
    BY FS_EmptySet
  <2> QED BY <1>2, <2>1 DEF Drain, StopWorker, LoopTypes
<1>3. CASE Start \/ Connect \/ WorkerRegistered \/ NotFound \/ DrainDeadline
  BY <1>0, <1>3 DEF Start, Connect, WorkerRegistered, NotFound, DrainDeadline, LoopTypes
<1>4. CASE LeaveLoop \/ StartReturns \/ FunctionsRegistered \/ ConnectFails
           \/ ConnectAborted \/ Retry \/ PollEnds \/ PollFails \/ PollAborted
  BY <1>0, <1>4 DEF LeaveLoop, StartReturns, FunctionsRegistered, ConnectFails, ConnectAborted,
     Retry, PollEnds, PollFails, PollAborted, PollOver, Goto, LoopTypes
<1>5. CASE Poll
  <2>1. MaxConcurrent - Cardinality(active) \in 0 .. MaxConcurrent
    <3>1. Cardinality(active) \in Nat /\ Cardinality(active) < MaxConcurrent
      BY <1>5, FS_CardinalityType DEF Poll, LoopTypes
    <3> QED BY <3>1, WorkerAssumption
  <2> QED BY <1>5, <2>1 DEF Poll, LoopTypes
<1>6. ASSUME NEW es \in SUBSET Exec, Assign(es) \/ AssignUnheard(es) PROVE LoopTypes'
  BY <1>0, <1>6 DEF Assign, AssignUnheard, LoopTypes
<1>7. ASSUME NEW es \in SUBSET Exec, ProcessJobs(es) PROVE LoopTypes'
  <2>1. /\ active' = active \cup Taken(es) /\ main' = "poll"
        /\ UNCHANGED <<state, drain, heart, avail>> /\ Taken(es) \subseteq batch
    BY <1>7 DEF ProcessJobs, Taken
  <2>2. IsFiniteSet(active')
    <3>1. IsFiniteSet(Exec)
      <4>1. IsFiniteSet(1 .. MaxSeq)
        BY WorkerAssumption, FS_Interval
      <4> QED BY <4>1, WorkerAssumption, FS_Product DEF Exec
    <3>2. active' \in SUBSET Exec
      BY <2>1 DEF LoopTypes
    <3> QED BY <3>1, <3>2, FS_Subset
  <2> QED BY <2>1, <2>2 DEF LoopTypes
<1>8. ASSUME NEW e \in Exec, Checkpointer(e) \/ Execute(e) PROVE LoopTypes'
  <2>1. UNCHANGED worker /\ active' \in {active, active \ {e}}
    BY <1>8 DEF Checkpointer, TimerFires, CheckpointStored, CheckpointUnheard,
       CheckpointStale, CheckpointFails, Execute, NoFunction, Ack, AckFails, RunStep, StepFails,
       HandlerEnds, Compensate, ReportFails, Enter, UpcastFails, AckUnheard, Acked, Reported,
       Local, Becomes
  <2>2. IsFiniteSet(active')
    BY <2>1, FS_Subset DEF LoopTypes
  <2> QED BY <2>1, <2>2 DEF worker, LoopTypes
<1>9. ASSUME NEW j \in Jobs, LeaseExpires(j) PROVE LoopTypes'
  BY <1>9 DEF LeaseExpires, worker, LoopTypes
<1>10. Lifecycle =>
         \/ StopWorker /\ main' \in {main, "threw"} /\ avail' \in {avail, 0}
            /\ drain' \in {drain, "over"}
         \/ Drain \/ Start \/ Connect \/ WorkerRegistered \/ NotFound \/ DrainDeadline
         \/ LeaveLoop \/ StartReturns \/ FunctionsRegistered \/ ConnectFails
         \/ ConnectAborted \/ Retry \/ PollEnds \/ PollFails \/ PollAborted \/ Poll
         \/ \E es \in SUBSET Exec : Assign(es) \/ AssignUnheard(es) \/ ProcessJobs(es)
  BY DEF Lifecycle, Stop, Refused, DrainStops
<1> QED BY <1>1, <1>2, <1>3, <1>4, <1>5, <1>6, <1>7, <1>8, <1>9, <1>10 DEF Next

\* The variables of the worker, its jobs and the engine have their types.
THEOREM JobWorkerTypes == Spec => []TypeOK
<1>1. Init => LoopTypes
  <2>1. IsFiniteSet({}) /\ 0 \in 0 .. MaxConcurrent
    BY FS_EmptySet, WorkerAssumption
  <2> QED BY <2>1 DEF Init, LoopTypes
<1>2. LoopTypes /\ StepsInv /\ [Next]_vars => LoopTypes'
  <2>1. CASE UNCHANGED vars
    BY <2>1 DEF vars, worker, LoopTypes
  <2> QED BY <2>1, LoopTypesKept DEF StepsInv
<1>3. LoopTypes /\ StepsInv /\ OnceInv => TypeOK
  <2> SUFFICES ASSUME LoopTypes, StepsInv, OnceInv PROVE TypeOK
    OBVIOUS
  <2>1. \A j \in Jobs : \A r \in rows[j] :
          r.slot \in Nat /\ [id |-> r.id, kind |-> r.kind] \in Step
    BY DEF StepsInv, Row, Step, Kinds
  <2> QED BY <2>1 DEF LoopTypes, StepsInv, OnceInv, JobType, TypeOK
<1> QED BY <1>1, <1>2, <1>3, StepsInvInductive, OnceInvInductive, PTL DEF Spec
=============================================================================
