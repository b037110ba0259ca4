----------------------------- MODULE Components -----------------------------
(***************************************************************************)
(* The components with proofs of their own, side by side: the pull and the *)
(* streaming worker, the drain at a signal, the invocation of a durable    *)
(* function, a consumer group, the claim of a command, the agent server,   *)
(* the subscriptions over ConnectRPC and the watchers of an offline write. *)
(* MCComponents adds the others.                                           *)
(*                                                                         *)
(* They share no state, so that what one does is the same whatever the     *)
(* others do.  A behaviour is of one of them, `part'; the others stay where*)
(* they start.  A variable that two components have is named after the     *)
(* component where its own name is taken.  A component is an instance of   *)
(* the module of its proofs, where it has one, whose theorems              *)
(* ComponentsProofs cites.                                                 *)
(***************************************************************************)
EXTENDS Integers, Sequences, FiniteSets

CONSTANTS
  PartsRun,                     \* the components to run
  PullJobs, PullSeq, PullSteps, PullSlots, PullBatch,
  StreamingJobs, Unfenced, StreamingSeq, StreamingStreams, StreamingSteps, StreamingUndos,
  StreamingSlots, StreamingFaults,
  Workers, Signals,
  Programs, Policies, MaxAttempts, ResponseLosses, Numerals,
  GroupEvents, GroupModes, GroupStreams, GroupCopies, GroupFaults,
  Callers, ClaimAttempts, MaxLost, MaxFailures,
  Connections, Loads, ToolRequests, MaxTurns, MaxStops, MaxChildren,
  RpcSubs, RpcEvents, MaxPauses, RpcFaults,
  WatchTabs, Callbacks, TabOf, MaxRetries

VARIABLES
  part,
  state, main, drain, heart, avail, batch, active, job, run, rows, starts,
  sState, sMain, sDrain, sStream, link, outq, sActive, sJob, sRun, done, sLost, sFaults,
  drains, ours, apps, worker, waits, process, raised, dLate,
  prog, policy, attempt, iRows, resume, awaited, over, losses, phase, scope, counts,
  pending, failed, cancelled, steps, undos, response, took, began, swallowed, owed,
  mode, gPhase, stopped, released, stream, torn, closing, queue, handler, delivered,
  gPending, acks, outbox, inbox, held, settled, told, refused, faults,
  bucket, pc, rounds, entry, lost, failures,
  session, gates, load, turn, turns, request, always, aClosing, disposed, chain, child,
  late, stops,
  rState, rPaused, rTimer, sub, controller, rCursor, heard, streams, behind, ended, pauses,
  rFaults,
  store, open, watcher, asked, pass, news, posted, retries, wDelivered, wasDead, dropped,
  missed

pullVars == <<state, main, drain, heart, avail, batch, active, job, run, rows, starts>>
streamingVars ==
  <<sState, sMain, sDrain, sStream, link, outq, sActive, sJob, sRun, done, sLost, sFaults>>
signalVars == <<drains, ours, apps, worker, waits, process, raised, dLate>>
invocationVars == <<prog, policy, attempt, iRows, resume, awaited, over, losses, phase, scope,
                    counts, pending, failed, cancelled, steps, undos, response, took, began,
                    swallowed, owed>>
groupVars == <<mode, gPhase, stopped, released, stream, torn, closing, queue, handler,
               delivered, gPending, acks, outbox, inbox, held, settled, told, refused, faults>>
dedupVars == <<bucket, pc, rounds, entry, lost, failures>>
agentVars == <<session, gates, load, turn, turns, request, always, aClosing, disposed, chain,
               child, late, stops>>
rpcVars == <<rState, rPaused, rTimer, sub, controller, rCursor, heard, streams, behind, ended,
             pauses, rFaults>>
watchVars == <<store, open, watcher, asked, pass, news, posted, retries, wDelivered, wasDead,
               dropped, missed>>

vars == <<part, pullVars, streamingVars, signalVars, invocationVars, groupVars, dedupVars,
          agentVars, rpcVars, watchVars>>

-----------------------------------------------------------------------------
Pull == INSTANCE JobWorkerProofs WITH
  Jobs <- PullJobs, MaxSeq <- PullSeq, Steps <- PullSteps, MaxConcurrent <- PullSlots,
  Batch <- PullBatch

Streaming == INSTANCE StreamingWorkerProofs WITH
  Jobs <- StreamingJobs, MaxSeq <- StreamingSeq, MaxStreams <- StreamingStreams,
  Steps <- StreamingSteps, Undos <- StreamingUndos, MaxConcurrent <- StreamingSlots,
  MaxFaults <- StreamingFaults,
  state <- sState, main <- sMain, drain <- sDrain, stream <- sStream, active <- sActive,
  job <- sJob, run <- sRun, lost <- sLost, faults <- sFaults

OnSignal == INSTANCE DrainOnSignal WITH late <- dLate

Invocation == INSTANCE StepEngineProofs WITH MaxLost <- ResponseLosses, rows <- iRows

Group == INSTANCE ConsumerGroupProofs WITH
  Events <- GroupEvents, Modes <- GroupModes, MaxStreams <- GroupStreams,
  MaxCopies <- GroupCopies, MaxFaults <- GroupFaults, phase <- gPhase, pending <- gPending

Dedup == INSTANCE CommandDedup

Agent == INSTANCE AgentServerProofs WITH Requests <- ToolRequests, closing <- aClosing

Rpc == INSTANCE ConnectRPCSubscriptions WITH
  Subs <- RpcSubs, MaxEvents <- RpcEvents, MaxFaults <- RpcFaults,
  state <- rState, paused <- rPaused, timer <- rTimer, cursor <- rCursor, faults <- rFaults

Watch == INSTANCE WriteWatch WITH Tabs <- WatchTabs, delivered <- wDelivered

ASSUME ComponentsAssumption ==
  /\ Pull!WorkerAssumption /\ Streaming!StreamingAssumption /\ Invocation!StepAssumption
  /\ Group!GroupAssumption /\ Dedup!DedupAssumption /\ Agent!AgentAssumption
  /\ Rpc!ConnectRPCAssumption /\ Watch!WatchAssumption

-----------------------------------------------------------------------------
Init ==
  /\ part \in PartsRun
  /\ Pull!Init /\ Streaming!Init /\ OnSignal!Init /\ Invocation!Init
  /\ Group!Init /\ Dedup!Init /\ Agent!Init
  /\ Rpc!Init /\ Watch!Init
  /\ part # "signal" => apps = {}
  /\ part # "group" => mode = "manual"

Next ==
  /\ UNCHANGED part
  /\ IF part = "pull" THEN Pull!Next ELSE UNCHANGED pullVars
  /\ IF part = "streaming" THEN Streaming!Next ELSE UNCHANGED streamingVars
  /\ IF part = "signal" THEN OnSignal!Next ELSE UNCHANGED signalVars
  /\ IF part = "invocation" THEN Invocation!Next ELSE UNCHANGED invocationVars
  /\ IF part = "group" THEN Group!Next ELSE UNCHANGED groupVars
  /\ IF part = "dedup" THEN Dedup!Next ELSE UNCHANGED dedupVars
  /\ IF part = "agent" THEN Agent!Next ELSE UNCHANGED agentVars
  /\ IF part = "rpc" THEN Rpc!Next ELSE UNCHANGED rpcVars
  /\ IF part = "watch" THEN Watch!Next ELSE UNCHANGED watchVars

Spec == Init /\ [][Next]_vars

-----------------------------------------------------------------------------
(* The workers know what they run: superseded jobs count against the capacity  *)
(* of the pull worker (worker.ts:442-556); activeJobs of the streaming worker, *)
(* by which it answers an assignment and ends a drain, is what runs for the    *)
(* stream in hand, and what was computed for a lost stream is not sent on the  *)
(* next (worker-streaming.ts:561-971).                                         *)
JobsAreKnown ==
  /\ part = "pull" => Pull!CapacityKept
  /\ part = "streaming" => Streaming!ActiveIsWhatRuns /\ Streaming!LostStreamIsSilent

(* A streaming worker that drains takes no job and opens no stream any more,   *)
(* and closes its stream only when all it sent has been read                   *)
(* (worker-streaming.ts:263-300); a signal ends the process only when every    *)
(* worker has drained, and only if the application did not listen for it       *)
(* (drain-on-signal.ts).                                                       *)
DrainsAreWhole ==
  [][ /\ part = "streaming" => Streaming!DrainingStays /\ Streaming!DrainDelivers'
      /\ part = "signal" => OnSignal!ExitsWhenDrained' ]_vars

(* An operation of a durable function is given its own memoized output, and    *)
(* none whose row the engine has is run again, whatever branches did in which  *)
(* order and whichever response was lost (context.ts, step.ts).                *)
StepsOnce == part = "invocation" => Invocation!MemoIsOwn /\ Invocation!EffectsOnce

(* A handler that swallows a yield fails for good, and compensations run when  *)
(* a run fails, all of them, and never else (errors.ts, serve.ts:369-496).     *)
StepsEnd == part = "invocation" => Invocation!SwallowedFails /\ Invocation!UndoneIffFailed

(* An ack that resolved was applied, and no copy that the server waits for is  *)
(* refused (consumer-group-stream-conn.ts:136-201).                            *)
AcksAreHonest == part = "group" => Group!AcksAreHonest

(* unsubscribe() silences the handlers at once, and no member outlives it      *)
(* (consumer-group-stream.ts:224-360).                                         *)
GroupLeaves ==
  [][part = "group" => Group!QuietStep /\ Group!NoMemberOutlives']_vars

(* Of those who got one command, one at a time runs it, and none once it has a *)
(* result (command-dedup.ts:121-178).                                          *)
ClaimIsExclusive == part = "dedup" => Dedup!ClaimIsExclusive

(* A turn keeps the session its connection loaded, no answer after a cancel    *)
(* leaves a grant, and a connection has one child at a time, none after        *)
(* dispose() (server.ts:101-325, permissions.ts).                              *)
AgentSessionsHold == part = "agent" => Agent!AgentSessionsHold

(* Over ConnectRPC a subscription has one stream, whoever restarts it, and     *)
(* hears each event once (connectrpc.ts:337-560); and what a watcher is told of*)
(* an offline write is true (queue.ts:986-1056).                               *)
WhatIsToldIsTrue ==
  /\ part = "rpc" => Rpc!OneStreamEach
  /\ part = "watch" => Watch!ToldTheTruth
=============================================================================
