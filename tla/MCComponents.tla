---------------------------- MODULE MCComponents ----------------------------
(***************************************************************************)
(* All the components side by side: those of Components, and the           *)
(* projection runner, the WebSocket subscriptions of a browser and of a    *)
(* Node.js client, the watchers of a run, and the checkpoints of a         *)
(* LangGraph thread.  A behaviour is of one of them.                       *)
(***************************************************************************)
EXTENDS Components, TLC

CONSTANTS
  j1, j2, r1, r2, global, e1, e2, p1, p2, h1, h2, t1, t2, c1, c2, ed1, ed2, l1, l2, q1,
  NoRunner, NoBatch,
  LastEvent, BrowserFaults  \* bounds of the two runs

VARIABLES
  published, cursor, pState, epoch, holder, pMode, transport, pRun, handled, orphaned,
  pFaults, ends,
  handle, seen, promise, bState, ws, timer, paused, entries, patterns, socket, subs,
  owner, visits, bFaults,
  nState, nClosed, nTimer, nPending, nActive, resubscribing, nCanceled, nSocket, misread,
  nSubs, issued, sockets, calls, nFaults,
  highest, recent, shown,
  sEvents, keys, thread, reader, begun

projectionVars == <<published, cursor, pState, epoch, holder, pMode, transport, pRun, handled,
                    orphaned, pFaults, ends>>
browserVars == <<handle, seen, promise, bState, ws, timer, paused, entries, patterns, socket,
                 subs, owner, visits, bFaults>>
nodeVars == <<nState, nClosed, nTimer, nPending, nActive, resubscribing, nCanceled, nSocket,
              misread, nSubs, issued, sockets, calls, nFaults>>
filterVars == <<highest, recent, shown>>
saverVars == <<sEvents, keys, thread, reader, begun>>

allVars == <<vars, projectionVars, browserVars, nodeVars, filterVars, saverVars>>

-----------------------------------------------------------------------------
TwoThenOne  == [j \in StreamingJobs |-> IF j = j1 THEN 2 ELSE 1]
OneThenNone == [j \in StreamingJobs |-> IF j = j1 THEN 1 ELSE 0]
AllInOne    == [c \in Callbacks |-> t1]

Projection == INSTANCE ProjectionRunner WITH
  Runners <- {r1, r2}, N <- LastEvent, Backlog <- LastEvent - 1, Matching <- {1},
  Part <- 1 :> global,
  Global <- global, BatchSize <- 1, Modes <- {"managed"}, Transports <- {"stream", "poll"},
  MaxFaults <- 1, MaxEnds <- 1, MaxMishaps <- 2,
  state <- pState, mode <- pMode, run <- pRun, faults <- pFaults

Handler == INSTANCE StepHandlers

Handlers == {Handler!Saga, Handler!FanOut(FALSE, 0, FALSE), Handler!FanOut(TRUE, 1, FALSE),
             Handler!FanOut(FALSE, 1, TRUE), Handler!Swallow(FALSE, FALSE, TRUE),
             Handler!Swallow(TRUE, FALSE, FALSE), Handler!Swallow(TRUE, TRUE, FALSE)}

Decimals == Handler!Decimals

Browser == INSTANCE BrowserSubscriptions WITH
  Handles <- {h1, h2}, Overlap <- FALSE, MaxEvents <- 1, MaxSockets <- 2,
  MaxFaults <- BrowserFaults, state <- bState, faults <- bFaults

Node == INSTANCE NodeSubscriptions WITH
  Patterns <- {h1, h2}, MaxEvents <- LastEvent - 1, MaxSockets <- 2, MaxCalls <- 3, MaxFaults <- 2,
  state <- nState, closed <- nClosed, timer <- nTimer, pending <- nPending, active <- nActive,
  canceled <- nCanceled, socket <- nSocket, subs <- nSubs, faults <- nFaults

Filter == INSTANCE RunFilter WITH
  Runs <- {r1, r2}, Steps <- {q1}, MaxVersion <- 2, MaxRuns <- 2

Saver == INSTANCE CheckpointSaver WITH
  Ids <- {1, 2}, Tasks <- {t1}, Values <- {l1, l2}, ReadBatch <- 2, MaxAppends <- 3,
  stream <- sEvents

ASSUME BoundsAssumption ==
  /\ Invocation!NoColons /\ Browser!BrowserAssumption /\ Node!NodeAssumption
  /\ Filter!FilterAssumption /\ Saver!SaverAssumption

-----------------------------------------------------------------------------
AllInit ==
  /\ Init
  /\ Projection!Init /\ Browser!Init /\ Node!Init /\ Filter!Init /\ Saver!Init
  /\ part # "projection" => transport = "poll"
  /\ part # "invocation" => prog = Handler!Saga /\ policy = ""

AllNext ==
  /\ Next
  /\ IF part = "projection" THEN Projection!Next ELSE UNCHANGED projectionVars
  /\ IF part = "browser" THEN Browser!Next ELSE UNCHANGED browserVars
  /\ IF part = "node" THEN Node!Next ELSE UNCHANGED nodeVars
  /\ IF part = "filter" THEN Filter!Next ELSE UNCHANGED filterVars
  /\ IF part = "saver" THEN Saver!Next ELSE UNCHANGED saverVars

AllSpec == AllInit /\ [][AllNext]_allVars

\* What the component that moves does by itself: its Fair(k), of its actor x.
Fair(k, x) ==
  /\ UNCHANGED part
  /\ CASE part = "pull" -> x = 1 /\ Pull!Fair(k)
       [] part = "streaming" -> x = 1 /\ Streaming!Fair(k)
       [] part = "signal" -> x = 1 /\ OnSignal!Fair(k)
       [] part = "projection" -> Projection!Fair(k, <<r1, r2>>[x])
       [] part = "group" -> Group!Fair(k, <<e1, e2>>[x])
       [] part = "dedup" -> Dedup!Fair(k, <<p1, p2>>[x])
       [] part = "browser" -> x = 1 /\ Browser!Fair(k)
       [] part = "node" -> x = 1 /\ Node!Fair(k)
       [] part = "rpc" -> x = 1 /\ Rpc!Fair(k)
       [] part = "watch" -> x = 1 /\ Watch!Fair(k)
       [] part = "agent" -> Agent!Fair(k, <<ed1, ed2>>[x])
       [] OTHER -> FALSE

moving ==
  CASE part = "pull" -> pullVars
    [] part = "streaming" -> streamingVars
    [] part = "signal" -> signalVars
    [] part = "projection" -> projectionVars
    [] part = "invocation" -> invocationVars
    [] part = "group" -> groupVars
    [] part = "dedup" -> dedupVars
    [] part = "browser" -> browserVars
    [] part = "node" -> nodeVars
    [] part = "rpc" -> rpcVars
    [] part = "watch" -> watchVars
    [] part = "agent" -> agentVars
    [] part = "filter" -> filterVars
    [] part = "saver" -> saverVars

\* The fairness of each component: none has more than 10 such actions, nor more
\* than 5 that are of an actor.
Fairness == /\ \A k \in 1 .. 10 : WF_moving(Fair(k, 1))
            /\ \A k \in 1 .. 5 : WF_moving(Fair(k, 2))

FairSpec == AllSpec /\ Fairness

-----------------------------------------------------------------------------
\* Every variable of the component that moves has its type.
TypeOK ==
  CASE part = "pull" -> Pull!TypeOK
    [] part = "streaming" -> Streaming!TypeOK
    [] part = "signal" -> OnSignal!TypeOK
    [] part = "projection" -> Projection!TypeOK
    [] part = "invocation" -> Invocation!TypeOK
    [] part = "group" -> Group!TypeOK
    [] part = "dedup" -> Dedup!TypeOK
    [] part = "browser" -> Browser!TypeOK
    [] part = "node" -> Node!TypeOK
    [] part = "rpc" -> Rpc!TypeOK
    [] part = "watch" -> Watch!TypeOK
    [] part = "agent" -> Agent!TypeOK
    [] part = "filter" -> Filter!TypeOK
    [] part = "saver" -> Saver!TypeOK

(* A client has what the server has.  When nothing is on its way, that is the  *)
(* subscriptions of a browser or Node.js client, at the same place, and no     *)
(* subscribe() of the latter waits for an answer (websocket.ts:205-427,        *)
(* subscribe.ts:249-290, 672-804): unless that client took a generic error for *)
(* the answer of another request.  Who watches runs is shown all that is news, *)
(* and nothing outdated, of those that the filter still remembers              *)
(* (run-events.ts:78-104); and who reads a thread of checkpoints sees it as it *)
(* was at one moment, though others append to it between two pages (saver.ts). *)
ClientsAgree ==
  /\ part = "browser" => Browser!ServerAgrees
  /\ part = "node" => Node!ServerAgrees /\ Node!NothingStranded
  /\ part = "filter" => Filter!DropsTheOutdated
  /\ part = "saver" => Saver!ReadsOneMoment

-----------------------------------------------------------------------------
(* A drain ends, of either worker, though handlers and requests hang; a signal *)
(* that only this library handles ends the process (worker.ts,                 *)
(* worker-streaming.ts, drain-on-signal.ts).                                   *)
DrainsEnd == Pull!DrainEnds /\ Streaming!DrainEnds /\ OnSignal!SignalExits

(* Nothing that has happened is left unheard: an event by the projection or    *)
(* the group, while someone runs on, or by a ConnectRPC subscription, nor the  *)
(* fate of a write by who watches it.                                          *)
EventsAreHeard ==
  /\ []<>(part = "projection" => Projection!Processed(1))
  /\ \A e \in {e1, e2} : []<>(part = "group" => ~Group!Unsettled(e))
  /\ Watch!WatchersTold /\ Rpc!EventsHeard

(* Calls return: an ack, unsubscribe(), the claim of a command, subscribe(),   *)
(* dispose() of an agent connection.                                           *)
CallsReturn ==
  /\ Group!HandlersEnd /\ Group!UnsubscribeEnds
  /\ \A c \in {p1, p2} : []<>(part = "dedup" => Dedup!Answered(c))
  /\ Browser!SubscribeSettles /\ Node!SubscribeSettles
  /\ Agent!DisposeReturns
=============================================================================
