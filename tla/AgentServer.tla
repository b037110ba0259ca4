---------------------------- MODULE AgentServer ----------------------------
(***************************************************************************)
(* The ACP server of @ironflow/agent (server.ts) and the permission gate   *)
(* of its sessions (permissions.ts).  Connections of one process load,     *)
(* prompt, cancel, close and leave a session; each has an `ironflow mcp'   *)
(* child, the bridge, which its calls of bridgeFor share one after the     *)
(* other.  All of it interleaves at every await.                           *)
(*                                                                         *)
(* One session id and one workspace.  External: the editor, which answers  *)
(* a permission request at any time or never, the turns of the model       *)
(* (Flue), whose tools ask the gate, and the child processes.              *)
(*                                                                         *)
(* Abstracted: credentials, probes over HTTP and their backoff are moments *)
(* that come or fail; what updates and transcripts say is left out, and so *)
(* is the order they are sent in.                                          *)
(***************************************************************************)
EXTENDS Integers, Sequences, FiniteSets

CONSTANTS
  Connections,  \* IronflowAcpAgent objects of the process
  Loads,        \* calls of loadSession (or newSession)
  Requests,     \* tool calls that ask the gate
  MaxTurns,     \* bound: prompts
  MaxStops,     \* bound: calls of closeSession and dispose
  MaxChildren   \* bound: children started

Nobody == "nobody"

AgentAssumption ==
  /\ {MaxTurns, MaxStops, MaxChildren} \subseteq Nat /\ IsFiniteSet(Connections)
  /\ Nobody \notin Connections /\ Connections \cap Loads = {}

VARIABLES
  session,   \* sessions: whose the id is, and the number of its context and gate
  gates,     \* contexts made
  load,      \* each call: where it is, of which connection, the child it got
  turn,      \* live: the turn of each connection
  turns,     \* turns begun
  request,   \* check(): where it is, and the context whose gate it asked
  always,    \* grants for the session: the requests they came from
  closing,   \* connections in closeSession
  disposed,  \* dispose(): no, cancelling, waiting, done
  chain,     \* bridges: calls that wait, whether a child is starting, the last child
  child,     \* the children: whose, and none, starting, alive, gone
  late,      \* history: requests that were open at a session/cancel
  stops      \* bound

held     == <<session, gates>>
gate     == <<request, always, late>>
children == <<chain, child>>
vars     == <<held, load, turn, turns, gate, closing, disposed, children, stops>>

NoTurn == [pc |-> "none", on |-> 0, cancelled |-> FALSE, aborted |-> FALSE, child |-> 0]

Live(a) == turn[a].pc # "none"

Owns(a) == session.by = a

NoLoad == [pc |-> "none", by |-> Nobody, child |-> 0]
Over   == [NoLoad EXCEPT !.pc = "over"]

NoRequest == [pc |-> "none", by |-> Nobody, on |-> 0]
Answered  == [NoRequest EXCEPT !.pc = "over"]

Gone == [is |-> "gone", by |-> Nobody]

Alive(k) == k # 0 /\ child[k].is = "alive"

StopChild(k) == IF k = 0 THEN child ELSE [child EXCEPT ![k] = Gone]

-----------------------------------------------------------------------------
(* setup(). *)

\* Mutant of AssertFree: asks for a turn of its own alone.
AssertFreeHere(a) == ~Live(a)

AssertFree(a) == (session.by # Nobody => Owns(a)) /\ ~Live(a)

Load(l, a) ==
  /\ load[l].pc = "none" /\ disposed[a] = "no"
  /\ load' = [load EXCEPT ![l] = [pc |-> "credential", by |-> a, child |-> 0]]
  /\ UNCHANGED <<held, turn, turns, gate, closing, disposed, children, stops>>

\* bridgeFor(): after the calls before it; dispose() has taken the chain away.
BridgeFor(a, who) ==
  IF disposed[a] \in {"waiting", "done"} THEN chain
  ELSE [chain EXCEPT ![a].todo = Append(@, who)]

\* The credential is there, or authRequired.  Probes may be backing off.
LoadConnects(l) ==
  LET a == load[l].by
  IN  /\ load[l].pc = "credential"
      /\ \/ load' = [load EXCEPT ![l] = Over] /\ UNCHANGED chain
         \/ /\ AssertFree(a)
            /\ \/ load' = [load EXCEPT ![l].pc = "probed"] /\ UNCHANGED chain
               \/ /\ load' = [load EXCEPT ![l].pc = IF disposed[a] \in {"waiting", "done"}
                                                    THEN "probed" ELSE "bridging"]
                  /\ chain' = BridgeFor(a, l)
      /\ UNCHANGED <<held, turn, turns, gate, closing, disposed, child, stops>>

\* probeBridge: a child that does not answer, or whose engine is down, is stopped.
LoadProbed(l) ==
  /\ load[l].pc = "probing"
  /\ load' = [load EXCEPT ![l].pc = "probed", ![l].child = 0]
  /\ child' \in {child, StopChild(load[l].child)}
  /\ UNCHANGED <<held, turn, turns, gate, closing, disposed, chain, stops>>

\* The id is still free: its state is swapped in one step.
LoadEnds(l) ==
  LET a == load[l].by
  IN  /\ load[l].pc = "probed"
      /\ IF AssertFree(a)
         THEN session' = [by |-> a, gate |-> gates + 1] /\ gates' = gates + 1
         ELSE UNCHANGED held
      /\ load' = [load EXCEPT ![l] = Over]
      /\ UNCHANGED <<turn, turns, gate, closing, disposed, children, stops>>

-----------------------------------------------------------------------------
(* prompt(). *)

\* The session is claimed before the first await.  An editor does not prompt what
\* it is closing.
Prompt(a) ==
  /\ Owns(a) /\ ~Live(a) /\ turns < MaxTurns
  /\ a \notin closing /\ disposed[a] = "no"
  /\ turns' = turns + 1
  /\ turn' = [turn EXCEPT ![a] = [NoTurn EXCEPT !.pc = "appending", !.on = session.gate]]
  /\ UNCHANGED <<held, load, gate, closing, disposed, children, stops>>

\* The message is in the transcript.  Without its tools the session connects again.
PromptConnects(a) ==
  /\ turn[a].pc = "appending"
  /\ \/ turn' = [turn EXCEPT ![a].pc = "connected"] /\ UNCHANGED chain
     \/ /\ turn' = [turn EXCEPT ![a].pc = IF disposed[a] \in {"waiting", "done"}
                                          THEN "connected" ELSE "bridging"]
        /\ chain' = BridgeFor(a, a)
  /\ UNCHANGED <<held, load, turns, gate, closing, disposed, child, stops>>

PromptProbed(a) ==
  /\ turn[a].pc = "probing"
  /\ turn' = [turn EXCEPT ![a].pc = "connected", ![a].child = 0]
  /\ child' \in {child, StopChild(turn[a].child)}
  /\ UNCHANGED <<held, load, turns, gate, closing, disposed, chain, stops>>

\* Returns "cancelled", or dispatches.
Dispatch(a) ==
  /\ turn[a].pc = "connected"
  /\ turn' = [turn EXCEPT ![a] = IF turn[a].cancelled THEN NoTurn
                                 ELSE [@ EXCEPT !.pc = "dispatching"]]
  /\ UNCHANGED <<held, load, turns, gate, closing, disposed, children, stops>>

\* cancel() had nothing to abort yet.
Dispatched(a) ==
  /\ turn[a].pc = "dispatching"
  /\ turn' = [turn EXCEPT ![a].pc = "running", ![a].aborted = turn[a].cancelled]
  /\ UNCHANGED <<held, load, turns, gate, closing, disposed, children, stops>>

Waiting(a) == {r \in Requests : request[r].by = a /\ request[r].pc \in {"checking", "open"}}

\* read() settles, by itself or aborted; the stop reason is returned.
TurnEnds(a) ==
  /\ turn[a].pc = "running" /\ (turn[a].aborted \/ Waiting(a) = {})
  /\ turn' = [turn EXCEPT ![a] = NoTurn]
  /\ UNCHANGED <<held, load, turns, gate, closing, disposed, children, stops>>

-----------------------------------------------------------------------------
(* The gate. *)

\* A tool that must ask; a shell command is looked at first.
Check(r, a) ==
  /\ request[r].pc = "none" /\ turn[a].pc = "running" /\ ~turn[a].aborted
  /\ \E pc \in {"checking", "open"} :
       request' = [request EXCEPT ![r] = [pc |-> pc, by |-> a, on |-> turn[a].on]]
  /\ UNCHANGED <<held, load, turn, turns, always, late, closing, disposed, children, stops>>

\* isReadOnly(): the command only reads, or the editor is asked.
Checked(r) ==
  /\ request[r].pc = "checking"
  /\ \E q \in {Answered, [request[r] EXCEPT !.pc = "open"]} :
       request' = [request EXCEPT ![r] = q]
  /\ UNCHANGED <<held, load, turn, turns, always, late, closing, disposed, children, stops>>

\* Mutant of Granted: whenever the answer comes.
GrantedLate(r) == always \cup {r}

\* An answer after session/cancel leaves no standing approval behind.
Granted(r) == IF request[r].pc = "denied" THEN always ELSE always \cup {r}

Answer(r, option) ==
  /\ request[r].pc \in {"open", "denied"}
  /\ request' = [request EXCEPT ![r] = Answered]
  /\ always' = IF option = "allow_always" THEN Granted(r) ELSE always
  /\ UNCHANGED <<held, load, turn, turns, late, closing, disposed, children, stops>>

-----------------------------------------------------------------------------
(* cancel(), closeSession(), dispose(). *)

Open == {r \in Requests : request[r].pc = "open"}

\* The turn is marked and aborted, then every open request of the gate is denied.
CancelTurn(a) ==
  /\ turn' = IF ~Live(a) THEN turn
             ELSE [turn EXCEPT ![a].cancelled = TRUE,
                               ![a].aborted = @ \/ turn[a].pc = "running"]
  /\ request' = [r \in Requests |->
                   IF Owns(a) /\ r \in Open /\ request[r].on = session.gate
                   THEN [request[r] EXCEPT !.pc = "denied"] ELSE request[r]]
  /\ late' = late \cup {r \in Open : Owns(a) /\ request[r].on = session.gate}
  /\ UNCHANGED always

Cancel(a) ==
  /\ Live(a) /\ ~turn[a].cancelled
  /\ CancelTurn(a)
  /\ UNCHANGED <<held, load, turns, closing, disposed, children, stops>>

\* Drops every entry of a session of its own.
Release(a) == session' = IF Owns(a) THEN [session EXCEPT !.by = Nobody] ELSE session

Close(a) ==
  /\ a \notin closing /\ Owns(a) /\ stops < MaxStops
  /\ stops' = stops + 1
  /\ CancelTurn(a)
  /\ closing' = closing \cup {a}
  /\ UNCHANGED <<held, load, turns, disposed, children>>

\* The abort has returned.
Closed(a) ==
  /\ a \in closing
  /\ Release(a)
  /\ closing' = closing \ {a}
  /\ UNCHANGED <<gates, load, turn, turns, gate, disposed, children, stops>>

Dispose(a) ==
  /\ disposed[a] = "no" /\ stops < MaxStops
  /\ stops' = stops + 1
  /\ disposed' = [disposed EXCEPT ![a] = IF Owns(a) THEN "cancelling" ELSE "waiting"]
  /\ IF Owns(a) THEN CancelTurn(a) ELSE UNCHANGED <<turn, gate>>
  /\ UNCHANGED <<held, load, turns, closing, children>>

DisposeReleases(a) ==
  /\ disposed[a] = "cancelling"
  /\ Release(a)
  /\ disposed' = [disposed EXCEPT ![a] = "waiting"]
  /\ UNCHANGED <<gates, load, turn, turns, gate, closing, children, stops>>

\* Every call of bridgeFor has its answer: the child is stopped.
DisposeEnds(a) ==
  /\ disposed[a] = "waiting" /\ chain[a].todo = <<>>
  /\ disposed' = [disposed EXCEPT ![a] = "done"]
  /\ child' = StopChild(chain[a].last)
  /\ UNCHANGED <<held, load, turn, turns, gate, closing, chain, stops>>

-----------------------------------------------------------------------------
(* The bridge. *)

Free == {k \in DOMAIN child : child[k].is = "none"}

\* The first call of the chain gets child k, or none, and probes it.
Serve(a, k) ==
  LET who == Head(chain[a].todo)
      pc  == IF k = 0 THEN "probed" ELSE "probing"
  IN  /\ chain' = [chain EXCEPT ![a] = [todo |-> Tail(@.todo), starting |-> 0, last |-> k]]
      /\ IF who = a
         THEN /\ turn' = [turn EXCEPT ![a].pc = IF k = 0 THEN "connected" ELSE "probing",
                                      ![a].child = k]
              /\ UNCHANGED load
         ELSE load' = [load EXCEPT ![who].pc = pc, ![who].child = k] /\ UNCHANGED turn

\* A child that lives is shared; none is started once the agent is stopping.
BridgeReuses(a) ==
  /\ chain[a].todo # <<>> /\ chain[a].starting = 0
  /\ Alive(chain[a].last) \/ disposed[a] # "no"
  /\ Serve(a, IF Alive(chain[a].last) THEN chain[a].last ELSE 0)
  /\ UNCHANGED <<held, turns, gate, closing, disposed, child, stops>>

BridgeStarts(a) ==
  /\ chain[a].todo # <<>> /\ chain[a].starting = 0
  /\ ~Alive(chain[a].last) /\ disposed[a] = "no"
  /\ \E k \in Free :
       /\ \A i \in Free : k <= i
       /\ chain' = [chain EXCEPT ![a].starting = k]
       /\ child' = [child EXCEPT ![k] = [is |-> "starting", by |-> a]]
  /\ UNCHANGED <<held, load, turn, turns, gate, closing, disposed, stops>>

\* It reported its port, or not; dispose() could not see it while it was starting.
BridgeStarted(a) ==
  /\ chain[a].starting # 0
  /\ \E k \in IF disposed[a] = "no" THEN {0, chain[a].starting} ELSE {0} :
       /\ Serve(a, k)
       /\ child' = [child EXCEPT ![chain[a].starting] = IF k = 0 THEN Gone
                                                         ELSE [is |-> "alive", by |-> a]]
  /\ UNCHANGED <<held, turns, gate, closing, disposed, stops>>

ChildExits(k) ==
  /\ Alive(k)
  /\ child' = StopChild(k)
  /\ UNCHANGED <<held, load, turn, turns, gate, closing, disposed, chain, stops>>

-----------------------------------------------------------------------------
Init ==
  /\ session = [by |-> Nobody, gate |-> 0] /\ gates = 0
  /\ load = [l \in Loads |-> NoLoad]
  /\ turn = [a \in Connections |-> NoTurn] /\ turns = 0
  /\ request = [r \in Requests |-> NoRequest]
  /\ always = {} /\ late = {} /\ closing = {} /\ stops = 0
  /\ disposed = [a \in Connections |-> "no"]
  /\ chain = [a \in Connections |-> [todo |-> <<>>, starting |-> 0, last |-> 0]]
  /\ child = [k \in 1 .. MaxChildren |-> [is |-> "none", by |-> Nobody]]

Bridge(a) == BridgeReuses(a) \/ BridgeStarts(a) \/ BridgeStarted(a)

Next ==
  \/ \E l \in Loads : (\E a \in Connections : Load(l, a))
                      \/ LoadConnects(l) \/ LoadProbed(l) \/ LoadEnds(l)
  \/ \E a \in Connections :
       \/ Prompt(a) \/ PromptConnects(a) \/ PromptProbed(a) \/ Dispatch(a) \/ Dispatched(a)
       \/ TurnEnds(a) \/ Cancel(a) \/ Close(a) \/ Closed(a)
       \/ Dispose(a) \/ DisposeReleases(a) \/ DisposeEnds(a) \/ Bridge(a)
  \/ \E r \in Requests : (\E a \in Connections : Check(r, a)) \/ Checked(r)
                         \/ \E o \in {"allow_always", "other"} : Answer(r, o)
  \/ \E k \in DOMAIN child : ChildExits(k)

Spec == Init /\ [][Next]_vars

\* An abort returns, and a child starts or does not.
Fair(k, a) ==
  CASE k = 1 -> Bridge(a)
    [] k = 2 -> DisposeReleases(a)
    [] k = 3 -> DisposeEnds(a)
    [] OTHER -> FALSE

Fairness == \A k \in 1 .. 3, a \in Connections : WF_vars(Fair(k, a))

FairSpec == Spec /\ Fairness

-----------------------------------------------------------------------------
TypeOK ==
  /\ session.by \in Connections \cup {Nobody} /\ session.gate \in 0 .. gates
  /\ \A l \in Loads : load[l].pc \in {"none", "credential", "bridging", "probing", "probed",
                                      "over"}
  /\ \A a \in Connections :
       /\ turn[a].pc \in {"none", "appending", "bridging", "probing", "connected",
                          "dispatching", "running"}
       /\ disposed[a] \in {"no", "cancelling", "waiting", "done"}
       /\ chain[a].last \in 0 .. MaxChildren
  /\ \A r \in Requests : request[r].pc \in {"none", "checking", "open", "denied", "over"}
  /\ always \subseteq Requests
  /\ child \in [1 .. MaxChildren -> [is : {"none", "starting", "alive", "gone"},
                                    by : Connections \cup {Nobody}]]

(* A session that is open has one owner: a turn that is not cancelled runs in   *)
(* the context, and asks the gate, that its connection loaded, whatever was     *)
(* loaded, closed or disposed of while it connected (setup, assertFree).        *)
TurnKeepsItsSession ==
  \A a \in Connections :
    Live(a) /\ ~turn[a].cancelled => session = [by |-> a, gate |-> turn[a].on]

(* A late answer after session/cancel must not leave a standing approval        *)
(* behind (permissions.ts:123).                                                 *)
NoLateGrant == always \cap late = {}

Children(a) == {k \in DOMAIN child : child[k].by = a}

(* A connection has one child at a time, and none once dispose() is over,       *)
(* though one was starting, being probed or asked for meanwhile (bridgeFor).    *)
OneChild ==
  \A a \in Connections :
    /\ Cardinality(Children(a)) <= 1
    /\ disposed[a] = "done" => Children(a) = {}

AgentSessionsHold == TurnKeepsItsSession /\ NoLateGrant /\ OneChild

(* dispose() ends, whatever it interrupts.                                      *)
DisposeReturns == \A a \in Connections : []<>(disposed[a] \in {"no", "done"})
=============================================================================
