------------------------ MODULE BrowserSubscriptions ------------------------
(***************************************************************************)
(* Subscriptions of @ironflow/browser: the SubscriptionManager             *)
(* (subscription.ts), whose subscribe() returns once the server has        *)
(* accepted, on top of the WebSocketTransport (transport/websocket.ts),    *)
(* which opens sockets, sends every subscription again on each new one,    *)
(* and matches the server's results to the requests of a pattern by their  *)
(* order: a result names the pattern only.                                 *)
(*                                                                         *)
(* All handles subscribe to one pattern, so that their results could be    *)
(* mixed up, with a resume cursor (startAfterSequence), so that none may   *)
(* miss an event; autoReconnect is on.                                     *)
(*                                                                         *)
(* External: the browser's sockets (no message is delivered once the       *)
(* client has called close(), the close event comes later, an error event  *)
(* precedes the close of a socket that never opened) and the server, which *)
(* works off the requests of a socket in order, and forgets its            *)
(* subscriptions when it closes.                                           *)
(*                                                                         *)
(* Overlap says whether a socket may be opened while another one of this   *)
(* client is alive: whether the application resumes before the close event *)
(* of the socket it paused, or subscribes during the backoff (see          *)
(* OneSocket).                                                             *)
(***************************************************************************)
EXTENDS Integers, Sequences, FiniteSets, SequencesExt

CONSTANTS
  Handles,     \* calls of subscribe()
  Overlap,     \* see above
  MaxEvents,   \* bound: events of the pattern
  MaxSockets,  \* bound: sockets opened
  MaxFaults    \* bound: sockets that fail, rejected requests, timeouts

BrowserAssumption ==
  /\ IsFiniteSet(Handles) /\ Overlap \in BOOLEAN
  /\ {MaxEvents, MaxSockets, MaxFaults} \subseteq Nat

VARIABLES
  handle,    \* each call: where it is, and the id it has in manager.subscriptions
  seen,      \* the last event each handle got
  promise,   \* connectPromise: none, of a connect it began, of another's
  state,     \* _connectionState
  ws,        \* the socket in hand, or 0
  timer,     \* reconnectTimer
  paused,
  entries,   \* pendingSubscriptions of the pattern
  patterns,  \* subscriptionPatterns: ids that are known
  socket,    \* the sockets: their state, who began them, what is on its way
  subs,      \* server: its subscriptions, with their position in the events
  owner,     \* history: of which handle the request was, for each id
  visits,    \* bound: pause() and disconnect() were called
  faults     \* bound

manager   == <<handle, promise>>
transport == <<state, ws, timer, paused, entries, patterns>>
network   == <<socket, subs, owner>>
vars      == <<manager, seen, transport, network, visits, faults>>

Sockets == 1 .. Len(socket)

Alive(n) == socket[n].is # "closed"

Fault == faults < MaxFaults /\ faults' = faults + 1

Wanting == {h \in Handles : handle[h].pc = "wanting"}

\* subscribe() has neither returned nor been rejected.
Pending(h) == handle[h].pc \in {"wanting", "sent"}

Settle(H, pc) == [h \in Handles |-> IF h \in H THEN [pc |-> pc, id |-> 0] ELSE handle[h]]

-----------------------------------------------------------------------------
(* Sending.  A socket that is not open takes nothing. *)

CanSend(sock) == ws # 0 /\ sock[ws].is = "open"

SendOn(sock, msgs) ==
  IF CanSend(sock) THEN [sock EXCEPT ![ws].up = @ \o msgs] ELSE sock

\* createWSSubscribeRequest; h is not in it, the options of its call are.
Request(e) == [m |-> "subscribe", h |-> e.h, from |-> e.cursor, id |-> 0]

Unsub(id) == [m |-> "unsubscribe", h |-> "none", from |-> 0, id |-> id]

Entry(h) == [h |-> h, id |-> 0, awaiting |-> FALSE, canceled |-> FALSE, cursor |-> 0]

\* transport.subscribe of these handles, one after the other.
NewEntries(H, sent) == [i \in DOMAIN SetToSeq(H) |->
                          [Entry(SetToSeq(H)[i]) EXCEPT !.awaiting = sent]]

Requests(es) == [i \in DOMAIN es |-> Request(es[i])]

-----------------------------------------------------------------------------
(* Connecting. *)

NoOverlap == \A n \in Sockets : ~Alive(n)

\* connect(): by a call of the application, of the manager, or by the timer.
Connect(by) ==
  /\ Len(socket) < MaxSockets /\ (Overlap \/ NoOverlap)
  /\ socket' = Append(socket, [is |-> "connecting", by |-> by, up |-> <<>>, down |-> <<>>])
  /\ ws' = Len(socket) + 1
  /\ state' = "connecting"

\* subscribeSingle and ensureConnected.  A paused transport connects later.
Subscribe(h) ==
  /\ handle[h].pc = "idle"
  /\ \/ /\ state = "connected"
        /\ handle' = [handle EXCEPT ![h].pc = "sent"]
        /\ LET new == [Entry(h) EXCEPT !.awaiting = CanSend(socket)]
           IN entries' = Append(entries, new) /\ socket' = SendOn(socket, <<Request(new)>>)
        /\ UNCHANGED <<promise, state, ws>>
     \/ /\ state = "disconnected" /\ promise = "none" /\ paused
        /\ handle' = [handle EXCEPT ![h].pc = "sent"]
        /\ entries' = Append(entries, Entry(h))
        /\ UNCHANGED <<promise, state, ws, socket>>
     \/ /\ state = "disconnected" /\ promise = "none" /\ ~paused
        /\ Overlap \/ ~timer
        /\ handle' = [handle EXCEPT ![h].pc = "wanting"]
        /\ promise' = "own" /\ Connect("manager")
        /\ UNCHANGED entries
     \/ /\ state # "connected" /\ (promise # "none" \/ state # "disconnected")
        /\ handle' = [handle EXCEPT ![h].pc = "wanting"]
        /\ promise' = IF promise = "none" THEN "other" ELSE promise
        /\ UNCHANGED <<state, ws, socket, entries>>
  /\ UNCHANGED <<seen, timer, paused, patterns, subs, owner, visits, faults>>

\* autoConnectTimeoutMs.
PromiseTimesOut ==
  /\ promise # "none" /\ Fault
  /\ promise' = "none" /\ handle' = Settle(Wanting, "rejected")
  /\ UNCHANGED <<seen, transport, network, visits>>

\* Mutant of Resent: what was accepted once is sent from the end.
ResentLive(es) == [i \in DOMAIN es |->
  [es[i] EXCEPT !.awaiting = TRUE, !.cursor = IF es[i].id # 0 THEN MaxEvents ELSE @]]

\* onopen: every entry is sent, from its cursor on; then those who waited subscribe.
Resent(es) == [i \in DOMAIN es |-> [es[i] EXCEPT !.awaiting = TRUE]]

SocketOpens(n) ==
  /\ socket[n].is = "connecting"
  /\ LET opened == [socket EXCEPT ![n].is = "open"]
         can    == CanSend(opened)
         again  == IF can THEN Resent(entries) ELSE entries
         new    == NewEntries(Wanting, can)
     IN /\ entries' = again \o new
        /\ socket' = IF can THEN SendOn(opened, Requests(again \o new)) ELSE opened
  /\ state' = "connected"
  /\ promise' = "none"
  /\ handle' = [h \in Handles |-> IF h \in Wanting THEN [handle[h] EXCEPT !.pc = "sent"]
                                  ELSE handle[h]]
  /\ UNCHANGED <<seen, ws, timer, paused, patterns, subs, owner, visits, faults>>

\* scheduleReconnect.
ScheduleReconnect == IF timer \/ paused THEN state' = "disconnected" /\ UNCHANGED timer
                     ELSE state' = "reconnecting" /\ timer' = TRUE

DiscardCanceled == entries' = SelectSeq(entries, LAMBDA e : ~e.canceled)

Closed(n) == [socket EXCEPT ![n] = [is |-> "closed", by |-> @.by, up |-> <<>>, down |-> <<>>]]

Drop(n) == subs' = {s \in subs : s.on # n}

\* A connect of the manager that fails rejects those who wait for it.
ConnectFailed(n) ==
  IF socket[n].by = "manager" /\ promise = "own"
  THEN promise' = "none" /\ handle' = Settle(Wanting, "rejected")
  ELSE UNCHANGED <<promise, handle>>

\* onclose of a socket that broke.  One that never opened fires error first: a
\* connect of the timer schedules the next then, and onclose finds it scheduled.
SocketBreaks(n) ==
  /\ socket[n].is \in {"connecting", "open"} /\ Fault
  /\ socket' = Closed(n) /\ Drop(n)
  /\ IF socket[n].is = "connecting" THEN ConnectFailed(n) ELSE UNCHANGED <<promise, handle>>
  /\ patterns' = {} /\ DiscardCanceled
  /\ IF socket[n].is = "connecting" /\ socket[n].by = "timer" /\ state = "connecting"
     THEN state' = "disconnected" /\ timer' = (timer \/ ~paused)
     ELSE ScheduleReconnect
  /\ UNCHANGED <<seen, ws, paused, owner, visits>>

\* onclose of a socket the client closed: 1000, or 1006 when it had not opened yet.
CloseEvent(n) ==
  /\ socket[n].is \in {"closing", "aborting"}
  /\ socket' = Closed(n) /\ Drop(n)
  /\ patterns' = {} /\ DiscardCanceled
  /\ IF socket[n].is = "aborting" THEN ScheduleReconnect
     ELSE state' = "disconnected" /\ UNCHANGED timer
  /\ IF socket[n].is = "aborting" /\ paused THEN ConnectFailed(n) ELSE UNCHANGED manager
  /\ UNCHANGED <<seen, ws, paused, owner, visits, faults>>

\* connectionTimeout: the handlers are taken off the socket in hand.
ConnectTimesOut ==
  /\ state = "connecting" /\ ws # 0 /\ socket[ws].is = "connecting" /\ Fault
  /\ socket' = Closed(ws) /\ Drop(ws) /\ ws' = 0
  /\ ConnectFailed(ws)
  /\ patterns' = {} /\ DiscardCanceled /\ ScheduleReconnect
  /\ UNCHANGED <<seen, paused, owner, visits>>

ReconnectFires ==
  /\ timer /\ timer' = FALSE
  /\ IF state = "connected" \/ paused THEN UNCHANGED <<state, ws, socket>> ELSE Connect("timer")
  /\ UNCHANGED <<manager, seen, paused, entries, patterns, subs, owner, visits, faults>>

\* The client closes its socket: what is on its way to it is not delivered.
CloseOwn ==
  socket' = IF ws # 0 /\ socket[ws].is \in {"connecting", "open"}
            THEN [socket EXCEPT ![ws].is = IF @ = "open" THEN "closing" ELSE "aborting",
                                ![ws].down = <<>>]
            ELSE socket

Pause ==
  /\ "pause" \notin visits /\ visits' = visits \cup {"pause"}
  /\ paused' = TRUE /\ timer' = FALSE /\ CloseOwn /\ ws' = 0
  /\ state' = "disconnected"
  /\ UNCHANGED <<manager, seen, entries, patterns, subs, owner, faults>>

Resume ==
  /\ paused /\ Connect("call")
  /\ paused' = FALSE
  /\ UNCHANGED <<manager, seen, timer, entries, patterns, subs, owner, visits, faults>>

\* Mutant of Cleared: the calls that wait are forgotten.
ClearedSilently == Settle({h \in Handles : handle[h].pc = "active"}, "gone")

Cleared == [h \in Handles |-> CASE Pending(h)              -> [pc |-> "rejected", id |-> 0]
                                [] handle[h].pc = "active" -> [pc |-> "gone", id |-> 0]
                                [] OTHER                   -> handle[h]]

\* disconnect() of the manager: every handle is gone, every call rejected.
Disconnect ==
  /\ "disconnect" \notin visits /\ visits' = visits \cup {"disconnect"}
  /\ CloseOwn /\ ws' = 0 /\ timer' = FALSE /\ paused' = FALSE
  /\ state' = "disconnected" /\ entries' = <<>> /\ patterns' = {}
  /\ handle' = Cleared
  /\ promise' = "none"
  /\ UNCHANGED <<seen, subs, owner, faults>>

-----------------------------------------------------------------------------
(* Unsubscribing, and the server's answers. *)

\* Mutant of Withdrawn: the entry goes at once.
WithdrawnNow(id) == SelectSeq(entries, LAMBDA e : e.id # id)

\* transport.unsubscribe: an entry that waits for a result is only marked, as
\* the result has to find it.
Withdrawn(id) ==
  LET waits(e) == e.id = id /\ e.awaiting
      kept == SelectSeq(entries, LAMBDA e : e.id # id \/ e.awaiting)
  IN [i \in DOMAIN kept |-> IF waits(kept[i]) THEN [kept[i] EXCEPT !.canceled = TRUE]
                            ELSE kept[i]]

Unsubscribe(h) ==
  /\ handle[h].pc = "active"
  /\ LET id == handle[h].id
     IN /\ entries' = Withdrawn(id)
        /\ patterns' = patterns \ {id}
        /\ socket' = IF state = "connected" THEN SendOn(socket, <<Unsub(id)>>) ELSE socket
  /\ handle' = Settle({h}, "gone")
  /\ UNCHANGED <<seen, promise, state, ws, timer, paused, subs, owner, visits, faults>>

Received(n, msgs) == LET taken == [socket EXCEPT ![n].down = Tail(@)]
                     IN IF state = "connected" THEN SendOn(taken, msgs) ELSE taken

Incoming(n, m) == socket[n].is = "open" /\ socket[n].down # <<>> /\ Head(socket[n].down).m = m

\* Mutant of Waiting: the last one.
WaitingLast == SelectLastInSeq(entries, LAMBDA e : e.awaiting)

\* The first entry that waits for a result, or 0.
Waiting == SelectInSeq(entries, LAMBDA e : e.awaiting)

\* A result for nobody: the server's subscription is released.
Uncorrelated(n, id) ==
  /\ handle' = Settle({h \in Handles : Pending(h)}, "rejected")
  /\ socket' = Received(n, <<Unsub(id)>>)
  /\ UNCHANGED <<entries, patterns>>

\* It was unsubscribed meanwhile.
Released(n, i, id) ==
  /\ entries' = RemoveAt(entries, i)
  /\ socket' = Received(n, <<Unsub(id)>>)
  /\ UNCHANGED <<handle, patterns>>

\* The handle gets its id, or its next one.
Accepted(n, i, id) ==
  LET e == entries[i]
  IN /\ entries' = [entries EXCEPT ![i].awaiting = FALSE, ![i].id = id]
     /\ patterns' = (patterns \ {e.id}) \cup {id}
     /\ handle' = IF handle[e.h].id = e.id /\ handle[e.h].pc \in {"sent", "active"}
                  THEN [handle EXCEPT ![e.h] = [pc |-> "active", id |-> id]] ELSE handle
     /\ socket' = Received(n, <<>>)

ReceiveOk(n) ==
  /\ Incoming(n, "ok")
  /\ LET id == Head(socket[n].down).id
     IN \/ Waiting = 0 /\ Uncorrelated(n, id)
        \/ Waiting # 0 /\ entries[Waiting].canceled /\ Released(n, Waiting, id)
        \/ Waiting # 0 /\ ~entries[Waiting].canceled /\ Accepted(n, Waiting, id)
  /\ UNCHANGED <<promise, seen, state, ws, timer, paused, subs, owner, visits, faults>>

\* The entry is gone, and with it the call, or the handle on an earlier socket.
ReceiveError(n) ==
  /\ Incoming(n, "error") /\ Waiting # 0
  /\ LET e == entries[Waiting]
     IN /\ entries' = RemoveAt(entries, Waiting)
        /\ patterns' = patterns \ {e.id}
        /\ IF e.canceled
           THEN handle' = handle /\ socket' = Received(n, <<>>)
           ELSE /\ handle' = Settle({e.h}, IF e.id = 0 THEN "rejected" ELSE "gone")
                /\ socket' = Received(n, IF e.id = 0 THEN <<>> ELSE <<Unsub(e.id)>>)
  /\ UNCHANGED <<promise, seen, state, ws, timer, paused, subs, owner, visits, faults>>

\* The cursor of the entry moves, and the handle gets the event, if they know the id.
ReceiveEvent(n) ==
  /\ Incoming(n, "event")
  /\ LET ev == Head(socket[n].down)
     IN /\ entries' = [i \in DOMAIN entries |->
                         IF ev.id \in patterns /\ entries[i].id = ev.id
                         THEN [entries[i] EXCEPT !.cursor = ev.n] ELSE entries[i]]
        /\ seen' = [h \in Handles |-> IF handle[h].pc = "active" /\ handle[h].id = ev.id
                                      THEN ev.n ELSE seen[h]]
  /\ socket' = Received(n, <<>>)
  /\ UNCHANGED <<manager, state, ws, timer, paused, patterns, subs, owner, visits, faults>>

-----------------------------------------------------------------------------
(* The server. *)

ToClient(n, m, id, k) == Append(socket[n].down, [m |-> m, id |-> id, n |-> k])

Reads(n, m) == socket[n].is = "open" /\ socket[n].up # <<>> /\ Head(socket[n].up).m = m

ServerSubscribes(n) ==
  /\ Reads(n, "subscribe")
  /\ LET r  == Head(socket[n].up)
         id == Len(owner) + 1
     IN \/ /\ owner' = Append(owner, r.h)
           /\ subs' = subs \cup {[id |-> id, on |-> n, pos |-> r.from]}
           /\ socket' = [socket EXCEPT ![n].up = Tail(@), ![n].down = ToClient(n, "ok", id, 0)]
           /\ UNCHANGED faults
        \/ /\ Fault
           /\ socket' = [socket EXCEPT ![n].up = Tail(@), ![n].down = ToClient(n, "error", 0, 0)]
           /\ UNCHANGED <<subs, owner>>
  /\ UNCHANGED <<manager, seen, transport, visits>>

ServerUnsubscribes(n) ==
  /\ Reads(n, "unsubscribe")
  /\ subs' = {s \in subs : s.id # Head(socket[n].up).id}
  /\ socket' = [socket EXCEPT ![n].up = Tail(@)]
  /\ UNCHANGED <<manager, seen, transport, owner, visits, faults>>

ServerSends(s) ==
  /\ s \in subs /\ s.pos < MaxEvents /\ socket[s.on].is = "open"
  /\ subs' = (subs \ {s}) \cup {[s EXCEPT !.pos = @ + 1]}
  /\ socket' = [socket EXCEPT ![s.on].down = ToClient(s.on, "event", s.id, s.pos + 1)]
  /\ UNCHANGED <<manager, seen, transport, owner, visits, faults>>

-----------------------------------------------------------------------------
Init ==
  /\ handle = [h \in Handles |-> [pc |-> "idle", id |-> 0]]
  /\ seen = [h \in Handles |-> 0] /\ promise = "none"
  /\ state = "disconnected" /\ ws = 0 /\ timer = FALSE /\ paused = FALSE
  /\ entries = <<>> /\ patterns = {}
  /\ socket = <<>> /\ subs = {} /\ owner = <<>>
  /\ visits = {} /\ faults = 0

Receive(n) == ReceiveOk(n) \/ ReceiveError(n) \/ ReceiveEvent(n)

Serve(n) == ServerSubscribes(n) \/ ServerUnsubscribes(n)

Next ==
  \/ \E h \in Handles : Subscribe(h) \/ Unsubscribe(h)
  \/ PromiseTimesOut \/ ConnectTimesOut \/ ReconnectFires
  \/ Pause \/ Resume \/ Disconnect
  \/ \E n \in Sockets :
       SocketOpens(n) \/ SocketBreaks(n) \/ CloseEvent(n) \/ Receive(n) \/ Serve(n)
  \/ \E s \in subs : ServerSends(s)

Spec == Init /\ [][Next]_vars

\* Sockets open or fail, timers fire, messages arrive, the server answers, and the
\* application resumes what it paused.
Fair(k) ==
  CASE k = 1 -> ReconnectFires  [] k = 2 -> Resume
    [] k = 3 -> \E n \in Sockets : SocketOpens(n)
    [] k = 4 -> \E n \in Sockets : CloseEvent(n)
    [] k = 5 -> \E n \in Sockets : Receive(n)
    [] k = 6 -> \E n \in Sockets : Serve(n)
    [] k = 7 -> \E s \in subs : ServerSends(s)
    [] OTHER -> FALSE

Fairness == \A k \in 1 .. 7 : WF_vars(Fair(k))

FairSpec == Spec /\ Fairness

-----------------------------------------------------------------------------
TypeOK ==
  /\ \A h \in Handles :
       /\ handle[h].pc \in {"idle", "wanting", "sent", "active", "gone", "rejected"}
       /\ handle[h].id \in 0 .. Len(owner)
  /\ seen \in [Handles -> 0 .. MaxEvents]
  /\ promise \in {"none", "own", "other"}
  /\ state \in {"disconnected", "connecting", "connected", "reconnecting"}
  /\ ws \in {0} \cup Sockets /\ {timer, paused} \subseteq BOOLEAN
  /\ \A i \in DOMAIN entries : entries[i].h \in Handles /\ entries[i].id \in 0 .. Len(owner)
  /\ patterns \subseteq 1 .. Len(owner)
  /\ Len(socket) <= MaxSockets
  /\ \A s \in subs : s.id \in 1 .. Len(owner) /\ s.on \in Sockets
  /\ faults \in 0 .. MaxFaults

Quiet == /\ state = "connected" /\ ~timer
         /\ \A n \in Sockets : socket[n].up = <<>> /\ socket[n].down = <<>>

(* Once nothing is on its way, client and server agree: each active handle has  *)
(* one subscription at the server, made by its own request, and has got every   *)
(* event the server counts as sent, so that none is missed across reconnects;   *)
(* the server has no other (websocket.ts:205-259, 331-427).  So it is whatever  *)
(* was unsubscribed while a result was awaited, rejected, or sent again.        *)
ServerAgrees ==
  Quiet =>
    /\ {s.id : s \in subs} = {handle[h].id : h \in {h \in Handles : handle[h].pc = "active"}}
    /\ \A h \in Handles : handle[h].pc = "active" => owner[handle[h].id] = h
    /\ \A h \in Handles : ~Pending(h)
    /\ \A s \in subs : seen[owner[s.id]] = s.pos

(* subscribe() returns or is rejected in the end (subscription.ts:236-239), be  *)
(* it that the bound leaves no socket to connect with.                          *)
Spent == Len(socket) = MaxSockets /\ NoOverlap

SubscribeSettles == \A h \in Handles : []<>(~Pending(h) \/ Spent)

(* A fresh connect is only begun when the transport is idle                     *)
(* (subscription.ts:389-391).  It holds only without Overlap.                   *)
OneSocket == Cardinality({n \in Sockets : socket[n].is \in {"connecting", "open"}}) <= 1
=============================================================================
