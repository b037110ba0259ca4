--------------------------- MODULE NodeSubscriptions ---------------------------
(***************************************************************************)
(* The SubscriptionClient of @ironflow/node (subscribe.ts): subscriptions  *)
(* to patterns over one WebSocket, sent again on each new one.  A result   *)
(* of the server names the pattern only, so that the answer to a request   *)
(* that was sent again may come after its subscription was given up, and   *)
(* even asked for anew; a generic error names nothing at all.              *)
(*                                                                         *)
(* Every subscription has a resume cursor (startAfterSequence), so that    *)
(* none may miss an event, and autoReconnect is on.  The application calls *)
(* connect() only when no socket is left and no reconnect is due; so there *)
(* is one socket at a time.  "reconnecting" is told from "disconnected" by *)
(* the timer.                                                              *)
(*                                                                         *)
(* External: the sockets (no message is delivered once a side has begun to *)
(* close) and the server, which works off the requests of a socket in      *)
(* order and forgets its subscriptions when it closes.                     *)
(***************************************************************************)
EXTENDS Integers, Sequences, FiniteSets, SequencesExt

CONSTANTS
  Patterns,
  MaxEvents,   \* bound: events of each pattern
  MaxSockets,  \* bound: sockets opened
  MaxCalls,    \* bound: calls of subscribe()
  MaxFaults    \* bound: sockets that fail, requests that are not accepted

NodeAssumption == /\ IsFiniteSet(Patterns)
                  /\ {MaxEvents, MaxSockets, MaxCalls, MaxFaults} \subseteq Nat

VARIABLES
  state,          \* _connectionState
  closed, timer,  \* close() was called; reconnectTimer
  pending,        \* patterns whose subscribe() waits
  active,         \* the subscription of each pattern, or None
  resubscribing,  \* resubscribingPatterns
  canceled,       \* canceledResubscriptions
  socket,         \* the socket, and what is on its way on it
  misread,        \* history: a generic error was taken for another's
  subs,           \* server: its subscriptions, with their position in the events
  issued,         \* server: ids issued
  sockets, calls, faults  \* bounds

client  == <<state, closed, timer, pending, active, resubscribing, canceled>>
network == <<socket, misread, subs, issued>>
bounds  == <<sockets, calls, faults>>
vars    == <<client, network, bounds>>

None == [id |-> 0, cursor |-> 0, heard |-> 0]

NoSocket == [is |-> "none", up |-> <<>>, down |-> <<>>]

Active == {p \in Patterns : active[p].id # 0}

Fault == faults < MaxFaults /\ faults' = faults + 1

-----------------------------------------------------------------------------
(* Sending.  A socket that is not open takes nothing. *)

Sending(sock, msgs) == IF sock.is = "open" THEN [sock EXCEPT !.up = @ \o msgs] ELSE sock

Request(p, from) == [m |-> "subscribe", p |-> p, from |-> from, id |-> 0]

Unsub(id) == [m |-> "unsubscribe", p |-> "none", from |-> 0, id |-> id]

\* sendPendingSubscribe, with the options of the call.
PendingRequest(p) == IF p \in pending THEN <<Request(p, 0)>> ELSE <<>>

Requests(from) == [i \in DOMAIN SetToSeq(DOMAIN from) |->
                    LET p == SetToSeq(DOMAIN from)[i] IN Request(p, from[p])]

-----------------------------------------------------------------------------
(* The connection. *)

Connecting ==
  /\ sockets < MaxSockets /\ sockets' = sockets + 1
  /\ socket' = [NoSocket EXCEPT !.is = "connecting"] /\ state' = "connecting"

Connect ==
  /\ ~closed /\ ~timer /\ socket.is = "none" /\ Connecting
  /\ UNCHANGED <<closed, timer, pending, active, resubscribing, canceled, misread, subs, issued,
                 calls, faults>>

\* scheduleReconnect.
ReconnectFires ==
  /\ timer /\ timer' = FALSE /\ Connecting
  /\ UNCHANGED <<closed, pending, active, resubscribing, canceled, misread, subs, issued, calls,
                 faults>>

\* Mutant of Resumed: from the end.
ResumedLive(p) == MaxEvents

\* Where a subscription is resumed.
Resumed(p) == active[p].cursor

\* onopen: what is active is sent again, then what waits.
SocketOpens ==
  /\ socket.is = "connecting"
  /\ state' = "connected" /\ resubscribing' = resubscribing \cup Active
  /\ socket' = [socket EXCEPT
       !.is = "open",
       !.up = Requests([p \in Active |-> Resumed(p)])
                \o Requests([p \in pending \ resubscribing' |-> 0])]
  /\ UNCHANGED <<closed, timer, pending, active, canceled, misread, subs, issued, bounds>>

\* It fails before it opens, or connectionTimeout passes: then another is due.
ConnectFails ==
  /\ socket.is = "connecting" /\ Fault
  /\ socket' = NoSocket /\ state' = "disconnected" /\ timer' = TRUE
  /\ UNCHANGED <<closed, pending, active, resubscribing, canceled, misread, subs, issued,
                 sockets, calls>>

\* The server or the network begins to close it, with code 1000 or not.
SocketBreaks ==
  /\ socket.is = "open" /\ Fault
  /\ \E is \in {"parting", "broken"} : socket' = [NoSocket EXCEPT !.is = is]
  /\ subs' = {}
  /\ UNCHANGED <<client, misread, issued, sockets, calls>>

\* onclose.
CloseEvent ==
  /\ socket.is \in {"parting", "broken"}
  /\ socket' = NoSocket /\ state' = "disconnected"
  /\ resubscribing' = {} /\ canceled' = {}
  /\ timer' = (timer \/ (~closed /\ socket.is = "broken"))
  /\ UNCHANGED <<closed, pending, active, misread, subs, issued, bounds>>

\* close(): every call is rejected, every subscription gone.
Close ==
  /\ ~closed /\ closed' = TRUE /\ timer' = FALSE
  /\ socket' = IF socket.is \in {"connecting", "open"} THEN [NoSocket EXCEPT !.is = "parting"]
               ELSE socket
  /\ subs' = {}
  /\ state' = "disconnected" /\ pending' = {} /\ active' = [p \in Patterns |-> None]
  /\ resubscribing' = {} /\ canceled' = {}
  /\ UNCHANGED <<misread, issued, bounds>>

-----------------------------------------------------------------------------
(* Calls. *)

\* subscribe(): while the server still owes the answer to what was canceled, it waits.
Subscribe(p) ==
  /\ state = "connected" /\ p \notin pending \cup Active
  /\ calls < MaxCalls /\ calls' = calls + 1
  /\ pending' = pending \cup {p}
  /\ socket' = IF p \in canceled THEN socket ELSE Sending(socket, <<Request(p, 0)>>)
  /\ UNCHANGED <<state, closed, timer, active, resubscribing, canceled, misread, subs, issued,
                 sockets, faults>>

\* Mutant of Canceled: the answer that is still owed is not awaited.
CanceledNever(p) == canceled

Canceled(p) == IF p \in resubscribing THEN canceled \cup {p} ELSE canceled

\* unsubscribeByPattern: the id is that of an earlier socket, while it is sent again.
Unsubscribe(p) ==
  /\ p \in Active
  /\ canceled' = Canceled(p)
  /\ socket' = Sending(socket, <<Unsub(active[p].id)>>)
  /\ active' = [active EXCEPT ![p] = None]
  /\ UNCHANGED <<state, closed, timer, pending, resubscribing, misread, subs, issued, bounds>>

-----------------------------------------------------------------------------
(* Messages of the server. *)

Incoming(m) == socket.is = "open" /\ socket.down # <<>> /\ Head(socket.down).m = m

Received(msgs) == socket' = Sending([socket EXCEPT !.down = Tail(@)], msgs)

\* handleSubscribed.
ReceiveOk ==
  /\ Incoming("ok")
  /\ LET p  == Head(socket.down).p
         id == Head(socket.down).id
     IN \/ /\ p \in canceled  \* released, and the one that waited is sent
           /\ Received(<<Unsub(id)>> \o PendingRequest(p))
           /\ canceled' = canceled \ {p} /\ resubscribing' = resubscribing \ {p}
           /\ UNCHANGED <<pending, active>>
        \/ /\ p \notin canceled /\ p \in pending
           /\ pending' = pending \ {p} /\ active' = [active EXCEPT ![p] = [None EXCEPT !.id = id]]
           /\ Received(<<>>)
           /\ UNCHANGED <<resubscribing, canceled>>
        \/ /\ p \notin canceled \cup pending /\ p \in Active
           /\ active' = [active EXCEPT ![p].id = id] /\ resubscribing' = resubscribing \ {p}
           /\ Received(<<>>)
           /\ UNCHANGED <<pending, canceled>>
        \/ /\ p \notin canceled \cup pending \cup Active
           /\ Received(<<>>)
           /\ UNCHANGED <<pending, active, resubscribing, canceled>>
  /\ UNCHANGED <<state, closed, timer, misread, subs, issued, bounds>>

\* An id of a status this client does not know is given back.
GivenBack(id) == IF id # 0 THEN <<Unsub(id)>> ELSE <<>>

\* Mutant of NextTry: the call that waited is not sent.
NextTryNever(p) == <<>>

NextTry(p) == PendingRequest(p)

\* handleSubscribeFailed.
ReceiveFailed ==
  /\ Incoming("failed")
  /\ LET p    == Head(socket.down).p
         back == GivenBack(Head(socket.down).id)
     IN /\ canceled' = canceled \ {p} /\ resubscribing' = resubscribing \ {p}
        /\ \/ /\ p \in canceled
              /\ Received(back \o NextTry(p))
              /\ UNCHANGED <<pending, active>>
           \/ /\ p \notin canceled /\ p \in resubscribing  \* RESUBSCRIBE_FAILED
              /\ active' = [active EXCEPT ![p] = None]
              /\ Received(back)
              /\ UNCHANGED pending
           \/ /\ p \notin canceled \cup resubscribing
              /\ pending' = pending \ {p}
              /\ Received(back)
              /\ UNCHANGED active
  /\ UNCHANGED <<state, closed, timer, misread, subs, issued, bounds>>

\* The generic error rejects whatever waits.  `p' is not in it: it says of which
\* request the server meant it, if it was a subscribe.
ReceiveError ==
  /\ Incoming("error")
  /\ LET p     == Head(socket.down).p
         asked == pending \cap {p}
     IN misread' = (misread \/ pending # asked \/ (p # "none" /\ (asked = {} \/ p \in canceled)))
  /\ pending' = {}
  /\ Received(<<>>)
  /\ UNCHANGED <<state, closed, timer, active, resubscribing, canceled, subs, issued, bounds>>

ReceiveEvent ==
  /\ Incoming("event")
  /\ LET ev == Head(socket.down)
     IN active' = [p \in Patterns |->
          IF active[p].id = ev.id
          THEN [active[p] EXCEPT !.cursor = ev.k, !.heard = @ + 1] ELSE active[p]]
  /\ Received(<<>>)
  /\ UNCHANGED <<state, closed, timer, pending, resubscribing, canceled, misread, subs, issued,
                 bounds>>

-----------------------------------------------------------------------------
(* The server. *)

Reads(m) == socket.is = "open" /\ socket.up # <<>> /\ Head(socket.up).m = m

Answer(m, p, id) == [socket EXCEPT !.up = Tail(@),
                                   !.down = Append(@, [m |-> m, p |-> p, id |-> id, k |-> 0])]

Opened(r) == /\ issued' = issued + 1
             /\ subs' = subs \cup {[id |-> issued + 1, p |-> r.p, pos |-> r.from]}

\* It subscribes; or refuses; or subscribes with a status this client does not
\* know; or answers with the generic error.
ServerSubscribes ==
  /\ Reads("subscribe")
  /\ LET r == Head(socket.up)
     IN \/ Opened(r) /\ socket' = Answer("ok", r.p, issued + 1) /\ UNCHANGED faults
        \/ Fault /\ Opened(r) /\ socket' = Answer("failed", r.p, issued + 1)
        \/ /\ Fault /\ \E m \in {"failed", "error"} : socket' = Answer(m, r.p, 0)
           /\ UNCHANGED <<subs, issued>>
  /\ UNCHANGED <<client, misread, sockets, calls>>

\* An id it does not know may be answered with the generic error.
ServerUnsubscribes ==
  /\ Reads("unsubscribe")
  /\ LET id == Head(socket.up).id
     IN \/ /\ subs' = {s \in subs : s.id # id} /\ socket' = [socket EXCEPT !.up = Tail(@)]
           /\ UNCHANGED faults
        \/ /\ Fault /\ id \notin {s.id : s \in subs}
           /\ socket' = Answer("error", "none", 0)
           /\ UNCHANGED subs
  /\ UNCHANGED <<client, misread, issued, sockets, calls>>

ServerSends ==
  /\ socket.is = "open"
  /\ \E s \in subs :
       /\ s.pos < MaxEvents
       /\ subs' = (subs \ {s}) \cup {[s EXCEPT !.pos = @ + 1]}
       /\ socket' = [socket EXCEPT
            !.down = Append(@, [m |-> "event", p |-> s.p, id |-> s.id, k |-> s.pos + 1])]
  /\ UNCHANGED <<client, misread, issued, bounds>>

-----------------------------------------------------------------------------
Init ==
  /\ state = "disconnected" /\ closed = FALSE /\ timer = FALSE
  /\ pending = {} /\ active = [p \in Patterns |-> None]
  /\ resubscribing = {} /\ canceled = {}
  /\ socket = NoSocket /\ misread = FALSE /\ subs = {} /\ issued = 0
  /\ sockets = 0 /\ calls = 0 /\ faults = 0

Receive == ReceiveOk \/ ReceiveFailed \/ ReceiveError \/ ReceiveEvent

Serve == ServerSubscribes \/ ServerUnsubscribes

Next ==
  \/ Connect \/ ReconnectFires \/ SocketOpens \/ ConnectFails \/ SocketBreaks \/ CloseEvent
  \/ Close
  \/ \E p \in Patterns : Subscribe(p) \/ Unsubscribe(p)
  \/ Receive \/ Serve \/ ServerSends

Spec == Init /\ [][Next]_vars

\* Sockets open or fail, timers fire, messages arrive, and the server answers.
Fair(k) == CASE k = 1 -> ReconnectFires [] k = 2 -> SocketOpens [] k = 3 -> CloseEvent
             [] k = 4 -> Receive [] k = 5 -> Serve [] k = 6 -> ServerSends
             [] OTHER -> FALSE

Fairness == \A k \in 1 .. 6 : WF_vars(Fair(k))

FairSpec == Spec /\ Fairness

-----------------------------------------------------------------------------
TypeOK ==
  /\ state \in {"disconnected", "connecting", "connected"} /\ {closed, timer} \subseteq BOOLEAN
  /\ pending \subseteq Patterns \ Active
  /\ active \in [Patterns -> [id : 0 .. issued, cursor : 0 .. MaxEvents, heard : Nat]]
  /\ {resubscribing, canceled} \subseteq SUBSET Patterns
  /\ socket.is \in {"none", "connecting", "open", "parting", "broken"}
  /\ \A s \in subs : s.id \in 1 .. issued /\ s.p \in Patterns /\ s.pos \in 0 .. MaxEvents
  /\ sockets \in 0 .. MaxSockets /\ calls \in 0 .. MaxCalls /\ faults \in 0 .. MaxFaults

Quiet == socket.is = "open" /\ socket.up = <<>> /\ socket.down = <<>>

(* Once nothing is on its way, the server has the subscriptions of the client,  *)
(* and no other, each event of which was heard once, whatever was unsubscribed  *)
(* or asked for anew while a request of it was sent again                       *)
(* (subscribe.ts:249-290, 672-804): unless a generic error was taken for the    *)
(* answer of another request.                                                   *)
ServerAgrees ==
  Quiet /\ ~misread =>
    /\ {<<s.id, s.p, s.pos>> : s \in subs} =
         {<<active[p].id, p, active[p].heard>> : p \in Active}
    /\ resubscribing = {} /\ canceled = {}

(* Once nothing is on its way, no subscribe() waits: but for one that was not   *)
(* sent, as the answer to what had been canceled was a generic error, which     *)
(* does not tell (subscribe.ts:404-407, 627-668).                               *)
NothingStranded == Quiet => \A p \in pending : misread /\ p \in canceled

(* subscribe() returns or is rejected in the end (subscribe.ts:372-411), but    *)
(* for those; and while the server has closed the socket for good (1000), or    *)
(* the bound leaves none.                                                       *)
Parted == state = "disconnected" /\ ~timer

Spent == sockets = MaxSockets /\ socket.is = "none"

SubscribeSettles ==
  \A p \in Patterns : []<>(p \notin pending \/ Parted \/ Spent \/ (misread /\ p \in canceled))
=============================================================================
