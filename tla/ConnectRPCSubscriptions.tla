----------------------- MODULE ConnectRPCSubscriptions -----------------------
(***************************************************************************)
(* The ConnectRPCTransport of @ironflow/browser (transport/connectrpc.ts): *)
(* one server stream per subscription.  A stream that falls behind is      *)
(* started again by itself, after a delay; a stream that fails tears all   *)
(* of them down, and a timer starts them all again; so do pause() and      *)
(* resume().  Each of them may find that another was faster.               *)
(*                                                                         *)
(* Every subscription has a resume cursor (startAfterSequence), so that    *)
(* none may miss an event; connect() has nothing to wait for, and so is    *)
(* done at once.  An aborted stream yields nothing more: pause() and       *)
(* resume() are calls of different turns of the event loop.                *)
(*                                                                         *)
(* External: the streams of the server, each of which sends the events     *)
(* after the cursor it was opened with, in order, and may fail, fall       *)
(* behind, be refused, or end.                                             *)
(***************************************************************************)
EXTENDS Integers, FiniteSets

CONSTANTS
  Subs,        \* calls of subscribe()
  MaxEvents,   \* bound: events of each subscription
  MaxPauses,   \* bound: calls of pause()
  MaxFaults    \* bound: streams that do not go on

ConnectRPCAssumption == /\ IsFiniteSet(Subs)
                        /\ {MaxEvents, MaxPauses, MaxFaults} \subseteq Nat

VARIABLES
  state,       \* _connectionState; "reconnecting" is "disconnected" with a timer
  paused, timer,
  sub,         \* each subscription: idle, in activeSubscriptions, gone, or gone by an error
  controller,  \* its abortController, numbered
  cursor,      \* its startAfterSequence
  heard,       \* history: events its handler was called with
  streams,     \* the streams: of whom, under which controller, how far
  behind,      \* timers of streams that fell behind: of whom, under which controller
  ended,       \* history: subscriptions whose stream ended without an error
  pauses, faults  \* bounds

vars == <<state, paused, timer, sub, controller, cursor, heard, streams, behind, ended, pauses,
          faults>>

Active == {s \in Subs : sub[s] = "active"}

Fault == faults < MaxFaults /\ faults' = faults + 1

\* startSubscriptionStream, of these subscriptions; n tells a stream from the one there is.
Started(S) == {[s |-> s, by |-> controller[s], pos |-> cursor[s],
                n |-> Cardinality({x \in streams : x.s = s})] : s \in S}

-----------------------------------------------------------------------------
(* The connection. *)

\* connect(), unless connected or paused: every subscription gets a stream.
Connected ==
  /\ state' = "connected"
  /\ IF state = "connected" THEN UNCHANGED <<streams, ended>>
     ELSE streams' = streams \cup Started(Active) /\ ended' = {}

Connect ==
  /\ state # "connected" /\ ~paused /\ Connected
  /\ UNCHANGED <<paused, timer, sub, controller, cursor, heard, behind, pauses, faults>>

ReconnectFires ==
  /\ timer /\ timer' = FALSE
  /\ IF paused THEN UNCHANGED <<state, streams, ended>> ELSE Connected
  /\ UNCHANGED <<paused, sub, controller, cursor, heard, behind, pauses, faults>>

\* What is left when the controllers of these subscriptions abort.
Unaborted(S) == {x \in streams : x.s \notin S \/ x.by # controller[x.s]}

\* Every stream is aborted, and every subscription gets its next controller.
AbortAll ==
  /\ streams' = Unaborted(Active)
  /\ controller' = [s \in Subs |-> controller[s] + (IF s \in Active THEN 1 ELSE 0)]

Pause ==
  /\ pauses < MaxPauses /\ pauses' = pauses + 1
  /\ paused' = TRUE /\ timer' = FALSE /\ state' = "disconnected" /\ AbortAll
  /\ UNCHANGED <<sub, cursor, heard, behind, ended, faults>>

Resume ==
  /\ paused /\ paused' = FALSE /\ Connected
  /\ UNCHANGED <<timer, sub, controller, cursor, heard, behind, pauses, faults>>

Disconnect ==
  /\ timer' = FALSE /\ paused' = FALSE /\ state' = "disconnected"
  /\ streams' = Unaborted(Active)
  /\ sub' = [s \in Subs |-> IF s \in Active THEN "gone" ELSE sub[s]]
  /\ UNCHANGED <<controller, cursor, heard, behind, ended, pauses, faults>>

-----------------------------------------------------------------------------
(* Subscriptions. *)

Subscribe(s) ==
  /\ sub[s] = "idle" /\ sub' = [sub EXCEPT ![s] = "active"]
  /\ streams' = IF state = "connected" THEN streams \cup Started({s}) ELSE streams
  /\ UNCHANGED <<state, paused, timer, controller, cursor, heard, behind, ended, pauses, faults>>

Unsubscribe(s) ==
  /\ s \in Active /\ sub' = [sub EXCEPT ![s] = "gone"]
  /\ streams' = Unaborted({s})
  /\ UNCHANGED <<state, paused, timer, controller, cursor, heard, behind, ended, pauses, faults>>

-----------------------------------------------------------------------------
(* Streams. *)

StreamSends(x) ==
  /\ x \in streams /\ x.pos < MaxEvents
  /\ IF x.s \in Active
     THEN /\ streams' = (streams \ {x}) \cup {[x EXCEPT !.pos = @ + 1]}
          /\ cursor' = [cursor EXCEPT ![x.s] = x.pos + 1]
          /\ heard' = [heard EXCEPT ![x.s] = @ + 1]
     ELSE streams' = streams \ {x} /\ UNCHANGED <<cursor, heard>>
  /\ UNCHANGED <<state, paused, timer, sub, controller, behind, ended, pauses, faults>>

\* handleDisconnect and scheduleReconnect, of a transient network error.
StreamFails(x) ==
  /\ x \in streams /\ x.s \in Active /\ Fault
  /\ IF state = "connected"
     THEN /\ state' = "disconnected" /\ timer' = (timer \/ ~paused)
          /\ AbortAll
     ELSE streams' = streams \ {x} /\ UNCHANGED <<state, timer, controller>>
  /\ UNCHANGED <<paused, sub, cursor, heard, behind, ended, pauses>>

StreamFallsBehind(x) ==
  /\ x \in streams /\ x.s \in Active /\ Fault
  /\ streams' = streams \ {x}
  /\ behind' = behind \cup {[s |-> x.s, by |-> controller[x.s]]}
  /\ UNCHANGED <<state, paused, timer, sub, controller, cursor, heard, ended, pauses>>

\* Mutant of OwnsRestart: whoever replaced the controller is not asked.
OwnsRestartAnyway(b) == b.s \in Active /\ state = "connected"

\* A reconnect or pause in between replaced the controller and owns the restart.
OwnsRestart(b) == b.s \in Active /\ b.by = controller[b.s] /\ state = "connected"

BehindFires(b) ==
  /\ b \in behind /\ behind' = behind \ {b}
  /\ streams' = IF OwnsRestart(b) THEN streams \cup Started({b.s}) ELSE streams
  /\ UNCHANGED <<state, paused, timer, sub, controller, cursor, heard, ended, pauses, faults>>

\* Any other error: the subscription is gone, and onError told.
StreamRefused(x) ==
  /\ x \in streams /\ x.s \in Active /\ Fault
  /\ streams' = streams \ {x} /\ sub' = [sub EXCEPT ![x.s] = "failed"]
  /\ UNCHANGED <<state, paused, timer, controller, cursor, heard, behind, ended, pauses>>

\* The loop over the stream is over: nothing else happens.
StreamEnds(x) ==
  /\ x \in streams /\ Fault
  /\ streams' = streams \ {x} /\ ended' = ended \cup {x.s}
  /\ UNCHANGED <<state, paused, timer, sub, controller, cursor, heard, behind, pauses>>

-----------------------------------------------------------------------------
Init ==
  /\ state = "disconnected" /\ paused = FALSE /\ timer = FALSE
  /\ sub = [s \in Subs |-> "idle"] /\ controller = [s \in Subs |-> 0]
  /\ cursor = [s \in Subs |-> 0] /\ heard = [s \in Subs |-> 0]
  /\ streams = {} /\ behind = {} /\ ended = {}
  /\ pauses = 0 /\ faults = 0

Next ==
  \/ Connect \/ ReconnectFires \/ Pause \/ Resume \/ Disconnect
  \/ \E s \in Subs : Subscribe(s) \/ Unsubscribe(s)
  \/ \E x \in streams : \/ StreamSends(x) \/ StreamFails(x) \/ StreamFallsBehind(x)
                        \/ StreamRefused(x) \/ StreamEnds(x)
  \/ \E b \in behind : BehindFires(b)

Spec == Init /\ [][Next]_vars

\* Timers fire, streams send, and the application resumes what it paused.
Fair(k) == CASE k = 1 -> ReconnectFires [] k = 2 -> Resume
             [] k = 3 -> \E b \in behind : BehindFires(b)
             [] k = 4 -> \E x \in streams : StreamSends(x)
             [] OTHER -> FALSE

Fairness == \A k \in 1 .. 4 : WF_vars(Fair(k))

FairSpec == Spec /\ Fairness

-----------------------------------------------------------------------------
TypeOK ==
  /\ state \in {"disconnected", "connected"} /\ {paused, timer} \subseteq BOOLEAN
  /\ sub \in [Subs -> {"idle", "active", "gone", "failed"}]
  /\ controller \in [Subs -> Nat] /\ cursor \in [Subs -> 0 .. MaxEvents]
  /\ \A x \in streams : x.s \in Subs /\ x.by \in Nat /\ x.pos \in 0 .. MaxEvents
  /\ \A b \in behind : b.s \in Subs /\ b.by \in Nat
  /\ ended \subseteq Subs /\ pauses \in 0 .. MaxPauses /\ faults \in 0 .. MaxFaults

(* A subscription has one stream at a time, which no abort would miss, and none *)
(* when it is not wanted; while connected it has one, or is about to, but for   *)
(* what the server ended; and each event is heard once, in order, whichever     *)
(* restarts its stream (connectrpc.ts:242-247, 312-325, 402-422, 508-560).      *)
OneStreamEach ==
  /\ \A x \in streams : /\ x.s \in Active /\ x.by = controller[x.s] /\ state = "connected"
                        /\ \A y \in streams : y.s = x.s => y = x
                        /\ x.pos = cursor[x.s]
  /\ state = "connected" =>
       \A s \in Active \ ended : \/ \E x \in streams : x.s = s
                                 \/ [s |-> s, by |-> controller[s]] \in behind
  /\ heard = cursor

(* An event of a subscription is heard in the end, or the subscription is gone, *)
(* with an error or without; unless a stream of it has ended, which the         *)
(* transport takes no notice of, or nobody connected (connectrpc.ts:337-476).   *)
Idle == state = "disconnected" /\ ~timer

EventsHeard == \A s \in Subs :
  []<>(s \in Active \ ended /\ ~Idle => heard[s] = MaxEvents)
=============================================================================
