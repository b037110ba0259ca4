--------------------------- MODULE ConsumerGroup ---------------------------
(***************************************************************************)
(* A consumer-group subscription of @ironflow/node over one bidirectional  *)
(* stream (consumer-group-stream.ts, consumer-group-stream-conn.ts):       *)
(* events and results of acks come in on it, acks go out, and it is opened *)
(* again whenever it ends.                                                 *)
(*                                                                         *)
(* Three coroutines: run() reads the stream in hand and reconnects; pump() *)
(* hands the events of a MANUAL group to the handler one at a time, so     *)
(* that a handler may await its ack while the reader goes on; in an AUTO   *)
(* group the reader itself awaits the handler.  unsubscribe() may come at  *)
(* any moment.                                                             *)
(*                                                                         *)
(* External: the server sends an event of the group until it is settled,   *)
(* again when an ack was waited for too long or refused, counts the copies it  *)
(* has out on the stream, answers OK to whatever it is asked to settle,    *)
(* and takes all copies back when the stream ends.                         *)
(*                                                                         *)
(* Abstracted: ack and term settle, nak gives back; backoff, grace, ack    *)
(* and idle timeouts are moments that come.  The hourly pruning of the     *)
(* counts of events no handler ever settles is left out.                   *)
(***************************************************************************)
EXTENDS Integers, Sequences, FiniteSets

CONSTANTS
  Events,      \* of the group
  Modes,       \* ack modes it may have: "manual", "auto"
  MaxStreams,  \* bound: streams opened
  MaxCopies,   \* bound: copies of an event out on one stream
  MaxFaults    \* bound: broken streams, refused joins and acks, timeouts, naks

GroupAssumption ==
  /\ IsFiniteSet(Events) /\ Modes \subseteq {"manual", "auto"}
  /\ {MaxStreams, MaxCopies} \subseteq Nat \ {0} /\ MaxFaults \in Nat

VARIABLES
  mode,       \* GroupConn.manual
  phase,      \* where start() and run() are
  stopped,    \* unsubscribe() ran
  released,   \* the caller has the handle
  stream,     \* streams opened; the last is `opening` or `cur`
  torn,       \* those torn down
  closing,    \* the stream in hand is half-closed
  queue,      \* events that wait for the pump, each with its stream
  handler,    \* deliver() and the application's onEvent
  delivered,  \* copies of each event the stream in hand has to settle
  pending,    \* acks that wait for their result
  acks,       \* ids given out on the stream in hand
  outbox,     \* acks on their way to the server
  inbox,      \* frames on their way to the client
  held,       \* server: copies out on the stream
  settled,    \* server: events that are done
  told,       \* history: events whose ack resolved
  refused,    \* history: events a handler gave back
  faults      \* bound: faults so far

control == <<phase, stopped, released, stream, torn, closing>>
acking  == <<delivered, pending, acks>>
wire    == <<outbox, inbox>>
server  == <<held, settled>>
history == <<told, refused>>
vars    == <<mode, control, queue, handler, acking, wire, server, history, faults>>

None == [e |-> "none", on |-> 0]

Idle == [pc |-> "idle", of |-> None, ack |-> 0]

Reading == phase = "reading"

Fault == faults < MaxFaults /\ faults' = faults + 1

NoCopies == [e \in Events |-> 0]

-----------------------------------------------------------------------------
(* Opening a stream. *)

Open(next) == /\ stream < MaxStreams
              /\ stream' = stream + 1
              /\ phase' = next

\* A new GroupConn.
Fresh == /\ closing' = FALSE
         /\ delivered' = NoCopies /\ pending' = {} /\ acks' = 0
         /\ outbox' = <<>> /\ inbox' = <<>> /\ held' = NoCopies

\* The server's first frame is joined: refused if unsubscribe() came meanwhile.
Joined ==
  /\ phase \in {"joining", "rejoining"}
  /\ IF stopped
     THEN phase' = "exiting" /\ torn' = torn \cup {stream}
     ELSE phase' = "reading" /\ UNCHANGED torn
  /\ Fresh
  /\ UNCHANGED <<mode, stopped, released, stream, queue, handler, settled, history, faults>>

\* Mutant of JoinFails: leaves a stream that did not join as it is.
JoinFailsLeaves ==
  /\ phase \in {"joining", "rejoining"}
  /\ \/ /\ ~stopped /\ Fault
        /\ phase' \in IF phase = "joining" THEN {"failed"} ELSE {"backoff", "exiting"}
     \/ stopped /\ phase' = "exiting" /\ UNCHANGED faults
  /\ UNCHANGED <<mode, stopped, released, stream, torn, closing, queue, handler, acking, wire,
                 server, history>>

\* An error, or unsubscribe() tore the stream down.  start() gives up, run() goes
\* on unless the error is terminal.
JoinFails ==
  /\ phase \in {"joining", "rejoining"}
  /\ torn' = torn \cup {stream}
  /\ \/ /\ ~stopped /\ Fault
        /\ phase' \in IF phase = "joining" THEN {"failed"} ELSE {"backoff", "exiting"}
     \/ stopped /\ phase' = "exiting" /\ UNCHANGED faults
  /\ UNCHANGED <<mode, stopped, released, stream, closing, queue, handler, acking, wire,
                 server, history>>

\* The sleep is over.
Reopen == /\ phase = "backoff" /\ ~stopped
          /\ Open("rejoining")
          /\ UNCHANGED <<mode, stopped, released, torn, closing, queue, handler, acking,
                         wire, server, history, faults>>

\* releaseEvents(), once joinConsumerGroupStream has returned.
Release == /\ phase \notin {"joining", "failed"} /\ ~released
           /\ released' = TRUE
           /\ UNCHANGED <<mode, phase, stopped, stream, torn, closing, queue, handler,
                          acking, wire, server, history, faults>>

\* A join in flight is torn down, the stream in hand half-closed, the sleep cut short.
Unsubscribe ==
  /\ ~stopped /\ phase \notin {"joining", "failed"}
  /\ stopped' = TRUE /\ released' = TRUE
  /\ torn' = IF phase = "rejoining" THEN torn \cup {stream} ELSE torn
  /\ phase' = IF phase = "backoff" THEN "exiting" ELSE phase
  /\ closing' = TRUE
  /\ UNCHANGED <<mode, stream, queue, handler, acking, wire, server, history, faults>>

\* The grace after unsubscribe() is over.
GraceEnds == /\ stopped /\ phase \in {"reading", "delivering"} /\ stream \notin torn
             /\ torn' = torn \cup {stream}
             /\ UNCHANGED <<mode, phase, stopped, released, stream, closing, queue, handler,
                            acking, wire, server, history, faults>>

-----------------------------------------------------------------------------
(* The reader. *)

\* A promise is settled: the handler that awaits it goes on, and ends.
Wake(ids) == IF handler.pc = "acking" /\ handler.ack \in ids THEN Idle ELSE handler

\* The queue without the events of the stream in hand.
OfOthers ==
  LET kept  == {i \in DOMAIN queue : queue[i].on # stream}
      At(k) == CHOOSE i \in kept : Cardinality(kept \cap (1 .. i)) = k
  IN  [k \in 1 .. Cardinality(kept) |-> queue[At(k)]]

\* Mutant of EndOfStream: the acks wait for results that cannot come.
EndOfStreamPending ==
  /\ UNCHANGED <<handler, pending>>
  /\ queue' = OfOthers
  /\ torn' = torn \cup {stream} /\ closing' = TRUE
  /\ outbox' = <<>> /\ inbox' = <<>> /\ held' = NoCopies

\* The finally of read(): acks are rejected, what is queued comes again on the
\* next stream.  The server takes back its copies.
EndOfStream ==
  /\ handler' = Wake({p.id : p \in pending})
  /\ pending' = {}
  /\ queue' = OfOthers
  /\ torn' = torn \cup {stream} /\ closing' = TRUE
  /\ outbox' = <<>> /\ inbox' = <<>> /\ held' = NoCopies

\* The server ends the stream, which breaks or is idle too long; an error that
\* cannot be retried ends the subscription.
StreamEnds ==
  /\ Reading
  /\ \/ ~stopped /\ Fault /\ phase' \in {"backoff", "exiting"}
     \/ stopped /\ stream \in torn /\ phase' = "exiting" /\ UNCHANGED faults
     \/ stopped /\ outbox = <<>> /\ inbox = <<>> /\ phase' = "exiting" /\ UNCHANGED faults
  /\ EndOfStream
  /\ UNCHANGED <<mode, stopped, released, stream, delivered, acks, settled, history>>

\* Mutant of MarkDelivered: a set, not a count.
MarkDeliveredOnce(e) == [delivered EXCEPT ![e] = 1]

\* markDelivered: one more copy to settle.
MarkDelivered(e) == [delivered EXCEPT ![e] = @ + 1]

\* In a MANUAL group the reader queues the event, in an AUTO group it delivers it.
ReceiveEvent ==
  /\ Reading /\ inbox # <<>> /\ Head(inbox).m = "event"
  /\ inbox' = Tail(inbox)
  /\ LET q == [e |-> Head(inbox).e, on |-> stream]
     IN IF mode = "manual"
        THEN /\ delivered' = MarkDelivered(q.e)
             /\ queue' = Append(queue, q)
             /\ UNCHANGED <<phase, handler>>
        ELSE /\ phase' = "delivering"
             /\ handler' = [Idle EXCEPT !.pc = "gate", !.of = q]
             /\ UNCHANGED <<delivered, queue>>
  /\ UNCHANGED <<mode, stopped, released, stream, torn, closing, pending, acks, outbox,
                 server, history, faults>>

\* resolveAck: a late result is for nobody; OK settles one copy.
ReceiveResult ==
  /\ Reading /\ inbox # <<>> /\ Head(inbox).m = "result"
  /\ inbox' = Tail(inbox)
  /\ LET r  == Head(inbox)
         of == {p \in pending : p.id = r.id}
     IN /\ pending' = pending \ of
        /\ handler' = Wake({p.id : p \in of})
        /\ IF of # {} /\ r.ok
           THEN /\ delivered' = [delivered EXCEPT ![r.e] = IF @ > 1 THEN @ - 1 ELSE 0]
                /\ told' = told \cup {p.e : p \in {p \in of : p.kind = "ack"}}
           ELSE UNCHANGED <<delivered, told>>
  /\ UNCHANGED <<mode, control, queue, acks, outbox, server, refused, faults>>

\* deliver() of an AUTO group has returned.
Delivered ==
  /\ phase = "delivering" /\ handler.pc = "idle"
  /\ IF stopped
     THEN phase' = "exiting" /\ EndOfStream
     ELSE phase' = "reading" /\ UNCHANGED <<handler, pending, queue, torn, closing, wire, held>>
  /\ UNCHANGED <<mode, stopped, released, stream, delivered, acks, settled, history, faults>>

\* The finally of run() ends when the pump has.
Exit == /\ phase = "exiting" /\ handler.pc = "idle" /\ queue = <<>>
        /\ phase' = "done" /\ released' = TRUE
        /\ UNCHANGED <<mode, stopped, stream, torn, closing, queue, handler, acking, wire,
                       server, history, faults>>

-----------------------------------------------------------------------------
(* The pump and the handler. *)

Pump ==
  /\ mode = "manual" /\ handler.pc = "idle" /\ queue # <<>>
  /\ queue' = Tail(queue)
  /\ LET q == Head(queue)
         skipped == stopped \/ q.on # stream \/ phase # "reading"
     IN handler' = IF skipped THEN handler ELSE [Idle EXCEPT !.pc = "gate", !.of = q]
  /\ UNCHANGED <<mode, control, acking, wire, server, history, faults>>

\* Mutant of CallHandler: does not ask again whether unsubscribe() ran.
CallHandlerAnyway ==
  /\ handler.pc = "gate" /\ (released \/ phase = "exiting")
  /\ handler' = [handler EXCEPT !.pc = "running"]
  /\ UNCHANGED <<mode, control, queue, acking, wire, server, history, faults>>

\* deliver() once the caller has the handle; run() releases it when it exits.
CallHandler ==
  /\ handler.pc = "gate" /\ (released \/ phase = "exiting")
  /\ handler' = IF stopped THEN Idle ELSE [handler EXCEPT !.pc = "running"]
  /\ UNCHANGED <<mode, control, queue, acking, wire, server, history, faults>>

\* Mutant of Settles: takes an event of an earlier stream for one of this.
SettlesAny(e) == ~stopped /\ Reading /\ mode = "manual"

\* Whether settle() of both classes sends an ack: the stream lives and has a copy
\* of the event to settle.
Settles(e) == ~stopped /\ Reading /\ mode = "manual" /\ delivered[e] > 0

\* The handler acks or gives back its event, and may await the result; or an
\* error is thrown in place of a result.
Settle(kind) ==
  /\ handler.pc = "running"
  /\ LET e == handler.of.e
         p == [id |-> acks + 1, e |-> e, kind |-> kind]
     IN IF Settles(e)
        THEN /\ acks' = acks + 1
             /\ pending' = pending \cup {p}
             /\ outbox' = Append(outbox, p)
             /\ refused' = IF kind = "nak" THEN refused \cup {e} ELSE refused
             /\ \/ handler' = [handler EXCEPT !.pc = "acking", !.ack = p.id]
                \/ handler' = Idle
        ELSE handler' = Idle /\ UNCHANGED <<acks, pending, outbox, refused>>
  /\ IF kind = "nak" THEN Fault ELSE UNCHANGED faults
  /\ UNCHANGED <<mode, control, queue, delivered, inbox, server, told>>

AckTimesOut ==
  \E p \in pending :
    /\ Fault
    /\ pending' = pending \ {p}
    /\ handler' = Wake({p.id})
    /\ UNCHANGED <<mode, control, queue, delivered, acks, wire, server, history>>

-----------------------------------------------------------------------------
(* The server. *)

Listening == phase \in {"reading", "delivering"} /\ stream \notin torn

\* Nothing of the event is on its way, queued or at the handler.
Forgotten(e) ==
  /\ \A i \in DOMAIN inbox : inbox[i].e # e
  /\ \A i \in DOMAIN outbox : outbox[i].e # e
  /\ \A i \in DOMAIN queue : queue[i].e # e
  /\ handler.of.e # e

\* The first copy of an event on this stream.
ServerDelivers(e) ==
  /\ Listening /\ ~closing /\ ~settled[e] /\ held[e] = 0
  /\ inbox' = Append(inbox, [m |-> "event", e |-> e, id |-> 0, ok |-> TRUE])
  /\ IF mode = "auto"
     THEN settled' = [settled EXCEPT ![e] = TRUE] /\ UNCHANGED held
     ELSE held' = [held EXCEPT ![e] = 1] /\ UNCHANGED settled
  /\ UNCHANGED <<mode, control, queue, handler, acking, outbox, history, faults>>

\* The wait for an ack runs out: early, so that the new copy crosses the ack of
\* the first, or when nobody works on the event any more.
ServerRedelivers(e) ==
  /\ Listening /\ ~closing /\ ~settled[e] /\ held[e] > 0
  /\ \/ held[e] < MaxCopies /\ Fault /\ held' = [held EXCEPT ![e] = @ + 1]
     \/ Forgotten(e) /\ UNCHANGED <<held, faults>>
  /\ inbox' = Append(inbox, [m |-> "event", e |-> e, id |-> 0, ok |-> TRUE])
  /\ UNCHANGED <<mode, control, queue, handler, acking, outbox, settled, history>>

\* An ack takes one copy; without one the answer is OK all the same.
ServerAnswers ==
  /\ Listening /\ outbox # <<>>
  /\ outbox' = Tail(outbox)
  /\ LET p == Head(outbox)
         answer(ok) == inbox' = Append(inbox, [m |-> "result", e |-> p.e, id |-> p.id, ok |-> ok])
     IN \/ /\ answer(TRUE)
           /\ held' = [held EXCEPT ![p.e] = IF @ > 0 THEN @ - 1 ELSE 0]
           /\ settled' = [settled EXCEPT ![p.e] = @ \/ (p.kind = "ack" /\ held[p.e] > 0)]
           /\ UNCHANGED faults
        \/ answer(FALSE) /\ Fault /\ UNCHANGED server
  /\ UNCHANGED <<mode, control, queue, handler, acking, history>>

-----------------------------------------------------------------------------
Init ==
  /\ mode \in Modes /\ phase = "joining" /\ stopped = FALSE /\ released = FALSE
  /\ stream = 1 /\ torn = {} /\ closing = FALSE
  /\ queue = <<>> /\ handler = Idle
  /\ delivered = NoCopies /\ pending = {} /\ acks = 0
  /\ outbox = <<>> /\ inbox = <<>>
  /\ held = NoCopies /\ settled = [e \in Events |-> FALSE]
  /\ told = {} /\ refused = {} /\ faults = 0

Read == StreamEnds \/ ReceiveEvent \/ ReceiveResult \/ Delivered

Next ==
  \/ Joined \/ JoinFails \/ Reopen \/ Release \/ Unsubscribe \/ GraceEnds
  \/ Read \/ Exit
  \/ Pump \/ CallHandler \/ Settle("ack") \/ Settle("nak") \/ AckTimesOut
  \/ \E e \in Events : ServerDelivers(e) \/ ServerRedelivers(e)
  \/ ServerAnswers

Spec == Init /\ [][Next]_vars

(* Every coroutine runs on, what was sent arrives, the server answers and      *)
(* delivers what is not settled, and a handler ends by acking its event.       *)
(* Nothing is assumed of what can go wrong, nor that an ack times out.         *)
Fair(k, e) ==
  CASE k = 1 -> ServerDelivers(e) \/ ServerRedelivers(e)
    [] k = 2 -> Joined \/ Reopen  [] k = 3 -> Release
    [] k = 4 -> GraceEnds         [] k = 5 -> Read
    [] k = 6 -> Exit              [] k = 7 -> Pump
    [] k = 8 -> CallHandler       [] k = 9 -> Settle("ack")
    [] k = 10 -> ServerAnswers    [] OTHER -> FALSE

Fairness == \A k \in 1 .. 10, e \in Events : WF_vars(Fair(k, e))

FairSpec == Spec /\ Fairness

-----------------------------------------------------------------------------
TypeOK ==
  /\ mode \in {"manual", "auto"}
  /\ phase \in {"joining", "reading", "delivering", "backoff", "rejoining", "exiting",
                "done", "failed"}
  /\ {stopped, released, closing} \subseteq BOOLEAN
  /\ stream \in 1 .. MaxStreams /\ torn \subseteq 1 .. MaxStreams
  /\ \A i \in DOMAIN queue : queue[i] \in [e : Events, on : 1 .. MaxStreams]
  /\ handler.pc \in {"idle", "gate", "running", "acking"}
  /\ delivered \in [Events -> Nat] /\ held \in [Events -> 0 .. MaxCopies]
  /\ \A p \in pending : p.e \in Events /\ p.id \in 1 .. acks
  /\ settled \in [Events -> BOOLEAN] /\ told \cup refused \subseteq Events
  /\ faults \in 0 .. MaxFaults

(* An ack that resolved was applied: the server, which answers OK to anything, *)
(* was only asked about copies it had out on the stream the ack went on        *)
(* (consumer-group-stream-conn.ts:42-46).  Only an event a handler also gave    *)
(* back is excepted: a nak sent for the copy of an ended stream takes the copy *)
(* of this one, and the ack of that finds none.                                *)
OkMeansSettled == \A e \in told \ refused : settled[e]

(* No copy that the server waits for and that has arrived is refused as stale: *)
(* a redelivery that crosses the result of the first copy keeps its own entry. *)
Underway(e) == Cardinality({i \in DOMAIN inbox : inbox[i].m = "event" /\ inbox[i].e = e})

HeldCanBeSettled ==
  (Listening /\ mode = "manual") => \A e \in Events : held[e] > Underway(e) => delivered[e] > 0

AcksAreHonest == OkMeansSettled /\ HeldCanBeSettled

(* Once the subscription has ended, by unsubscribe() at any moment or by an    *)
(* error, every stream it ever opened is reset: no member stays in the group   *)
(* to be sent events nobody reads.                                             *)
NoMemberOutlives == phase \in {"done", "failed"} => torn = 1 .. stream

(* After unsubscribe() no handler is called any more.                          *)
QuietStep == stopped /\ handler'.pc = "running" => handler.pc = "running"

GroupLeaves == [][QuietStep /\ NoMemberOutlives']_vars

(* Every event is settled in the end, whatever streams break and acks are      *)
(* lost, unless the subscription ends; and a handler that awaits its ack gets  *)
(* an answer, without the help of the timeout.                                 *)
Over == stopped \/ phase \in {"exiting", "done", "failed"} \/ (phase = "backoff" /\ stream = MaxStreams)

Unsettled(e) == ~settled[e] /\ ~Over

EventsSettled == \A e \in Events : []<>~Unsettled(e)

HandlersEnd == []<>(handler.pc # "acking")

UnsubscribeEnds == []<>(stopped => phase = "done")
=============================================================================
