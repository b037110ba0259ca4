------------------------- MODULE ConsumerGroupProofs -------------------------
(***************************************************************************)
(* What TLAPS proves of ConsumerGroup for any events, streams, copies and  *)
(* faults: an ack that resolved was applied, no copy the server waits for  *)
(* is refused, unsubscribe() silences the handlers, and no member outlives *)
(* the subscription.                                                       *)
(***************************************************************************)
EXTENDS ConsumerGroup, FiniteSetTheorems, SequenceTheorems, TLAPS

Ack    == [id : Nat, e : Events, kind : {"ack", "nak"}]
Frame  == [m : {"event", "result"}, e : Events, id : Nat, ok : BOOLEAN]
Queued == [e : Events, on : 1 .. MaxStreams]

Phases   == {"joining", "reading", "delivering", "backoff", "rejoining", "exiting",
             "done", "failed"}
Handlers == [pc : {"idle", "gate", "running", "acking"}, of : Queued \cup {None}, ack : Nat]

\* TypeOK, with the types of what is on its way and in hand, in three parts.
ControlType ==
  /\ mode \in {"manual", "auto"} /\ phase \in Phases
  /\ stopped \in BOOLEAN /\ released \in BOOLEAN /\ closing \in BOOLEAN
  /\ stream \in 1 .. MaxStreams /\ torn \in SUBSET (1 .. MaxStreams)
  /\ faults \in 0 .. MaxFaults

WorkType ==
  /\ queue \in Seq(Queued) /\ handler \in Handlers
  /\ handler.pc # "idle" => handler.of \in Queued

AckType ==
  /\ acks \in Nat /\ pending \in SUBSET Ack /\ \A p \in pending : p.id \in 1 .. acks
  /\ outbox \in Seq(Ack) /\ inbox \in Seq(Frame)
  /\ delivered \in [Events -> Nat] /\ held \in [Events -> 0 .. MaxCopies]
  /\ settled \in [Events -> BOOLEAN]
  /\ told \in SUBSET Events /\ refused \in SUBSET Events

TypeInv == ControlType /\ WorkType /\ AckType

\* The strengthening of NoMemberOutlives: of the streams opened only the last is
\* not torn down, and that only while it is joined or read.
TornInv ==
  /\ torn \subseteq 1 .. stream /\ 1 .. stream - 1 \subseteq torn
  /\ stream \in torn \/ phase \in {"joining", "rejoining", "reading", "delivering"}

\* Only a group that is read has anything on its way, and only a MANUAL one acks.
QuietInv ==
  /\ phase \notin {"reading", "delivering"} => inbox = <<>> /\ outbox = <<>> /\ pending = {}
  /\ mode = "manual" => phase # "delivering"
  /\ mode # "manual" => outbox = <<>> /\ pending = {}

\* Nothing is queued but what came on the stream that is read: the pump never meets
\* an event of an earlier one, though it asks.
QueueInv == \A i \in DOMAIN queue : mode = "manual" /\ Reading /\ queue[i].on = stream

\* Acks are numbered, and what a number stands for does not change on its way.
IdsInv ==
  /\ \A p \in pending : p.id <= acks
  /\ \A i \in DOMAIN outbox : outbox[i].id <= acks
  /\ \A i \in DOMAIN inbox : inbox[i].m = "result" => inbox[i].id <= acks
  /\ \A i \in DOMAIN outbox, p \in pending : outbox[i].id = p.id => outbox[i] = p

\* The events the server is done with or somebody gave back; and with those it has
\* a copy of out.
Done   == refused \cup {e \in Events : settled[e]}
Backed == Done \cup {e \in Events : held[e] > 0}

\* Whatever is on its way, or waits to be settled, is backed by the server.
BackedInv ==
  mode = "manual" =>
    /\ \A i \in DOMAIN inbox : inbox[i].m = "event" => inbox[i].e \in Backed
    /\ \A i \in DOMAIN outbox :
         outbox[i].e \in Backed /\ (outbox[i].kind = "nak" => outbox[i].e \in refused)
    /\ Reading => \A e \in Events : delivered[e] > 0 => e \in Backed

\* An OK on its way to an ack that waits for it is the truth.
ResultInv ==
  \A i \in DOMAIN inbox, p \in pending :
    inbox[i].m = "result" /\ inbox[i].ok /\ inbox[i].id = p.id /\ p.kind = "ack"
      => p.e \in Done

\* Frames that bring a copy of e, and those that settle one for a waiting ack.
EventFrames(e)  == {f \in Frame : f.m = "event" /\ f.e = e}
OkFrames(P, e)  == {f \in Frame : f.m = "result" /\ f.ok /\ f.e = e /\ \E p \in P : p.id = f.id}

\* Where from the k-th on a frame of M is, and how many there are.
Places(s, M, k) == {i \in k .. Len(s) : s[i] \in M}
Many(s, M, k)   == Cardinality(Places(s, M, k))

\* The number of copies of e that the reader will count once it has read all that
\* is on its way, were it to forget what it counted before the k-th frame.
Count(d, s, P, e, k) ==
  (IF k = 1 THEN d[e] ELSE 0) + Many(s, EventFrames(e), k) - Many(s, OkFrames(P, e), k)

\* It counts at least as many as the server has out: as the count never falls
\* below 0, it is the largest of these.
CountInv ==
  mode = "manual" /\ Reading =>
    \A e \in Events : \E k \in 1 .. Len(inbox) + 1 :
      held[e] <= Count(delivered, inbox, pending, e, k)

GroupIInv ==
  /\ TypeInv /\ TornInv /\ QuietInv /\ QueueInv /\ IdsInv /\ BackedInv /\ ResultInv /\ CountInv
  /\ OkMeansSettled

-----------------------------------------------------------------------------
(* What reading and writing a channel do. *)

LEMMA Popped ==
  ASSUME NEW S, NEW s \in Seq(S), s # <<>>
  PROVE  /\ Head(s) \in S /\ Head(s) = s[1] /\ 1 \in DOMAIN s
         /\ Tail(s) \in Seq(S) /\ Len(Tail(s)) = Len(s) - 1 /\ Len(s) \in Nat \ {0}
         /\ \A i \in DOMAIN Tail(s) : i + 1 \in DOMAIN s /\ Tail(s)[i] = s[i + 1]
<1>1. Len(s) \in Nat \ {0} /\ DOMAIN s = 1 .. Len(s)
  BY EmptySeq
<1>2. /\ Head(s) \in S /\ Tail(s) \in Seq(S) /\ Len(Tail(s)) = Len(s) - 1
      /\ \A i \in 1 .. Len(Tail(s)) : Tail(s)[i] = s[i + 1]
  BY HeadTailProperties
<1>3. DOMAIN Tail(s) = 1 .. Len(s) - 1
  BY <1>2
<1>4. Head(s) = s[1] /\ 1 \in DOMAIN s
  BY <1>1
<1>5. \A i \in DOMAIN Tail(s) : i + 1 \in DOMAIN s
  BY <1>1, <1>3
<1> QED BY <1>1, <1>2, <1>3, <1>4, <1>5

LEMMA EachIs ==
  ASSUME NEW S, NEW s \in Seq(S), NEW i \in DOMAIN s
  PROVE  s[i] \in S /\ i \in 1 .. Len(s)
<1>1. i \in 1 .. Len(s)
  OBVIOUS
<1> QED BY <1>1, ElementOfSeq

LEMMA Pushed ==
  ASSUME NEW S, NEW s \in Seq(S), NEW x \in S
  PROVE  /\ Append(s, x) \in Seq(S) /\ Len(Append(s, x)) = Len(s) + 1 /\ Len(s) \in Nat
         /\ DOMAIN Append(s, x) = 1 .. Len(s) + 1 /\ DOMAIN s = 1 .. Len(s)
         /\ \A i \in DOMAIN Append(s, x) :
              \/ i \in DOMAIN s /\ Append(s, x)[i] = s[i]
              \/ i = Len(s) + 1 /\ Append(s, x)[i] = x
<1>1. Len(s) \in Nat /\ DOMAIN s = 1 .. Len(s)
  OBVIOUS
<1>2. /\ Append(s, x) \in Seq(S) /\ Len(Append(s, x)) = Len(s) + 1
      /\ \A i \in 1 .. Len(s) : Append(s, x)[i] = s[i]
      /\ Append(s, x)[Len(s) + 1] = x
  BY AppendProperties
<1>3. DOMAIN Append(s, x) = 1 .. Len(s) + 1
  BY <1>2
<1>4. \A i \in 1 .. Len(s) + 1 : i \in 1 .. Len(s) \/ i = Len(s) + 1
  BY <1>1
<1> QED BY <1>1, <1>2, <1>3, <1>4

\* What the end of a stream leaves of the queue.
LEMMA QueueEmptied ==
  ASSUME TypeInv, QueueInv
  PROVE  OfOthers = <<>>
<1> DEFINE kept  == {i \in DOMAIN queue : queue[i].on # stream}
           At(k) == CHOOSE i \in kept : Cardinality(kept \cap (1 .. i)) = k
<1>1. OfOthers = [k \in 1 .. Cardinality(kept) |-> queue[At(k)]]
  BY DEF OfOthers
<1>2. kept = {}
  BY DEF QueueInv
<1> HIDE DEF kept, At
<1>3. 1 .. Cardinality(kept) = {}
  BY <1>2, FS_EmptySet
<1> QED BY <1>1, <1>3

-----------------------------------------------------------------------------
(* Types. *)

LEMMA TypeInvIsTyped == TypeInv => TypeOK
<1> SUFFICES ASSUME TypeInv PROVE TypeOK
  OBVIOUS
<1>1. ASSUME NEW i \in DOMAIN queue
      PROVE  queue[i] \in [e : Events, on : 1 .. MaxStreams]
  <2>1. queue \in Seq(Queued)
    BY DEF TypeInv, WorkType
  <2>2. i \in 1 .. Len(queue)
    BY <2>1
  <2>3. queue[i] \in Queued
    BY <2>1, <2>2, ElementOfSeq
  <2> QED BY <2>3 DEF Queued
<1>2. handler.pc \in {"idle", "gate", "running", "acking"}
  BY DEF TypeInv, WorkType, Handlers
<1>3. \A p \in pending : p.e \in Events /\ p.id \in 1 .. acks
  BY DEF TypeInv, AckType, Ack
<1>4. {stopped, released, closing} \subseteq BOOLEAN /\ told \cup refused \subseteq Events
  BY DEF TypeInv, ControlType, AckType
<1> QED BY <1>1, <1>2, <1>3, <1>4 DEF TypeInv, ControlType, AckType, TypeOK, Phases

\* Who is awoken is idle, and everybody else where he was.
LEMMA Woken ==
  ASSUME NEW ids
  PROVE  Wake(ids) = handler \/ Wake(ids) = Idle
BY DEF Wake

LEMMA IdleIs == Idle \in Handlers /\ Idle.pc = "idle"
BY DEF Idle, Handlers

LEMMA BoundsAre ==
  ASSUME GroupAssumption
  PROVE  MaxStreams \in Nat \ {0} /\ MaxCopies \in Nat \ {0} /\ MaxFaults \in Nat
BY DEF GroupAssumption

LEMMA ControlStep ==
  ASSUME GroupAssumption, ControlType, [Next]_vars
  PROVE  ControlType'
<1>0. MaxStreams \in Nat \ {0} /\ MaxFaults \in Nat
  BY BoundsAre
<1> USE DEF ControlType, Phases, Fault, control
<1>1. CASE Joined
  BY <1>0, <1>1 DEF Joined, Fresh
<1>2. CASE JoinFails
  BY <1>0, <1>2 DEF JoinFails
<1>3. CASE Reopen
  <2>1. /\ stream' = stream + 1 /\ stream < MaxStreams /\ phase' = "rejoining"
        /\ UNCHANGED <<mode, stopped, released, torn, closing, faults>>
    BY <1>0, <1>3 DEF Reopen, Open
  <2> QED BY <1>0, <2>1
<1>4. CASE Release
  BY <1>0, <1>4 DEF Release
<1>5. CASE Unsubscribe
  BY <1>0, <1>5 DEF Unsubscribe
<1>6. CASE GraceEnds
  BY <1>0, <1>6 DEF GraceEnds
<1>7. CASE StreamEnds
  BY <1>0, <1>7 DEF StreamEnds, EndOfStream, Reading
<1>8. CASE ReceiveEvent
  BY <1>0, <1>8 DEF ReceiveEvent
<1>9. CASE ReceiveResult
  BY <1>0, <1>9 DEF ReceiveResult
<1>10. CASE Delivered
  BY <1>0, <1>10 DEF Delivered, EndOfStream
<1>11. CASE Exit
  BY <1>0, <1>11 DEF Exit
<1>12. CASE Pump
  BY <1>0, <1>12 DEF Pump
<1>13. CASE CallHandler
  BY <1>0, <1>13 DEF CallHandler
<1>14. ASSUME NEW k \in {"ack", "nak"}, Settle(k) PROVE ControlType'
  BY <1>0, <1>14 DEF Settle
<1>15. CASE AckTimesOut
  BY <1>0, <1>15 DEF AckTimesOut
<1>16. ASSUME NEW e \in Events, ServerDelivers(e) PROVE ControlType'
  BY <1>0, <1>16 DEF ServerDelivers
<1>17. ASSUME NEW e \in Events, ServerRedelivers(e) PROVE ControlType'
  BY <1>0, <1>17 DEF ServerRedelivers
<1>18. CASE ServerAnswers
  BY <1>0, <1>18 DEF ServerAnswers
<1>19. CASE UNCHANGED vars
  BY <1>0, <1>19 DEF vars
<1> QED BY <1>1, <1>2, <1>3, <1>4, <1>5, <1>6, <1>7, <1>8, <1>9, <1>10, <1>11,
           <1>12, <1>13, <1>14, <1>15, <1>16, <1>17, <1>18, <1>19 DEF Next, Read

LEMMA WorkStep ==
  ASSUME TypeInv, QueueInv, [Next]_vars
  PROVE  WorkType'
<1>t. /\ queue \in Seq(Queued) /\ handler \in Handlers /\ stream \in 1 .. MaxStreams
      /\ handler.pc # "idle" => handler.of \in Queued
      /\ inbox \in Seq(Frame)
  BY DEF TypeInv, WorkType, ControlType, AckType
<1>i. Idle \in Handlers /\ Idle.pc = "idle"
  BY IdleIs
<1>k. ASSUME queue' = queue \/ queue' = OfOthers, handler' = handler \/ handler' = Idle
      PROVE  WorkType'
  <2>1. queue' \in Seq(Queued)
    BY <1>k, <1>t, QueueEmptied, EmptySeq
  <2> QED BY <1>k, <1>t, <1>i, <2>1 DEF WorkType
<1>1. CASE EndOfStream
  BY <1>1, <1>k, Woken DEF EndOfStream
<1>2. CASE ReceiveEvent
  <2> DEFINE q == [e |-> Head(inbox).e, on |-> stream]
  <2>1. Head(inbox) \in Frame
    BY <1>2, <1>t, Popped DEF ReceiveEvent
  <2>2. q \in Queued
    BY <1>t, <2>1 DEF Frame, Queued
  <2>3. \/ queue' = Append(queue, q) /\ handler' = handler
        \/ queue' = queue /\ handler' = [Idle EXCEPT !.pc = "gate", !.of = q]
    BY <1>2 DEF ReceiveEvent
  <2> HIDE DEF q
  <2>4. Append(queue, q) \in Seq(Queued)
    BY <1>t, <2>2, Pushed
  <2>5. /\ [Idle EXCEPT !.pc = "gate", !.of = q] \in Handlers
        /\ [Idle EXCEPT !.pc = "gate", !.of = q].of = q
    BY <2>2 DEF Idle, Handlers
  <2> QED BY <1>t, <2>2, <2>3, <2>4, <2>5 DEF WorkType
<1>3. CASE ReceiveResult
  BY <1>3, <1>k, Woken DEF ReceiveResult
<1>4. CASE Pump
  <2> DEFINE q == Head(queue)
  <2>1. q \in Queued /\ Tail(queue) \in Seq(Queued)
    BY <1>4, <1>t, Popped DEF Pump
  <2>2. /\ queue' = Tail(queue)
        /\ handler' = handler \/ handler' = [Idle EXCEPT !.pc = "gate", !.of = q]
    BY <1>4 DEF Pump
  <2> HIDE DEF q
  <2>3. /\ [Idle EXCEPT !.pc = "gate", !.of = q] \in Handlers
        /\ [Idle EXCEPT !.pc = "gate", !.of = q].of = q
    BY <2>1 DEF Idle, Handlers
  <2> QED BY <1>t, <2>1, <2>2, <2>3 DEF WorkType
<1>5. CASE CallHandler
  <2>1. /\ queue' = queue /\ handler.pc = "gate"
        /\ handler' = Idle \/ handler' = [handler EXCEPT !.pc = "running"]
    BY <1>5 DEF CallHandler
  <2>2. /\ [handler EXCEPT !.pc = "running"] \in Handlers
        /\ [handler EXCEPT !.pc = "running"].of = handler.of
    BY <1>t DEF Handlers
  <2> QED BY <1>t, <1>i, <2>1, <2>2 DEF WorkType
<1>6. ASSUME NEW k \in {"ack", "nak"}, Settle(k) PROVE WorkType'
  <2> DEFINE h == [handler EXCEPT !.pc = "acking", !.ack = acks + 1]
  <2>1. /\ queue' = queue /\ handler.pc = "running"
        /\ handler' = Idle \/ handler' = h
    BY <1>6 DEF Settle
  <2>2. acks + 1 \in Nat
    BY DEF TypeInv, AckType
  <2>3. h \in Handlers /\ h.of = handler.of
    BY <1>t, <2>2 DEF Handlers
  <2> HIDE DEF h
  <2> QED BY <1>t, <1>i, <2>1, <2>3 DEF WorkType
<1>7. CASE AckTimesOut
  BY <1>7, <1>k, Woken DEF AckTimesOut
<1>8. CASE UNCHANGED <<queue, handler>>
  BY <1>8, <1>k
<1>9. CASE Joined \/ JoinFails \/ Reopen \/ Release \/ Unsubscribe \/ GraceEnds \/ Exit
  BY <1>8, <1>9 DEF Joined, JoinFails, Reopen, Release, Unsubscribe, GraceEnds, Exit
<1>10. CASE StreamEnds \/ Delivered
  BY <1>1, <1>8, <1>10 DEF StreamEnds, Delivered
<1>11. ASSUME NEW e \in Events, ServerDelivers(e) \/ ServerRedelivers(e)
       PROVE  WorkType'
  BY <1>8, <1>11 DEF ServerDelivers, ServerRedelivers
<1>12. CASE ServerAnswers
  BY <1>8, <1>12 DEF ServerAnswers
<1>13. CASE UNCHANGED vars
  BY <1>8, <1>13 DEF vars
<1> QED BY <1>2, <1>3, <1>4, <1>5, <1>6, <1>7, <1>9, <1>10, <1>11, <1>12, <1>13
        DEF Next, Read

\* What a step leaves of the wire, the acks and the server's copies: nothing where
\* a stream begins.
LEMMA FreshType ==
  ASSUME GroupAssumption, AckType, Fresh, UNCHANGED <<settled, told, refused>>
  PROVE  AckType'
<1>1. NoCopies \in [Events -> Nat] /\ NoCopies \in [Events -> 0 .. MaxCopies]
  BY BoundsAre DEF NoCopies
<1>2. <<>> \in Seq(Ack) /\ <<>> \in Seq(Frame)
  BY EmptySeq
<1> QED BY <1>1, <1>2 DEF AckType, Fresh

LEMMA EndType ==
  ASSUME GroupAssumption, AckType, EndOfStream, UNCHANGED <<delivered, acks, settled, told, refused>>
  PROVE  AckType'
<1>1. NoCopies \in [Events -> 0 .. MaxCopies]
  BY BoundsAre DEF NoCopies
<1>2. <<>> \in Seq(Ack) /\ <<>> \in Seq(Frame)
  BY EmptySeq
<1> QED BY <1>1, <1>2 DEF AckType, EndOfStream

\* What the server sends.
EventOf(e)       == [m |-> "event", e |-> e, id |-> 0, ok |-> TRUE]
ResultOf(p, yes) == [m |-> "result", e |-> p.e, id |-> p.id, ok |-> yes]

\* The server appends one frame, answers at most one ack, and counts.
LEMMA ServerType ==
  ASSUME AckType, NEW x \in Frame, inbox' = Append(inbox, x),
         outbox' \in Seq(Ack), held' \in [Events -> 0 .. MaxCopies],
         settled' \in [Events -> BOOLEAN],
         UNCHANGED <<acks, pending, delivered, told, refused>>
  PROVE  AckType'
<1>1. Append(inbox, x) \in Seq(Frame)
  BY Pushed DEF AckType
<1> QED BY <1>1 DEF AckType

LEMMA AnswerIs ==
  ASSUME AckType, ServerAnswers
  PROVE  /\ Head(outbox) \in Ack /\ outbox # <<>> /\ outbox' = Tail(outbox)
         /\ outbox' \in Seq(Ack) /\ Listening
         /\ UNCHANGED <<mode, control, queue, handler, acking, history>>
         /\ \E yes \in BOOLEAN :
              /\ ResultOf(Head(outbox), yes) \in Frame
              /\ inbox' = Append(inbox, ResultOf(Head(outbox), yes))
              /\ yes => LET p == Head(outbox) IN
                   /\ held' = [held EXCEPT ![p.e] = IF @ > 0 THEN @ - 1 ELSE 0]
                   /\ settled' = [settled EXCEPT ![p.e] = @ \/ (p.kind = "ack" /\ held[p.e] > 0)]
                   /\ UNCHANGED faults
              /\ ~yes => UNCHANGED server /\ Fault
<1> DEFINE p == Head(outbox)
<1>1. p \in Ack /\ Tail(outbox) \in Seq(Ack)
  BY Popped DEF AckType, ServerAnswers
<1>2. ASSUME NEW yes \in BOOLEAN PROVE ResultOf(p, yes) \in Frame
  BY <1>1 DEF ResultOf, Ack, Frame
<1> QED BY <1>1, <1>2, Zenon DEF ServerAnswers, ResultOf

\* The numbers a step of the server leaves in their range.
LEMMA AnswerType ==
  ASSUME GroupAssumption, AckType, ServerAnswers
  PROVE  AckType'
<1> DEFINE p == Head(outbox)
<1>1. /\ p \in Ack /\ outbox' \in Seq(Ack)
      /\ UNCHANGED <<acks, pending, delivered, told, refused>>
  BY AnswerIs DEF acking, history
<1>2. PICK yes \in BOOLEAN :
        /\ ResultOf(p, yes) \in Frame /\ inbox' = Append(inbox, ResultOf(p, yes))
        /\ yes => /\ held' = [held EXCEPT ![p.e] = IF @ > 0 THEN @ - 1 ELSE 0]
                  /\ settled' = [settled EXCEPT ![p.e] = @ \/ (p.kind = "ack" /\ held[p.e] > 0)]
        /\ ~yes => UNCHANGED <<held, settled>>
  BY AnswerIs DEF server
<1> HIDE DEF p
<1>3. p.e \in Events /\ held \in [Events -> 0 .. MaxCopies] /\ settled \in [Events -> BOOLEAN]
  BY <1>1 DEF AckType, Ack
<1>4. held' \in [Events -> 0 .. MaxCopies]
  <2>1. CASE yes
    <3>1. (IF held[p.e] > 0 THEN held[p.e] - 1 ELSE 0) \in 0 .. MaxCopies
      BY <1>3, BoundsAre
    <3> QED BY <1>2, <1>3, <2>1, <3>1
  <2>2. CASE ~yes
    BY <1>2, <1>3, <2>2
  <2> QED BY <2>1, <2>2
<1>5. settled' \in [Events -> BOOLEAN]
  <2>1. CASE yes
    <3> DEFINE done == settled[p.e] \/ (p.kind = "ack" /\ held[p.e] > 0)
    <3>1. done \in BOOLEAN /\ settled' = [settled EXCEPT ![p.e] = done]
      BY <1>2, <2>1
    <3> HIDE DEF done
    <3> QED BY <1>3, <3>1
  <2>2. CASE ~yes
    BY <1>2, <1>3, <2>2
  <2> QED BY <2>1, <2>2
<1> QED BY <1>1, <1>2, <1>4, <1>5, ServerType

LEMMA AckStep ==
  ASSUME GroupAssumption, TypeInv, [Next]_vars
  PROVE  AckType'
<1>a. AckType
  BY DEF TypeInv
<1>k. ASSUME UNCHANGED <<acking, wire, server, history>> PROVE AckType'
  BY <1>a, <1>k DEF AckType, acking, wire, server, history
<1>1. CASE Joined
  BY <1>1, <1>a, FreshType DEF Joined, history
<1>2. CASE JoinFails \/ Reopen \/ Release \/ Unsubscribe \/ GraceEnds \/ Exit
  BY <1>2, <1>k DEF JoinFails, Reopen, Release, Unsubscribe, GraceEnds, Exit
<1>3. CASE Pump \/ CallHandler
  BY <1>3, <1>k DEF Pump, CallHandler
<1>4. CASE StreamEnds
  BY <1>4, <1>a, EndType DEF StreamEnds, history
<1>5. CASE Delivered
  <2>1. UNCHANGED <<delivered, acks, settled, told, refused>>
    BY <1>5 DEF Delivered, history
  <2>2. EndOfStream \/ UNCHANGED <<pending, wire, held>>
    BY <1>5 DEF Delivered
  <2> QED BY <1>a, <2>1, <2>2, EndType DEF AckType, wire
<1>6. CASE ReceiveEvent
  <2>1. Head(inbox) \in Frame /\ Tail(inbox) \in Seq(Frame)
    BY <1>6, <1>a, Popped DEF ReceiveEvent, AckType
  <2>2. /\ inbox' = Tail(inbox)
        /\ UNCHANGED <<pending, acks, outbox, held, settled, told, refused>>
        /\ delivered' = delivered \/ delivered' = MarkDelivered(Head(inbox).e)
    BY <1>6 DEF ReceiveEvent, server, history
  <2>3. delivered' \in [Events -> Nat]
    BY <1>a, <2>1, <2>2 DEF MarkDelivered, AckType, Frame
  <2> QED BY <1>a, <2>1, <2>2, <2>3 DEF AckType
<1>7. CASE ReceiveResult
  <2> DEFINE r  == Head(inbox)
             of == {p \in pending : p.id = r.id}
  <2>1. r \in Frame /\ Tail(inbox) \in Seq(Frame)
    BY <1>7, <1>a, Popped DEF ReceiveResult, AckType
  <2>2. /\ inbox' = Tail(inbox) /\ pending' = pending \ of
        /\ UNCHANGED <<acks, outbox, held, settled, refused>>
        /\ \/ /\ delivered' = [delivered EXCEPT ![r.e] = IF @ > 1 THEN @ - 1 ELSE 0]
              /\ told' = told \cup {p.e : p \in {p \in of : p.kind = "ack"}}
           \/ UNCHANGED <<delivered, told>>
    BY <1>7 DEF ReceiveResult, server
  <2>3. delivered' \in [Events -> Nat]
    <3>1. r.e \in Events /\ delivered \in [Events -> Nat]
      BY <1>a, <2>1 DEF AckType, Frame
    <3>2. (IF delivered[r.e] > 1 THEN delivered[r.e] - 1 ELSE 0) \in Nat
      BY <3>1
    <3> HIDE DEF r, of
    <3> QED BY <2>2, <3>1, <3>2
  <2>4. told' \in SUBSET Events
    BY <1>a, <2>2 DEF AckType, Ack
  <2>5. pending' \in SUBSET Ack /\ \A p \in pending' : p.id \in 1 .. acks
    BY <1>a, <2>2 DEF AckType
  <2> QED BY <1>a, <2>1, <2>2, <2>3, <2>4, <2>5 DEF AckType
<1>8. ASSUME NEW k \in {"ack", "nak"}, Settle(k) PROVE AckType'
  <2> DEFINE e == handler.of.e
             p == [id |-> acks + 1, e |-> e, kind |-> k]
  <2>1. UNCHANGED <<delivered, inbox, held, settled, told>>
    BY <1>8 DEF Settle, server
  <2>2. \/ UNCHANGED <<acks, pending, outbox, refused>>
        \/ /\ acks' = acks + 1 /\ pending' = pending \cup {p}
           /\ outbox' = Append(outbox, p)
           /\ refused' = refused \cup {e} \/ refused' = refused
    BY <1>8 DEF Settle
  <2>3. p \in Ack /\ e \in Events
    <3>1. handler.of \in Queued
      BY <1>8 DEF Settle, TypeInv, WorkType
    <3> QED BY <1>a, <3>1 DEF Ack, Queued, AckType
  <2>4. p.id = acks + 1
    OBVIOUS
  <2> HIDE DEF p, e
  <2>5. Append(outbox, p) \in Seq(Ack)
    BY <1>a, <2>3, Pushed DEF AckType
  <2>6. acks + 1 \in Nat /\ acks + 1 \in 1 .. acks + 1
        /\ \A i \in 1 .. acks : i \in 1 .. acks + 1
    BY <1>a DEF AckType
  <2>7. acks' \in Nat /\ \A q \in pending' : q.id \in 1 .. acks'
    BY <1>a, <2>2, <2>4, <2>6 DEF AckType
  <2>8. /\ pending' \in SUBSET Ack /\ outbox' \in Seq(Ack)
        /\ refused' \in SUBSET Events
    BY <1>a, <2>2, <2>3, <2>5 DEF AckType
  <2> QED BY <1>a, <2>1, <2>7, <2>8 DEF AckType
<1>9. CASE AckTimesOut
  <2>1. pending' \subseteq pending /\ UNCHANGED <<delivered, acks, wire, server, history>>
    BY <1>9 DEF AckTimesOut
  <2> QED BY <1>a, <2>1 DEF AckType, wire, server, history
<1>10. ASSUME NEW e \in Events, ServerDelivers(e) \/ ServerRedelivers(e) PROVE AckType'
  <2>1. /\ inbox' = Append(inbox, EventOf(e)) /\ outbox' = outbox
        /\ UNCHANGED <<acks, pending, delivered, told, refused>>
    BY <1>10 DEF ServerDelivers, ServerRedelivers, EventOf, acking, history
  <2>2. EventOf(e) \in Frame /\ outbox' \in Seq(Ack)
    BY <1>a, <2>1 DEF EventOf, Frame, AckType
  <2>3. settled' \in [Events -> BOOLEAN]
    BY <1>10, <1>a DEF ServerDelivers, ServerRedelivers, AckType
  <2>4. held' \in [Events -> 0 .. MaxCopies]
    <3>1. \/ held' = held \/ held' = [held EXCEPT ![e] = 1]
          \/ held[e] < MaxCopies /\ held' = [held EXCEPT ![e] = @ + 1]
      BY <1>10 DEF ServerDelivers, ServerRedelivers
    <3>2. held \in [Events -> 0 .. MaxCopies] /\ MaxCopies \in Nat \ {0}
      BY <1>a, BoundsAre DEF AckType
    <3>3. held[e] \in 0 .. MaxCopies /\ 1 \in 0 .. MaxCopies
      BY <3>2
    <3>4. held[e] < MaxCopies => held[e] + 1 \in 0 .. MaxCopies
      BY <3>2, <3>3
    <3> QED BY <3>1, <3>2, <3>3, <3>4
  <2> HIDE DEF EventOf
  <2> QED BY <1>a, <2>1, <2>2, <2>3, <2>4, ServerType
<1>11. CASE ServerAnswers
  BY <1>11, <1>a, AnswerType
<1>12. CASE UNCHANGED vars
  BY <1>12, <1>k DEF vars
<1> QED BY <1>1, <1>2, <1>3, <1>4, <1>5, <1>6, <1>7, <1>8, <1>9, <1>10, <1>11, <1>12
        DEF Next, Read

-----------------------------------------------------------------------------
(* The streams, the queue and the numbers of the acks. *)

LEMMA TornStep ==
  ASSUME TypeInv, TornInv, [Next]_vars
  PROVE  TornInv'
<1>t. stream \in Nat \ {0} /\ phase \in Phases
  BY DEF TypeInv, ControlType
<1>k. ASSUME stream' = stream, torn' = torn \/ torn' = torn \cup {stream},
             stream \in torn' \/ phase' \in {"joining", "rejoining", "reading", "delivering"}
      PROVE  TornInv'
  <2>1. stream \in 1 .. stream
    BY <1>t
  <2> QED BY <1>k, <2>1 DEF TornInv
<1> USE DEF TornInv, control
<1>1. CASE Joined
  <2>1. /\ stream' = stream
        /\ \/ torn' = torn \cup {stream}
           \/ phase' = "reading" /\ torn' = torn
    BY <1>1 DEF Joined
  <2> QED BY <1>k, <2>1
<1>2. CASE JoinFails
  BY <1>t, <1>2 DEF JoinFails
<1>3. CASE Reopen
  BY <1>t, <1>3 DEF Reopen, Open
<1>4. CASE Release
  BY <1>t, <1>4 DEF Release
<1>5. CASE Unsubscribe
  BY <1>t, <1>5 DEF Unsubscribe
<1>6. CASE GraceEnds
  BY <1>t, <1>6 DEF GraceEnds
<1>7. CASE StreamEnds
  BY <1>t, <1>7 DEF StreamEnds, EndOfStream, Reading
<1>8. CASE ReceiveEvent
  BY <1>t, <1>8 DEF ReceiveEvent
<1>9. CASE ReceiveResult
  BY <1>t, <1>9 DEF ReceiveResult
<1>10. CASE Delivered
  <2>1. /\ stream' = stream
        /\ \/ torn' = torn \cup {stream}
           \/ phase' = "reading" /\ torn' = torn
    BY <1>10 DEF Delivered, EndOfStream
  <2> QED BY <1>k, <2>1
<1>11. CASE Exit
  BY <1>t, <1>11 DEF Exit
<1>12. CASE Pump
  BY <1>t, <1>12 DEF Pump
<1>13. CASE CallHandler
  BY <1>t, <1>13 DEF CallHandler
<1>14. ASSUME NEW k \in {"ack", "nak"}, Settle(k) PROVE TornInv'
  BY <1>t, <1>14 DEF Settle
<1>15. CASE AckTimesOut
  BY <1>t, <1>15 DEF AckTimesOut
<1>16. ASSUME NEW e \in Events, ServerDelivers(e) PROVE TornInv'
  BY <1>t, <1>16 DEF ServerDelivers
<1>17. ASSUME NEW e \in Events, ServerRedelivers(e) PROVE TornInv'
  BY <1>t, <1>17 DEF ServerRedelivers
<1>18. CASE ServerAnswers
  BY <1>t, <1>18 DEF ServerAnswers
<1>19. CASE UNCHANGED vars
  BY <1>t, <1>19 DEF vars
<1> QED BY <1>1, <1>2, <1>3, <1>4, <1>5, <1>6, <1>7, <1>8, <1>9, <1>10, <1>11,
           <1>12, <1>13, <1>14, <1>15, <1>16, <1>17, <1>18, <1>19 DEF Next, Read

LEMMA QuietInvStep ==
  ASSUME TypeInv, QuietInv, [Next]_vars
  PROVE  QuietInv'
<1>t. mode \in {"manual", "auto"} /\ phase \in Phases
  BY DEF TypeInv, ControlType
<1> USE DEF QuietInv, control, wire, acking, Phases
<1>1. CASE Joined
  BY <1>t, <1>1 DEF Joined, Fresh
<1>2. CASE JoinFails
  BY <1>t, <1>2 DEF JoinFails
<1>3. CASE Reopen
  BY <1>t, <1>3 DEF Reopen, Open
<1>4. CASE Release
  BY <1>t, <1>4 DEF Release
<1>5. CASE Unsubscribe
  BY <1>t, <1>5 DEF Unsubscribe
<1>6. CASE GraceEnds
  BY <1>t, <1>6 DEF GraceEnds
<1>7. CASE StreamEnds
  BY <1>t, <1>7 DEF StreamEnds, EndOfStream, Reading
<1>8. CASE ReceiveEvent
  BY <1>t, <1>8 DEF ReceiveEvent, Reading
<1>9. CASE ReceiveResult
  BY <1>t, <1>9 DEF ReceiveResult, Reading
<1>10. CASE Delivered
  BY <1>t, <1>10 DEF Delivered, EndOfStream
<1>11. CASE Exit
  BY <1>t, <1>11 DEF Exit
<1>12. CASE Pump
  BY <1>t, <1>12 DEF Pump
<1>13. CASE CallHandler
  BY <1>t, <1>13 DEF CallHandler
<1>14. ASSUME NEW k \in {"ack", "nak"}, Settle(k) PROVE QuietInv'
  BY <1>t, <1>14 DEF Settle, Settles, Reading
<1>15. CASE AckTimesOut
  BY <1>t, <1>15 DEF AckTimesOut
<1>16. ASSUME NEW e \in Events, ServerDelivers(e) PROVE QuietInv'
  BY <1>t, <1>16 DEF ServerDelivers, Listening
<1>17. ASSUME NEW e \in Events, ServerRedelivers(e) PROVE QuietInv'
  BY <1>t, <1>17 DEF ServerRedelivers, Listening
<1>18. CASE ServerAnswers
  BY <1>t, <1>18 DEF ServerAnswers, Listening
<1>19. CASE UNCHANGED vars
  BY <1>t, <1>19 DEF vars
<1> QED BY <1>1, <1>2, <1>3, <1>4, <1>5, <1>6, <1>7, <1>8, <1>9, <1>10, <1>11,
           <1>12, <1>13, <1>14, <1>15, <1>16, <1>17, <1>18, <1>19 DEF Next, Read

LEMMA QueueStep ==
  ASSUME TypeInv, QuietInv, QueueInv, [Next]_vars
  PROVE  QueueInv'
<1>t. queue \in Seq(Queued) /\ stream \in 1 .. MaxStreams /\ inbox \in Seq(Frame)
  BY DEF TypeInv, ControlType, WorkType, AckType
<1> USE DEF QueueInv, control
<1>1. CASE Joined
  BY <1>1 DEF Joined, Reading
<1>2. CASE JoinFails
  BY <1>2 DEF JoinFails, Reading
<1>3. CASE Reopen
  BY <1>3 DEF Reopen, Reading, Open
<1>4. CASE Release
  BY <1>4 DEF Release, Reading
<1>5. CASE Unsubscribe
  BY <1>5 DEF Unsubscribe, Reading
<1>6. CASE GraceEnds
  BY <1>6 DEF GraceEnds, Reading
<1>7. CASE StreamEnds
  <2>1. queue' = <<>>
    BY <1>7, QueueEmptied DEF StreamEnds, EndOfStream
  <2> QED BY <2>1
<1>8. CASE ReceiveEvent
  <2> DEFINE q == [e |-> Head(inbox).e, on |-> stream]
  <2>1. CASE mode = "manual"
    <3>1. /\ queue' = Append(queue, q) /\ Reading
          /\ phase' = phase /\ stream' = stream /\ mode' = mode
      BY <1>8, <2>1 DEF ReceiveEvent
    <3>2. q \in Queued
      <4>1. Head(inbox) \in Frame
        BY <1>8, <1>t, Popped DEF ReceiveEvent
      <4> QED BY <1>t, <4>1 DEF Frame, Queued
    <3>3. q.on = stream
      OBVIOUS
    <3> HIDE DEF q
    <3>4. \A i \in DOMAIN Append(queue, q) :
            \/ i \in DOMAIN queue /\ Append(queue, q)[i] = queue[i]
            \/ Append(queue, q)[i] = q
      BY <1>t, <3>2, Pushed
    <3> QED BY <2>1, <3>1, <3>3, <3>4 DEF Reading
  <2>2. CASE mode # "manual"
    BY <1>8, <2>2 DEF ReceiveEvent, Reading
  <2> QED BY <2>1, <2>2
<1>9. CASE ReceiveResult
  BY <1>9 DEF ReceiveResult, Reading
<1>10. CASE Delivered
  <2>1. queue' = <<>> \/ (queue' = queue /\ phase = "delivering")
    BY <1>10, QueueEmptied DEF Delivered, EndOfStream
  <2> QED BY <2>1 DEF Reading
<1>11. CASE Exit
  BY <1>11 DEF Exit, Reading
<1>12. CASE Pump
  <2>1. queue # <<>> /\ queue' = Tail(queue) /\ phase' = phase
        /\ stream' = stream /\ mode' = mode
    BY <1>12 DEF Pump
  <2>2. \A i \in DOMAIN Tail(queue) : i + 1 \in DOMAIN queue /\ Tail(queue)[i] = queue[i + 1]
    BY <1>t, <2>1, Popped
  <2> QED BY <2>1, <2>2 DEF Reading
<1>13. CASE CallHandler
  BY <1>13 DEF CallHandler, Reading
<1>14. ASSUME NEW k \in {"ack", "nak"}, Settle(k) PROVE QueueInv'
  BY <1>14 DEF Settle, Reading
<1>15. CASE AckTimesOut
  BY <1>15 DEF AckTimesOut, Reading
<1>16. ASSUME NEW e \in Events, ServerDelivers(e) PROVE QueueInv'
  BY <1>16 DEF ServerDelivers, Reading
<1>17. ASSUME NEW e \in Events, ServerRedelivers(e) PROVE QueueInv'
  BY <1>17 DEF ServerRedelivers, Reading
<1>18. CASE ServerAnswers
  BY <1>18 DEF ServerAnswers, Reading
<1>19. CASE UNCHANGED vars
  BY <1>19 DEF vars, Reading
<1> QED BY <1>1, <1>2, <1>3, <1>4, <1>5, <1>6, <1>7, <1>8, <1>9, <1>10, <1>11,
           <1>12, <1>13, <1>14, <1>15, <1>16, <1>17, <1>18, <1>19 DEF Next, Read

-----------------------------------------------------------------------------
(* What a step does to the acks, in six kinds. *)

Still ==
  /\ UNCHANGED <<mode, acks, outbox, inbox, delivered, held, settled, told, refused>>
  /\ pending' \subseteq pending
  /\ mode = "manual" /\ Reading' => Reading

Cleared ==
  /\ UNCHANGED <<mode, settled, told, refused>>
  /\ inbox' = <<>> /\ outbox' = <<>> /\ pending' = {}
  /\ Reading' => delivered' = NoCopies /\ held' = NoCopies

Received ==
  /\ inbox # <<>> /\ Head(inbox).m = "event" /\ inbox' = Tail(inbox)
  /\ UNCHANGED <<mode, acks, pending, outbox, held, settled, told, refused>>
  /\ mode = "manual" => Reading /\ delivered' = MarkDelivered(Head(inbox).e)

Asked ==
  \E p \in Ack :
    /\ p.id = acks + 1 /\ mode = "manual" /\ Reading /\ delivered[p.e] > 0
    /\ acks' = acks + 1 /\ pending' = pending \cup {p} /\ outbox' = Append(outbox, p)
    /\ refused' = IF p.kind = "nak" THEN refused \cup {p.e} ELSE refused
    /\ UNCHANGED <<mode, phase, inbox, delivered, held, settled, told>>

Supplied ==
  \E e \in Events :
    /\ inbox' = Append(inbox, EventOf(e))
    /\ UNCHANGED <<mode, phase, acks, pending, outbox, delivered, told, refused>>
    /\ \/ settled' = settled
       \/ settled' = [settled EXCEPT ![e] = TRUE] /\ mode # "manual"
    /\ mode = "manual" => \/ held' = [held EXCEPT ![e] = @ + 1]
                          \/ held' = held /\ held[e] > 0

LEMMA StepIs ==
  ASSUME TypeInv, QuietInv, QueueInv, [Next]_vars
  PROVE  Still \/ Cleared \/ Received \/ ReceiveResult \/ Asked \/ Supplied \/ ServerAnswers
<1>t. mode \in {"manual", "auto"} /\ (mode = "manual" => phase # "delivering")
  BY DEF TypeInv, ControlType, QuietInv
<1>k. ASSUME UNCHANGED <<mode, acking, wire, server, history>>,
             mode = "manual" /\ Reading' => Reading
      PROVE  Still
  BY <1>k DEF Still, acking, wire, server, history
<1>1. CASE Joined
  BY <1>1 DEF Joined, Fresh, Cleared, history
<1>2. CASE JoinFails
  BY <1>2, <1>k DEF JoinFails, Reading
<1>3. CASE Reopen
  BY <1>3, <1>k DEF Reopen, Open, Reading
<1>4. CASE Release
  BY <1>4, <1>k DEF Release, Reading
<1>5. CASE Unsubscribe
  BY <1>5, <1>k DEF Unsubscribe, Reading
<1>6. CASE GraceEnds
  BY <1>6, <1>k DEF GraceEnds, Reading
<1>7. CASE StreamEnds
  BY <1>7 DEF StreamEnds, EndOfStream, Reading, Cleared, history
<1>8. CASE ReceiveEvent
  BY <1>8 DEF ReceiveEvent, Received, server, history
<1>9. CASE ReceiveResult
  BY <1>9
<1>10. CASE Delivered
  <2>1. mode # "manual" /\ UNCHANGED <<mode, delivered, acks, settled, history>>
    BY <1>10, <1>t DEF Delivered
  <2>2. CASE stopped
    BY <1>10, <2>1, <2>2 DEF Delivered, EndOfStream, Reading, Cleared, history
  <2>3. CASE ~stopped
    BY <1>10, <2>1, <2>3 DEF Delivered, Still, wire, history
  <2> QED BY <2>2, <2>3
<1>11. CASE Exit
  BY <1>11, <1>k DEF Exit, Reading
<1>12. CASE Pump
  BY <1>12, <1>k DEF Pump, Reading, control
<1>13. CASE CallHandler
  BY <1>13, <1>k DEF CallHandler, Reading, control
<1>14. ASSUME NEW k \in {"ack", "nak"}, Settle(k) PROVE Still \/ Asked
  <2> DEFINE e == handler.of.e
             p == [id |-> acks + 1, e |-> e, kind |-> k]
  <2>1. UNCHANGED <<mode, phase, delivered, inbox, held, settled, told>>
    BY <1>14 DEF Settle, server, control
  <2>2. CASE Settles(e)
    <3>1. p \in Ack
      <4>1. handler.of \in Queued /\ acks \in Nat
        BY <1>14 DEF Settle, TypeInv, WorkType, AckType
      <4> QED BY <4>1 DEF Ack, Queued
    <3>2. p.id = acks + 1 /\ p.e = e /\ p.kind = k
      OBVIOUS
    <3>3. /\ acks' = acks + 1 /\ pending' = pending \cup {p}
          /\ outbox' = Append(outbox, p)
          /\ refused' = IF k = "nak" THEN refused \cup {e} ELSE refused
      BY <1>14, <2>2 DEF Settle
    <3>4. mode = "manual" /\ Reading /\ delivered[e] > 0
      BY <2>2 DEF Settles
    <3> HIDE DEF p, e
    <3>5. Asked
      BY <2>1, <3>1, <3>2, <3>3, <3>4 DEF Asked
    <3> QED BY <3>5
  <2>3. CASE ~Settles(e)
    <3>1. UNCHANGED <<acks, pending, outbox, refused>>
      BY <1>14, <2>3 DEF Settle
    <3> QED BY <2>1, <3>1 DEF Still, Reading
  <2> QED BY <2>2, <2>3
<1>15. CASE AckTimesOut
  <2>1. pending' \subseteq pending /\ UNCHANGED <<mode, control, delivered, acks, wire, server, history>>
    BY <1>15 DEF AckTimesOut
  <2> QED BY <2>1 DEF Still, Reading, control, wire, server, history
<1>16. ASSUME NEW e \in Events, ServerDelivers(e) PROVE Supplied
  <2>1. /\ inbox' = Append(inbox, EventOf(e))
        /\ UNCHANGED <<mode, phase, acks, pending, outbox, delivered, told, refused>>
        /\ held[e] = 0
    BY <1>16 DEF ServerDelivers, EventOf, acking, control, history
  <2>2. CASE mode = "manual"
    <3>1. settled' = settled /\ held' = [held EXCEPT ![e] = 1]
      BY <1>16, <1>t, <2>2 DEF ServerDelivers
    <3>2. [held EXCEPT ![e] = 1] = [held EXCEPT ![e] = held[e] + 1]
      BY <2>1
    <3> QED BY <2>1, <2>2, <3>1, <3>2 DEF Supplied
  <2>3. CASE mode # "manual"
    <3>1. settled' = [settled EXCEPT ![e] = TRUE]
      BY <1>16, <1>t, <2>3 DEF ServerDelivers
    <3> QED BY <2>1, <2>3, <3>1 DEF Supplied
  <2> QED BY <2>2, <2>3
<1>17. ASSUME NEW e \in Events, ServerRedelivers(e) PROVE Supplied
  <2>1. /\ inbox' = Append(inbox, EventOf(e))
        /\ UNCHANGED <<mode, phase, acks, pending, outbox, delivered, told, refused, settled>>
        /\ ~settled[e] /\ held[e] > 0
        /\ held' = held \/ held' = [held EXCEPT ![e] = @ + 1]
    BY <1>17 DEF ServerRedelivers, EventOf, acking, control, history
  <2> QED BY <2>1 DEF Supplied
<1>18. CASE ServerAnswers
  BY <1>18
<1>19. CASE UNCHANGED vars
  BY <1>19, <1>k DEF vars, Reading, control
<1> QED BY <1>1, <1>2, <1>3, <1>4, <1>5, <1>6, <1>7, <1>8, <1>9, <1>10, <1>11,
           <1>12, <1>13, <1>14, <1>15, <1>16, <1>17, <1>18, <1>19 DEF Next, Read

LEMMA IdsStep ==
  ASSUME TypeInv, QuietInv, QueueInv, IdsInv, [Next]_vars
  PROVE  IdsInv'
<1>t. /\ acks \in Nat /\ outbox \in Seq(Ack) /\ inbox \in Seq(Frame)
      /\ \A p \in pending : p.id \in Nat
  BY DEF TypeInv, AckType, Ack
<1> USE DEF IdsInv
<1>1. CASE Still
  BY <1>1 DEF Still
<1>2. CASE Cleared
  BY <1>2 DEF Cleared
<1>3. ASSUME inbox # <<>>, inbox' = Tail(inbox), UNCHANGED <<acks, outbox>>,
             pending' \subseteq pending
      PROVE  IdsInv'
  <2>1. \A i \in DOMAIN Tail(inbox) : i + 1 \in DOMAIN inbox /\ Tail(inbox)[i] = inbox[i + 1]
    BY <1>3, <1>t, Popped
  <2> QED BY <1>3, <2>1
<1>4. CASE Received
  BY <1>4, <1>3 DEF Received
<1>5. CASE ReceiveResult
  BY <1>5, <1>3 DEF ReceiveResult
<1>6. CASE Asked
  <2>1. PICK p \in Ack :
          /\ p.id = acks + 1 /\ acks' = acks + 1 /\ pending' = pending \cup {p}
          /\ outbox' = Append(outbox, p) /\ inbox' = inbox
    BY <1>6 DEF Asked
  <2>2. \A i \in DOMAIN Append(outbox, p) :
          \/ i \in DOMAIN outbox /\ Append(outbox, p)[i] = outbox[i]
          \/ Append(outbox, p)[i] = p
    BY <1>t, Pushed
  <2>3. \A i \in DOMAIN outbox : outbox[i].id \in Nat /\ outbox[i].id <= acks
    <3>1. \A i \in DOMAIN outbox : outbox[i] \in Ack
      BY <1>t, EachIs
    <3> QED BY <3>1 DEF Ack
  <2>4. \A i \in DOMAIN inbox : inbox[i].id \in Nat
    <3>1. \A i \in DOMAIN inbox : inbox[i] \in Frame
      BY <1>t, EachIs
    <3> QED BY <3>1 DEF Frame
  <2>5. (\A q \in pending : q.id <= acks)'
    BY <1>t, <2>1
  <2>6. (\A i \in DOMAIN outbox : outbox[i].id <= acks)'
    BY <1>t, <2>1, <2>2, <2>3
  <2>7. (\A i \in DOMAIN inbox : inbox[i].m = "result" => inbox[i].id <= acks)'
    BY <1>t, <2>1, <2>4
  <2>8. ASSUME NEW i \in DOMAIN outbox', NEW q \in pending', outbox'[i].id = q.id
        PROVE  outbox'[i] = q
    <3>1. CASE i \in DOMAIN outbox /\ outbox'[i] = outbox[i] /\ q \in pending
      BY <2>8, <3>1
    <3>2. CASE i \in DOMAIN outbox /\ outbox'[i] = outbox[i] /\ q = p
      BY <1>t, <2>1, <2>3, <2>8, <3>2
    <3>3. CASE outbox'[i] = p /\ q \in pending
      BY <1>t, <2>1, <2>8, <3>3
    <3> QED BY <2>1, <2>2, <3>1, <3>2, <3>3
  <2> QED BY <2>5, <2>6, <2>7, <2>8
<1>7. CASE Supplied
  <2>1. PICK e \in Events :
          /\ inbox' = Append(inbox, EventOf(e)) /\ UNCHANGED <<acks, pending, outbox>>
    BY <1>7 DEF Supplied
  <2>2. EventOf(e) \in Frame /\ EventOf(e).m = "event"
    BY DEF EventOf, Frame
  <2>3. \A i \in DOMAIN Append(inbox, EventOf(e)) :
          \/ i \in DOMAIN inbox /\ Append(inbox, EventOf(e))[i] = inbox[i]
          \/ Append(inbox, EventOf(e))[i] = EventOf(e)
    BY <1>t, <2>2, Pushed
  <2> QED BY <2>1, <2>2, <2>3
<1>8. CASE ServerAnswers
  <2>1. PICK yes \in BOOLEAN :
          /\ ResultOf(Head(outbox), yes) \in Frame
          /\ inbox' = Append(inbox, ResultOf(Head(outbox), yes))
    BY <1>8, AnswerIs DEF TypeInv
  <2>2. outbox # <<>> /\ outbox' = Tail(outbox) /\ UNCHANGED <<acks, pending>>
    BY <1>8 DEF ServerAnswers, acking
  <2>3. /\ Head(outbox) = outbox[1] /\ 1 \in DOMAIN outbox
        /\ \A i \in DOMAIN Tail(outbox) :
             i + 1 \in DOMAIN outbox /\ Tail(outbox)[i] = outbox[i + 1]
    BY <1>t, <2>2, Popped
  <2> DEFINE r == ResultOf(Head(outbox), yes)
  <2>4. \A i \in DOMAIN Append(inbox, r) :
          \/ i \in DOMAIN inbox /\ Append(inbox, r)[i] = inbox[i]
          \/ Append(inbox, r)[i] = r
    BY <1>t, <2>1, Pushed
  <2>5. r.id <= acks /\ inbox' = Append(inbox, r)
    BY <2>1, <2>3 DEF ResultOf
  <2> HIDE DEF r
  <2> QED BY <2>2, <2>3, <2>4, <2>5
<1> HIDE DEF IdsInv
<1> QED BY <1>1, <1>2, <1>4, <1>5, <1>6, <1>7, <1>8, StepIs

-----------------------------------------------------------------------------
(* What the server is asked about, it has out. *)

\* Only the end of a stream takes from an event what backs it.
LEMMA BackedStays ==
  ASSUME TypeInv, QuietInv, BackedInv, mode = "manual",
         Still \/ Received \/ ReceiveResult \/ Asked \/ Supplied \/ ServerAnswers,
         NEW e \in Events, e \in Backed
  PROVE  e \in Backed'
<1>t. /\ held \in [Events -> 0 .. MaxCopies] /\ settled \in [Events -> BOOLEAN]
      /\ held[e] \in Nat
  BY DEF TypeInv, AckType
<1>k. ASSUME refused \subseteq refused', held' = held, settled' = settled PROVE e \in Backed'
  BY <1>k DEF Backed, Done
<1>1. CASE Still \/ Received
  BY <1>1, <1>k DEF Still, Received
<1>2. CASE ReceiveResult
  BY <1>2, <1>k DEF ReceiveResult, server
<1>3. CASE Asked
  BY <1>3, <1>k DEF Asked
<1>4. CASE Supplied
  <2>1. PICK d \in Events :
          /\ refused' = refused /\ settled' = settled
          /\ held' = [held EXCEPT ![d] = @ + 1] \/ held' = held
    BY <1>4 DEF Supplied
  <2>2. held[e] > 0 => held'[e] > 0
    <3>1. CASE held' = held
      BY <3>1
    <3>2. CASE held' = [held EXCEPT ![d] = @ + 1] /\ d = e
      <4>1. held'[e] = held[e] + 1
        BY <1>t, <3>2
      <4> QED BY <1>t, <4>1
    <3>3. CASE held' = [held EXCEPT ![d] = @ + 1] /\ d # e
      <4>1. held'[e] = held[e]
        BY <1>t, <3>3
      <4> QED BY <4>1
    <3> QED BY <2>1, <3>1, <3>2, <3>3
  <2> QED BY <2>1, <2>2 DEF Backed, Done
<1>5. CASE ServerAnswers
  <2> DEFINE p == Head(outbox)
  <2>1. p \in Ack /\ outbox # <<>> /\ refused' = refused
    BY <1>5, AnswerIs DEF TypeInv, history
  <2>2. p.kind = "nak" => p.e \in refused
    <3>1. Head(outbox) = outbox[1] /\ 1 \in DOMAIN outbox
      BY <2>1, Popped DEF TypeInv, AckType
    <3> QED BY <3>1 DEF BackedInv
  <2>3. PICK yes \in BOOLEAN :
          /\ yes =>
               /\ held' = [held EXCEPT ![p.e] = IF @ > 0 THEN @ - 1 ELSE 0]
               /\ settled' = [settled EXCEPT ![p.e] = @ \/ (p.kind = "ack" /\ held[p.e] > 0)]
          /\ ~yes => UNCHANGED <<held, settled>>
    BY <1>5, AnswerIs DEF TypeInv, server
  <2> HIDE DEF p
  <2>4. p.e \in Events /\ p.kind \in {"ack", "nak"}
    BY <2>1 DEF Ack
  <2>5. CASE UNCHANGED <<held, settled>>
    BY <2>1, <2>5, <1>k
  <2>6. CASE /\ held' = [held EXCEPT ![p.e] = IF @ > 0 THEN @ - 1 ELSE 0]
             /\ settled' = [settled EXCEPT ![p.e] = @ \/ (p.kind = "ack" /\ held[p.e] > 0)]
    <3>1. CASE p.e # e
      <4>1. held'[e] = held[e] /\ settled'[e] = settled[e]
        BY <1>t, <2>6, <3>1
      <4> QED BY <2>1, <4>1 DEF Backed, Done
    <3>2. CASE p.e = e
      <4>1. settled'[e] = (settled[e] \/ (p.kind = "ack" /\ held[e] > 0))
        BY <1>t, <2>6, <3>2
      <4> QED BY <2>1, <2>2, <2>4, <3>2, <4>1 DEF Backed, Done
    <3> QED BY <3>1, <3>2
  <2> QED BY <2>3, <2>5, <2>6
<1> QED BY <1>1, <1>2, <1>3, <1>4, <1>5

LEMMA BackedStep ==
  ASSUME TypeInv, QuietInv, QueueInv, BackedInv, [Next]_vars
  PROVE  BackedInv'
<1>t. /\ outbox \in Seq(Ack) /\ inbox \in Seq(Frame) /\ delivered \in [Events -> Nat]
      /\ held \in [Events -> 0 .. MaxCopies] /\ refused \in SUBSET Events
  BY DEF TypeInv, AckType
<1>m. mode' = mode
  BY StepIs DEF Still, Cleared, Received, ReceiveResult, Asked, Supplied, ServerAnswers
<1>1. CASE mode # "manual"
  BY <1>m, <1>1 DEF BackedInv
<1>2. CASE mode = "manual" /\ Cleared
  <2>1. inbox' = <<>> /\ outbox' = <<>> /\ (Reading' => delivered' = NoCopies)
    BY <1>2 DEF Cleared
  <2>2. \A e \in Events : NoCopies[e] = 0
    BY DEF NoCopies
  <2> QED BY <2>1, <2>2 DEF BackedInv
<1>3. ASSUME mode = "manual",
             Still \/ Received \/ ReceiveResult \/ Asked \/ Supplied \/ ServerAnswers
      PROVE  BackedInv'
  <2>b. /\ \A i \in DOMAIN inbox : inbox[i].m = "event" => inbox[i].e \in Backed
        /\ \A i \in DOMAIN outbox :
             outbox[i].e \in Backed /\ (outbox[i].kind = "nak" => outbox[i].e \in refused)
        /\ Reading => \A e \in Events : delivered[e] > 0 => e \in Backed
    BY <1>3 DEF BackedInv
  <2>n. Backed \subseteq Backed'
    <3>1. Backed \subseteq Events
      BY <1>t DEF Backed, Done
    <3>2. \A e \in Events : e \in Backed => e \in Backed'
      BY <1>3, BackedStays
    <3> QED BY <3>1, <3>2
  <2>r. refused \subseteq refused'
    BY <1>3 DEF Still, Received, ReceiveResult, Asked, Supplied, ServerAnswers, history
  <2>1. \A i \in DOMAIN inbox' : inbox'[i].m = "event" => inbox'[i].e \in Backed'
    <3>1. CASE Still \/ Asked
      BY <2>b, <2>n, <3>1 DEF Still, Asked
    <3>2. CASE inbox # <<>> /\ inbox' = Tail(inbox)
      BY <1>t, <2>b, <2>n, <3>2, Popped
    <3>3. CASE Received \/ ReceiveResult
      BY <3>2, <3>3 DEF Received, ReceiveResult
    <3>4. CASE Supplied
      <4>1. PICK e \in Events :
              /\ inbox' = Append(inbox, EventOf(e))
              /\ held' = [held EXCEPT ![e] = @ + 1] \/ (held' = held /\ held[e] > 0)
        BY <1>3, <3>4 DEF Supplied
      <4>2. EventOf(e) \in Frame /\ EventOf(e).e = e
        BY DEF EventOf, Frame
      <4>3. held'[e] > 0
        BY <1>t, <4>1
      <4>4. e \in Backed'
        BY <4>3 DEF Backed, Done
      <4>5. \A i \in DOMAIN Append(inbox, EventOf(e)) :
              \/ i \in DOMAIN inbox /\ Append(inbox, EventOf(e))[i] = inbox[i]
              \/ Append(inbox, EventOf(e))[i] = EventOf(e)
        BY <1>t, <4>2, Pushed
      <4> QED BY <2>b, <2>n, <4>1, <4>2, <4>4, <4>5
    <3>5. CASE ServerAnswers
      <4>1. PICK yes \in BOOLEAN :
              /\ ResultOf(Head(outbox), yes) \in Frame
              /\ inbox' = Append(inbox, ResultOf(Head(outbox), yes))
        BY <3>5, AnswerIs DEF TypeInv
      <4> DEFINE r == ResultOf(Head(outbox), yes)
      <4>2. r.m = "result" /\ r \in Frame /\ inbox' = Append(inbox, r)
        BY <4>1 DEF ResultOf
      <4> HIDE DEF r
      <4>3. \A i \in DOMAIN Append(inbox, r) :
              \/ i \in DOMAIN inbox /\ Append(inbox, r)[i] = inbox[i]
              \/ Append(inbox, r)[i] = r
        BY <1>t, <4>2, Pushed
      <4> QED BY <2>b, <2>n, <4>2, <4>3
    <3> QED BY <1>3, <3>1, <3>3, <3>4, <3>5
  <2>2. \A i \in DOMAIN outbox' :
          outbox'[i].e \in Backed' /\ (outbox'[i].kind = "nak" => outbox'[i].e \in refused')
    <3>1. CASE outbox' = outbox
      BY <2>b, <2>n, <2>r, <3>1
    <3>2. CASE Asked
      <4>1. PICK p \in Ack :
              /\ outbox' = Append(outbox, p) /\ Reading /\ delivered[p.e] > 0
              /\ refused' = IF p.kind = "nak" THEN refused \cup {p.e} ELSE refused
        BY <3>2 DEF Asked
      <4>2. p.e \in Backed
        BY <2>b, <4>1 DEF Ack
      <4>3. \A i \in DOMAIN Append(outbox, p) :
              \/ i \in DOMAIN outbox /\ Append(outbox, p)[i] = outbox[i]
              \/ Append(outbox, p)[i] = p
        BY <1>t, Pushed
      <4> QED BY <2>b, <2>n, <2>r, <4>1, <4>2, <4>3
    <3>3. CASE ServerAnswers
      <4>1. outbox # <<>> /\ outbox' = Tail(outbox)
        BY <3>3 DEF ServerAnswers
      <4>2. \A i \in DOMAIN Tail(outbox) :
              i + 1 \in DOMAIN outbox /\ Tail(outbox)[i] = outbox[i + 1]
        BY <1>t, <4>1, Popped
      <4> QED BY <2>b, <2>n, <2>r, <4>1, <4>2
    <3>4. CASE Still \/ Received \/ ReceiveResult \/ Supplied
      BY <3>1, <3>4 DEF Still, Received, ReceiveResult, Supplied
    <3> QED BY <1>3, <3>2, <3>3, <3>4
  <2>3. ASSUME Reading', NEW e \in Events, delivered'[e] > 0
        PROVE  e \in Backed'
    <3>1. CASE Reading /\ delivered' = delivered
      BY <2>b, <2>n, <2>3, <3>1
    <3>2. CASE Still \/ Asked \/ Supplied \/ ServerAnswers
      BY <1>3, <2>3, <3>1, <3>2 DEF Still, Asked, Supplied, ServerAnswers, Reading, acking, control
    <3>3. CASE Received
      <4>1. /\ Reading /\ delivered' = MarkDelivered(Head(inbox).e)
            /\ inbox # <<>> /\ Head(inbox).m = "event"
        BY <1>3, <3>3 DEF Received
      <4>2. Head(inbox) = inbox[1] /\ 1 \in DOMAIN inbox
        BY <1>t, <4>1, Popped
      <4>3. Head(inbox).e \in Backed
        BY <2>b, <4>1, <4>2
      <4>4. e = Head(inbox).e \/ delivered'[e] = delivered[e]
        BY <1>t, <4>1 DEF MarkDelivered
      <4> QED BY <2>b, <2>n, <2>3, <4>1, <4>3, <4>4
    <3>4. CASE ReceiveResult
      <4>1. /\ Reading
            /\ \/ delivered' = delivered
               \/ \E d : delivered' = [delivered EXCEPT ![d] = IF @ > 1 THEN @ - 1 ELSE 0]
        BY <3>4 DEF ReceiveResult
      <4>2. delivered[e] > 0
        <5>1. CASE delivered' = delivered
          BY <2>3, <5>1
        <5>2. ASSUME NEW d, delivered' = [delivered EXCEPT ![d] = IF @ > 1 THEN @ - 1 ELSE 0]
              PROVE  delivered[e] > 0
          <6>1. delivered'[e] = delivered[e]
                \/ delivered'[e] = (IF delivered[e] > 1 THEN delivered[e] - 1 ELSE 0)
            BY <1>t, <5>2
          <6> QED BY <1>t, <2>3, <6>1
        <5> QED BY <4>1, <5>1, <5>2
      <4> QED BY <2>b, <2>n, <4>1, <4>2
    <3> QED BY <1>3, <3>2, <3>3, <3>4
  <2> QED BY <2>1, <2>2, <2>3 DEF BackedInv
<1> QED BY <1>1, <1>2, <1>3, StepIs

-----------------------------------------------------------------------------
(* What an ack is told. *)

\* Who is done stays so.
LEMMA DoneStays ==
  ASSUME TypeInv, QuietInv, QueueInv, [Next]_vars
  PROVE  Done \subseteq Done'
<1>t. settled \in [Events -> BOOLEAN] /\ refused \in SUBSET Events
  BY DEF TypeInv, AckType
<1>r. refused \subseteq refused'
  BY StepIs DEF Still, Cleared, Received, ReceiveResult, Asked, Supplied, ServerAnswers, history
<1>k. ASSUME settled' = settled PROVE Done \subseteq Done'
  BY <1>k, <1>r DEF Done
<1>1. CASE Still \/ Cleared \/ Received \/ ReceiveResult \/ Asked
  BY <1>1, <1>k DEF Still, Cleared, Received, ReceiveResult, Asked, server
<1>2. CASE Supplied
  <2>1. PICK e \in Events : settled' = settled \/ settled' = [settled EXCEPT ![e] = TRUE]
    BY <1>2 DEF Supplied
  <2>2. \A d \in Events : settled[d] => settled'[d]
    BY <1>t, <2>1
  <2> QED BY <1>r, <2>2 DEF Done
<1>3. CASE ServerAnswers
  <2> DEFINE p == Head(outbox)
             done == settled[p.e] \/ (p.kind = "ack" /\ held[p.e] > 0)
  <2>1. settled' = [settled EXCEPT ![p.e] = done] \/ settled' = settled
    BY <1>3 DEF ServerAnswers, server
  <2>2. settled[p.e] => done
    OBVIOUS
  <2> HIDE DEF p, done
  <2>3. \A d \in Events : settled[d] => settled'[d]
    BY <1>t, <2>1, <2>2
  <2> QED BY <1>r, <2>3 DEF Done
<1> QED BY <1>1, <1>2, <1>3, StepIs

LEMMA ResultStep ==
  ASSUME TypeInv, QuietInv, QueueInv, IdsInv, BackedInv, ResultInv, [Next]_vars
  PROVE  ResultInv'
<1>t. /\ outbox \in Seq(Ack) /\ inbox \in Seq(Frame) /\ acks \in Nat
      /\ held \in [Events -> 0 .. MaxCopies] /\ settled \in [Events -> BOOLEAN]
  BY DEF TypeInv, AckType
<1>d. Done \subseteq Done'
  BY DoneStays
<1>1. CASE Still
  BY <1>1, <1>d DEF Still, ResultInv
<1>2. CASE Cleared
  BY <1>2 DEF Cleared, ResultInv
<1>3. CASE Received \/ ReceiveResult
  <2>1. inbox # <<>> /\ inbox' = Tail(inbox) /\ pending' \subseteq pending
    BY <1>3 DEF Received, ReceiveResult
  <2>2. \A i \in DOMAIN Tail(inbox) : i + 1 \in DOMAIN inbox /\ Tail(inbox)[i] = inbox[i + 1]
    BY <1>t, <2>1, Popped
  <2> QED BY <1>d, <2>1, <2>2 DEF ResultInv
<1>4. CASE Asked
  <2>1. PICK p \in Ack : p.id = acks + 1 /\ pending' = pending \cup {p} /\ inbox' = inbox
    BY <1>4 DEF Asked
  <2>2. ASSUME NEW i \in DOMAIN inbox, inbox[i].m = "result"
        PROVE  inbox[i].id # p.id
    <3>1. inbox[i].id \in Nat
      <4>1. inbox[i] \in Frame
        BY <1>t, EachIs
      <4> QED BY <4>1 DEF Frame
    <3>2. inbox[i].id <= acks
      BY <2>2 DEF IdsInv
    <3> QED BY <1>t, <2>1, <3>1, <3>2
  <2> QED BY <1>d, <2>1, <2>2 DEF ResultInv
<1>5. CASE Supplied
  <2>1. PICK e \in Events : inbox' = Append(inbox, EventOf(e)) /\ pending' = pending
    BY <1>5 DEF Supplied
  <2>2. EventOf(e) \in Frame /\ EventOf(e).m = "event"
    BY DEF EventOf, Frame
  <2>3. \A i \in DOMAIN Append(inbox, EventOf(e)) :
          \/ i \in DOMAIN inbox /\ Append(inbox, EventOf(e))[i] = inbox[i]
          \/ Append(inbox, EventOf(e))[i] = EventOf(e)
    BY <1>t, <2>2, Pushed
  <2> QED BY <1>d, <2>1, <2>2, <2>3 DEF ResultInv
<1>6. CASE ServerAnswers
  <2> DEFINE p == Head(outbox)
  <2>1. p \in Ack /\ outbox # <<>> /\ pending' = pending
    BY <1>6, AnswerIs DEF TypeInv, acking
  <2>2. PICK yes \in BOOLEAN :
          /\ ResultOf(p, yes) \in Frame /\ inbox' = Append(inbox, ResultOf(p, yes))
          /\ yes => settled' = [settled EXCEPT ![p.e] = @ \/ (p.kind = "ack" /\ held[p.e] > 0)]
    BY <1>6, AnswerIs DEF TypeInv
  <2>3. p = outbox[1] /\ 1 \in DOMAIN outbox
    BY <1>t, <2>1, Popped
  <2>4. \A q \in pending : q.id = p.id => q = p
    BY <2>3 DEF IdsInv
  <2>5. p.e \in Backed
    <3>1. mode = "manual"
      BY <2>1 DEF QuietInv
    <3> QED BY <2>3, <3>1 DEF BackedInv
  <2>6. ResultOf(p, yes).id = p.id /\ ResultOf(p, yes).ok = yes
    BY DEF ResultOf
  <2> HIDE DEF p
  <2>7. ASSUME yes, p.kind = "ack" PROVE p.e \in Done'
    <3>1. p.e \in Events
      BY <2>1 DEF Ack
    <3>2. settled'[p.e] = (settled[p.e] \/ held[p.e] > 0)
      BY <1>t, <2>2, <2>7, <3>1
    <3>3. p.e \in Done \/ held[p.e] > 0
      BY <2>5 DEF Backed
    <3> QED BY <1>d, <3>1, <3>2, <3>3 DEF Done
  <2> DEFINE r == ResultOf(p, yes)
  <2>8. r \in Frame /\ inbox' = Append(inbox, r) /\ r.id = p.id /\ r.ok = yes
    BY <2>2, <2>6
  <2> HIDE DEF r
  <2>9. \A i \in DOMAIN Append(inbox, r) :
          \/ i \in DOMAIN inbox /\ Append(inbox, r)[i] = inbox[i]
          \/ Append(inbox, r)[i] = r
    BY <1>t, <2>8, Pushed
  <2>10. ASSUME NEW q \in pending, r.ok, r.id = q.id, q.kind = "ack" PROVE q.e \in Done'
    BY <2>4, <2>7, <2>8, <2>10
  <2> QED BY <1>d, <2>1, <2>8, <2>9, <2>10 DEF ResultInv
<1> QED BY <1>1, <1>2, <1>3, <1>4, <1>5, <1>6, StepIs

LEMMA ToldStep ==
  ASSUME TypeInv, QuietInv, QueueInv, ResultInv, OkMeansSettled, [Next]_vars
  PROVE  OkMeansSettled'
<1>t. told \subseteq Events /\ inbox \in Seq(Frame)
  BY DEF TypeInv, AckType
<1>1. told \subseteq Done
  BY <1>t DEF OkMeansSettled, Done
<1>d. Done \subseteq Done'
  BY DoneStays
<1>2. told' \subseteq Done'
  <2>1. CASE told' = told
    BY <1>1, <1>d, <2>1
  <2>2. CASE ReceiveResult
    <3> DEFINE r  == Head(inbox)
               of == {p \in pending : p.id = r.id}
    <3>1. /\ inbox # <<>> /\ r.m = "result"
          /\ told' = told \/ (r.ok /\ told' = told \cup {p.e : p \in {p \in of : p.kind = "ack"}})
      BY <2>2 DEF ReceiveResult
    <3>2. r = inbox[1] /\ 1 \in DOMAIN inbox
      BY <1>t, <3>1, Popped
    <3>3. ASSUME r.ok, NEW p \in pending, p.id = r.id, p.kind = "ack" PROVE p.e \in Done
      BY <3>1, <3>2, <3>3 DEF ResultInv
    <3> HIDE DEF r
    <3> QED BY <1>1, <1>d, <3>1, <3>3
  <2>3. CASE Still \/ Cleared \/ Received \/ Asked \/ Supplied \/ ServerAnswers
    BY <2>1, <2>3 DEF Still, Cleared, Received, Asked, Supplied, ServerAnswers, history
  <2> QED BY <2>2, <2>3, StepIs
<1> QED BY <1>2 DEF OkMeansSettled, Done

-----------------------------------------------------------------------------
(* Counting the frames on their way. *)

LEMMA ManyIs ==
  ASSUME NEW S, NEW s \in Seq(S), NEW M, NEW k \in Nat
  PROVE  IsFiniteSet(Places(s, M, k)) /\ Many(s, M, k) \in Nat
<1>1. Len(s) \in Int /\ k \in Int
  OBVIOUS
<1>2. IsFiniteSet(k .. Len(s))
  BY <1>1, FS_Interval
<1>3. Places(s, M, k) \subseteq k .. Len(s)
  BY DEF Places
<1> QED BY <1>2, <1>3, FS_Subset, FS_CardinalityType DEF Many

LEMMA ManyFewer ==
  ASSUME NEW S, NEW s \in Seq(S), NEW M, NEW N, NEW k \in Nat, NEW j \in Nat, j <= k,
         \A i \in k .. Len(s) : s[i] \in M => s[i] \in N
  PROVE  Many(s, M, k) <= Many(s, N, j)
<1>1. k .. Len(s) \subseteq j .. Len(s)
  OBVIOUS
<1>2. Places(s, M, k) \in SUBSET Places(s, N, j)
  BY <1>1 DEF Places
<1> QED BY <1>2, ManyIs, FS_Subset DEF Many

LEMMA ManyNone ==
  ASSUME NEW S, NEW s \in Seq(S), NEW M, NEW k \in Nat, k > Len(s)
  PROVE  Many(s, M, k) = 0
<1>1. Places(s, M, k) = {}
  BY DEF Places
<1> QED BY <1>1, FS_EmptySet DEF Many

LEMMA ManyPushed ==
  ASSUME NEW S, NEW s \in Seq(S), NEW x \in S, NEW M, NEW k \in 1 .. Len(s) + 1
  PROVE  Many(Append(s, x), M, k) = IF x \in M THEN Many(s, M, k) + 1 ELSE Many(s, M, k)
<1>l. Len(s) \in Nat /\ k \in Nat
  OBVIOUS
<1>1. /\ Len(Append(s, x)) = Len(s) + 1
      /\ \A i \in 1 .. Len(s) : Append(s, x)[i] = s[i]
      /\ Append(s, x)[Len(s) + 1] = x
  BY AppendProperties
<1>2. \A i : i \in k .. Len(s) + 1 <=> i \in k .. Len(s) \/ i = Len(s) + 1
  BY <1>l
<1>3. k .. Len(s) \subseteq 1 .. Len(s)
  OBVIOUS
<1>4. Places(Append(s, x), M, k)
        = IF x \in M THEN Places(s, M, k) \cup {Len(s) + 1} ELSE Places(s, M, k)
  <2>1. \A i : i \in Places(Append(s, x), M, k)
                 <=> i \in Places(s, M, k) \/ (i = Len(s) + 1 /\ x \in M)
    BY <1>1, <1>2, <1>3 DEF Places
  <2> QED BY <2>1
<1>5. Len(s) + 1 \notin Places(s, M, k)
  BY <1>l DEF Places
<1>6. IsFiniteSet(Places(s, M, k))
  BY <1>l, ManyIs
<1> DEFINE P == Places(s, M, k)
<1>7. Cardinality(P \cup {Len(s) + 1}) = Cardinality(P) + 1
  BY <1>5, <1>6, FS_AddElement
<1> QED BY <1>4, <1>7 DEF Many

LEMMA ManyPopped ==
  ASSUME NEW S, NEW s \in Seq(S), s # <<>>, NEW M, NEW k \in Nat \ {0}
  PROVE  Many(Tail(s), M, k) = Many(s, M, k + 1)
<1> DEFINE A == Places(s, M, k + 1)
           B == Places(Tail(s), M, k)
           f == [i \in A |-> i - 1]
<1>1. /\ Len(s) \in Nat \ {0} /\ Len(Tail(s)) = Len(s) - 1
      /\ \A i \in 1 .. Len(s) - 1 : Tail(s)[i] = s[i + 1]
  <2>1. Len(Tail(s)) = Len(s) - 1 /\ Tail(s) \in Seq(S) /\ Len(s) \in Nat \ {0}
    BY Popped
  <2>2. DOMAIN Tail(s) = 1 .. Len(s) - 1
    BY <2>1
  <2> QED BY <2>1, <2>2, Popped
<1>2. \A i \in A : i - 1 \in B /\ i \in Int
  BY <1>1 DEF Places
<1>3. \A i \in B : i + 1 \in A /\ i \in Int
  BY <1>1 DEF Places
<1> HIDE DEF A, B
<1>4. f \in [A -> B]
  BY <1>2
<1>5. \A i, j \in A : f[i] = f[j] => i = j
  BY <1>2
<1>6. \A j \in B : \E i \in A : f[i] = j
  <2>1. \A j \in B : f[j + 1] = j /\ j + 1 \in A
    BY <1>3
  <2> QED BY <2>1
<1> HIDE DEF f
<1>7. f \in Bijection(A, B)
  BY <1>4, <1>5, <1>6 DEF Bijection, Injection, Surjection, IsInjective
<1>8. IsFiniteSet(A)
  <2>1. k + 1 \in Nat
    OBVIOUS
  <2> QED BY <2>1, ManyIs DEF A
<1>9. Cardinality(B) = Cardinality(A)
  BY <1>7, <1>8, FS_Bijection DEF ExistsBijection
<1> QED BY <1>9 DEF A, B, Many

LEMMA ManyHead ==
  ASSUME NEW S, NEW s \in Seq(S), s # <<>>, NEW M
  PROVE  Many(s, M, 1) = IF Head(s) \in M THEN Many(s, M, 2) + 1 ELSE Many(s, M, 2)
<1>1. Len(s) \in Nat \ {0} /\ Head(s) = s[1]
  BY Popped
<1>2. \A i : i \in 1 .. Len(s) <=> i \in 2 .. Len(s) \/ i = 1
  BY <1>1
<1> DEFINE P == Places(s, M, 2)
<1>3. \A i : i \in Places(s, M, 1) <=> i \in P \/ (i = 1 /\ Head(s) \in M)
  BY <1>1, <1>2 DEF Places
<1>4. 1 \notin P
  BY DEF Places
<1>5. IsFiniteSet(P)
  BY ManyIs
<1> HIDE DEF P
<1>6. Cardinality(P \cup {1}) = Cardinality(P) + 1
  BY <1>4, <1>5, FS_AddElement
<1>7. Places(s, M, 1) = IF Head(s) \in M THEN P \cup {1} ELSE P
  BY <1>3
<1> QED BY <1>6, <1>7 DEF P, Many

LEMMA FramesAre ==
  ASSUME NEW e, NEW f \in Frame, NEW P
  PROVE  /\ f \in EventFrames(e) <=> f.m = "event" /\ f.e = e
         /\ f \in OkFrames(P, e) <=> /\ f.m = "result" /\ f.ok /\ f.e = e
                                     /\ \E p \in P : p.id = f.id
         /\ f \in EventFrames(e) => f \notin OkFrames(P, e)
BY DEF EventFrames, OkFrames

\* With fewer acks that wait, and more that is counted, the count is no smaller.
LEMMA CountGrows ==
  ASSUME NEW s \in Seq(Frame), NEW P, NEW Q \in SUBSET P, NEW e \in Events,
         NEW d \in [Events -> Nat], NEW k \in 1 .. Len(s) + 1
  PROVE  Count(d, s, P, e, k) <= Count(d, s, Q, e, k)
<1>1. k \in Nat /\ d[e] \in Nat
  OBVIOUS
<1>2. \A i \in k .. Len(s) : s[i] \in OkFrames(Q, e) => s[i] \in OkFrames(P, e)
  BY DEF OkFrames
<1>3. Many(s, OkFrames(Q, e), k) <= Many(s, OkFrames(P, e), k)
  BY <1>1, <1>2, ManyFewer
<1>4. /\ Many(s, EventFrames(e), k) \in Nat /\ Many(s, OkFrames(P, e), k) \in Nat
      /\ Many(s, OkFrames(Q, e), k) \in Nat
  BY <1>1, ManyIs
<1> QED BY <1>1, <1>3, <1>4 DEF Count

\* The reader counts what the first frame says, and the frame is gone.
LEMMA CountPopped ==
  ASSUME NEW s \in Seq(Frame), s # <<>>, NEW P, NEW e \in Events,
         NEW d \in [Events -> Nat], NEW n \in [Events -> Nat], NEW k \in 1 .. Len(s) + 1,
         Head(s) \in EventFrames(e) => n[e] >= d[e] + 1,
         Head(s) \in OkFrames(P, e) => n[e] >= d[e] - 1,
         Head(s) \notin OkFrames(P, e) => n[e] >= d[e]
  PROVE  \E j \in 1 .. Len(Tail(s)) + 1 : Count(d, s, P, e, k) <= Count(n, Tail(s), P, e, j)
<1> DEFINE C == EventFrames(e)
           O == OkFrames(P, e)
           t == Tail(s)
<1>t. /\ Len(s) \in Nat \ {0} /\ Len(t) = Len(s) - 1 /\ t \in Seq(Frame) /\ Head(s) \in Frame
      /\ d[e] \in Nat /\ n[e] \in Nat /\ k \in Nat \ {0}
  BY Popped
<1>f. Head(s) \in C => Head(s) \notin O
  BY <1>t, FramesAre
<1> HIDE DEF t, C, O
<1>1. CASE k = 1
  <2>1. /\ Many(s, C, 1) = IF Head(s) \in C THEN Many(s, C, 2) + 1 ELSE Many(s, C, 2)
        /\ Many(s, O, 1) = IF Head(s) \in O THEN Many(s, O, 2) + 1 ELSE Many(s, O, 2)
    BY ManyHead
  <2>2. Many(t, C, 1) = Many(s, C, 1 + 1) /\ Many(t, O, 1) = Many(s, O, 1 + 1)
    BY ManyPopped DEF t
  <2>3. Many(s, C, 2) \in Nat /\ Many(s, O, 2) \in Nat
    BY ManyIs
  <2>4. /\ Count(d, s, P, e, k) = d[e] + Many(s, C, 1) - Many(s, O, 1)
        /\ Count(n, t, P, e, 1) = n[e] + Many(t, C, 1) - Many(t, O, 1)
    BY <1>1 DEF Count, C, O
  <2>5. /\ Head(s) \in C => n[e] >= d[e] + 1
        /\ Head(s) \in O => n[e] >= d[e] - 1
        /\ Head(s) \notin O => n[e] >= d[e]
    BY DEF C, O
  <2>6. 1 + 1 = 2
    OBVIOUS
  <2>7. Count(d, s, P, e, k) <= Count(n, t, P, e, 1)
    <3>1. Count(n, t, P, e, 1) = n[e] + Many(s, C, 2) - Many(s, O, 2)
      BY <2>2, <2>4, <2>6
    <3>2. CASE Head(s) \in C
      <4>1. Count(d, s, P, e, k) = d[e] + (Many(s, C, 2) + 1) - Many(s, O, 2)
        BY <1>f, <2>1, <2>4, <3>2
      <4> QED BY <1>t, <2>3, <2>5, <3>1, <3>2, <4>1
    <3>3. CASE Head(s) \in O
      <4>1. Count(d, s, P, e, k) = d[e] + Many(s, C, 2) - (Many(s, O, 2) + 1)
        BY <1>f, <2>1, <2>4, <3>3
      <4> QED BY <1>t, <2>3, <2>5, <3>1, <3>3, <4>1
    <3>4. CASE Head(s) \notin C /\ Head(s) \notin O
      <4>1. Count(d, s, P, e, k) = d[e] + Many(s, C, 2) - Many(s, O, 2)
        BY <2>1, <2>4, <3>4
      <4> QED BY <1>t, <2>3, <2>5, <3>1, <3>4, <4>1
    <3> QED BY <3>2, <3>3, <3>4
  <2>8. 1 \in 1 .. Len(t) + 1
    BY <1>t
  <2> QED BY <2>7, <2>8 DEF t
<1>2. CASE k # 1
  <2>1. k - 1 \in Nat \ {0} /\ k - 1 \in 1 .. Len(t) + 1 /\ k - 1 + 1 = k
    BY <1>t, <1>2
  <2>2. Many(t, C, k - 1) = Many(s, C, k - 1 + 1) /\ Many(t, O, k - 1) = Many(s, O, k - 1 + 1)
    BY <2>1, ManyPopped DEF t
  <2>3. /\ Many(s, C, k) \in Nat /\ Many(s, O, k) \in Nat
    BY <1>t, ManyIs
  <2>4. Count(d, s, P, e, k) = 0 + Many(s, C, k) - Many(s, O, k)
    BY <1>2 DEF Count, C, O
  <2>5. Count(n, t, P, e, k - 1)
          = (IF k - 1 = 1 THEN n[e] ELSE 0) + Many(t, C, k - 1) - Many(t, O, k - 1)
    BY DEF Count, C, O
  <2>6. Count(d, s, P, e, k) <= Count(n, t, P, e, k - 1)
    <3>1. Many(t, C, k - 1) = Many(s, C, k) /\ Many(t, O, k - 1) = Many(s, O, k)
      BY <2>1, <2>2
    <3>2. (IF k - 1 = 1 THEN n[e] ELSE 0) \in Nat
      BY <1>t
    <3> QED BY <2>3, <2>4, <2>5, <3>1, <3>2
  <2> QED BY <2>1, <2>6 DEF t
<1> QED BY <1>1, <1>2

\* A frame more changes every count by what it says.
LEMMA CountPushed ==
  ASSUME NEW s \in Seq(Frame), NEW x \in Frame, NEW P, NEW e \in Events,
         NEW d \in [Events -> Nat], NEW k \in 1 .. Len(s) + 1
  PROVE  /\ k \in 1 .. Len(Append(s, x)) + 1
         /\ Count(d, Append(s, x), P, e, k)
              = IF x \in EventFrames(e) THEN Count(d, s, P, e, k) + 1
                ELSE IF x \in OkFrames(P, e) THEN Count(d, s, P, e, k) - 1
                ELSE Count(d, s, P, e, k)
<1> DEFINE C == EventFrames(e)
           O == OkFrames(P, e)
           t == Append(s, x)
<1>1. x \in C => x \notin O
  BY FramesAre
<1>2. Len(t) = Len(s) + 1 /\ Len(s) \in Nat /\ k \in Nat /\ d[e] \in Nat
  BY Pushed
<1> HIDE DEF C, O, t
<1>3. Many(t, C, k) = IF x \in C THEN Many(s, C, k) + 1 ELSE Many(s, C, k)
  BY ManyPushed DEF t
<1>4. Many(t, O, k) = IF x \in O THEN Many(s, O, k) + 1 ELSE Many(s, O, k)
  BY ManyPushed DEF t
<1>5. Many(s, C, k) \in Nat /\ Many(s, O, k) \in Nat
  BY <1>2, ManyIs
<1>6. /\ Count(d, s, P, e, k) = (IF k = 1 THEN d[e] ELSE 0) + Many(s, C, k) - Many(s, O, k)
      /\ Count(d, t, P, e, k) = (IF k = 1 THEN d[e] ELSE 0) + Many(t, C, k) - Many(t, O, k)
  BY DEF Count, C, O
<1>7. Count(d, t, P, e, k) = IF x \in C THEN Count(d, s, P, e, k) + 1
                             ELSE IF x \in O THEN Count(d, s, P, e, k) - 1
                             ELSE Count(d, s, P, e, k)
  BY <1>1, <1>2, <1>3, <1>4, <1>5, <1>6
<1>8. k \in 1 .. Len(t) + 1
  BY <1>2
<1> QED BY <1>7, <1>8 DEF t, C, O

\* One more than the frames is always a place to count from, and finds none.
LEMMA CountNone ==
  ASSUME NEW s \in Seq(Frame), NEW P, NEW e \in Events, NEW d \in [Events -> Nat]
  PROVE  \E k \in 1 .. Len(s) + 1 : Count(d, s, P, e, k) >= 0
<1>1. Len(s) \in Nat /\ Len(s) + 1 > Len(s) /\ Len(s) + 1 \in Nat /\ d[e] \in Nat
  OBVIOUS
<1>2. /\ Many(s, EventFrames(e), Len(s) + 1) = 0
      /\ Many(s, OkFrames(P, e), Len(s) + 1) = 0
  BY <1>1, ManyNone
<1>3. Count(d, s, P, e, Len(s) + 1) >= 0
  BY <1>1, <1>2 DEF Count
<1> QED BY <1>1, <1>3

LEMMA CountStep ==
  ASSUME TypeInv, QuietInv, QueueInv, IdsInv, CountInv, [Next]_vars
  PROVE  CountInv'
<1>t. /\ inbox \in Seq(Frame) /\ outbox \in Seq(Ack) /\ acks \in Nat
      /\ delivered \in [Events -> Nat] /\ held \in [Events -> 0 .. MaxCopies]
  BY DEF TypeInv, AckType
<1> SUFFICES ASSUME mode' = "manual", Reading', NEW e \in Events
             PROVE  \E j \in 1 .. Len(inbox') + 1 :
                      held'[e] <= Count(delivered', inbox', pending', e, j)
  BY DEF CountInv
<1>h. held[e] \in Nat
  BY <1>t
<1>k. ASSUME mode = "manual", Reading
      PROVE  \E k \in 1 .. Len(inbox) + 1 : held[e] <= Count(delivered, inbox, pending, e, k)
  BY <1>k DEF CountInv
<1>c. ASSUME NEW d \in [Events -> Nat], NEW s \in Seq(Frame), NEW P, NEW k \in 1 .. Len(s) + 1
      PROVE  Count(d, s, P, e, k) \in Int
  <2>1. k \in Nat /\ d[e] \in Nat
    OBVIOUS
  <2> QED BY <2>1, ManyIs DEF Count
<1>1. CASE Still
  <2>1. /\ mode = "manual" /\ Reading /\ pending' \in SUBSET pending
        /\ UNCHANGED <<inbox, delivered, held>>
    BY <1>1 DEF Still
  <2>2. PICK k \in 1 .. Len(inbox) + 1 : held[e] <= Count(delivered, inbox, pending, e, k)
    BY <1>k, <2>1
  <2>3. Count(delivered, inbox, pending, e, k) <= Count(delivered, inbox, pending', e, k)
    BY <1>t, <2>1, CountGrows
  <2>4. /\ Count(delivered, inbox, pending, e, k) \in Int
        /\ Count(delivered, inbox, pending', e, k) \in Int
    BY <1>t, <1>c
  <2>5. held[e] <= Count(delivered, inbox, pending', e, k)
    BY <1>h, <2>2, <2>3, <2>4
  <2> QED BY <2>1, <2>5
<1>2. CASE Cleared
  <2>1. inbox' = <<>> /\ held' = NoCopies /\ delivered' = NoCopies
    BY <1>2 DEF Cleared
  <2>2. held'[e] = 0 /\ delivered' \in [Events -> Nat] /\ inbox' \in Seq(Frame)
    BY <2>1, EmptySeq DEF NoCopies
  <2>3. \E j \in 1 .. Len(inbox') + 1 : Count(delivered', inbox', pending', e, j) >= 0
    BY <2>2, CountNone
  <2>4. \A j \in 1 .. Len(inbox') + 1 : Count(delivered', inbox', pending', e, j) \in Int
    BY <2>2, <1>c
  <2> QED BY <2>2, <2>3, <2>4
<1>3. CASE Received
  <2>1. /\ mode = "manual" /\ Reading /\ inbox # <<>> /\ Head(inbox).m = "event"
        /\ inbox' = Tail(inbox) /\ UNCHANGED <<pending, held>>
        /\ delivered' = MarkDelivered(Head(inbox).e)
    BY <1>3 DEF Received
  <2>2. Head(inbox) \in Frame /\ Tail(inbox) \in Seq(Frame)
    BY <1>t, <2>1, Popped
  <2>3. Head(inbox).e \in Events
    BY <2>2 DEF Frame
  <2>4. /\ delivered' \in [Events -> Nat]
        /\ delivered'[e] = IF e = Head(inbox).e THEN delivered[e] + 1 ELSE delivered[e]
    BY <1>t, <2>1, <2>3 DEF MarkDelivered
  <2>5. /\ Head(inbox) \in EventFrames(e) => e = Head(inbox).e
        /\ Head(inbox) \notin OkFrames(pending, e)
    BY <2>1, <2>2, FramesAre
  <2>6. PICK k \in 1 .. Len(inbox) + 1 : held[e] <= Count(delivered, inbox, pending, e, k)
    BY <1>k, <2>1
  <2>7. PICK j \in 1 .. Len(Tail(inbox)) + 1 :
          Count(delivered, inbox, pending, e, k) <= Count(delivered', Tail(inbox), pending, e, j)
    <3>1. delivered[e] \in Nat
      BY <1>t
    <3>2. /\ Head(inbox) \in EventFrames(e) => delivered'[e] >= delivered[e] + 1
          /\ delivered'[e] >= delivered[e]
      BY <2>4, <2>5, <3>1
    <3> QED BY <1>t, <2>1, <2>4, <2>5, <3>2, CountPopped
  <2>8. /\ Count(delivered, inbox, pending, e, k) \in Int
        /\ Count(delivered', Tail(inbox), pending, e, j) \in Int
    BY <1>t, <1>c, <2>2, <2>4
  <2>9. held[e] <= Count(delivered', Tail(inbox), pending, e, j)
    BY <1>h, <2>6, <2>7, <2>8
  <2> QED BY <2>1, <2>9
<1>4. CASE ReceiveResult
  <2> DEFINE r  == Head(inbox)
             of == {p \in pending : p.id = r.id}
  <2>1. /\ mode = "manual" /\ Reading /\ inbox # <<>> /\ r.m = "result"
        /\ inbox' = Tail(inbox) /\ held' = held
        /\ pending' = pending \ of
        /\ IF of # {} /\ r.ok
           THEN delivered' = [delivered EXCEPT ![r.e] = IF @ > 1 THEN @ - 1 ELSE 0]
           ELSE delivered' = delivered
    BY <1>4 DEF ReceiveResult, server
  <2>2. r \in Frame /\ Tail(inbox) \in Seq(Frame)
    BY <1>t, <2>1, Popped
  <2>3. r.e \in Events
    BY <2>2 DEF Frame
  <2>4. /\ r \notin EventFrames(e)
        /\ r \in OkFrames(pending, e) <=> r.ok /\ r.e = e /\ of # {}
    <3>1. of # {} <=> \E p \in pending : p.id = r.id
      OBVIOUS
    <3>2. r.m = "result" /\ r \in Frame
      BY <2>1, <2>2
    <3> HIDE DEF r, of
    <3> QED BY <3>1, <3>2, FramesAre
  <2>5. pending' \in SUBSET pending
    BY <2>1
  <2> DEFINE yes == of # {} /\ r.ok
  <2>6. IF yes THEN delivered' = [delivered EXCEPT ![r.e] = IF @ > 1 THEN @ - 1 ELSE 0]
        ELSE delivered' = delivered
    BY <2>1
  <2>7. r \in OkFrames(pending, e) <=> yes /\ r.e = e
    BY <2>4
  <2> HIDE DEF r, of, yes
  <2>8. /\ delivered' \in [Events -> Nat]
        /\ delivered'[e] >= delivered[e] - 1
        /\ ~(yes /\ r.e = e) => delivered'[e] = delivered[e]
    <3>1. delivered[e] \in Nat /\ delivered[r.e] \in Nat
      BY <1>t, <2>3
    <3>2. (IF delivered[r.e] > 1 THEN delivered[r.e] - 1 ELSE 0) \in Nat
      BY <3>1
    <3>3. CASE yes
      <4> DEFINE v == IF delivered[r.e] > 1 THEN delivered[r.e] - 1 ELSE 0
      <4>1. v \in Nat /\ v >= delivered[r.e] - 1
        BY <3>1
      <4>2. delivered' = [delivered EXCEPT ![r.e] = v]
        BY <2>6, <3>3
      <4> HIDE DEF v
      <4>3. /\ delivered' \in [Events -> Nat]
            /\ r.e = e => delivered'[e] = v
            /\ r.e # e => delivered'[e] = delivered[e]
        BY <1>t, <2>3, <4>1, <4>2
      <4>4. delivered'[e] >= delivered[e] - 1
        <5>1. CASE r.e = e
          BY <4>1, <4>3, <5>1
        <5>2. CASE r.e # e
          BY <3>1, <4>3, <5>2
        <5> QED BY <5>1, <5>2
      <4> QED BY <3>3, <4>3, <4>4
    <3>4. CASE ~yes
      BY <1>t, <2>6, <3>1, <3>4
    <3> QED BY <3>3, <3>4
  <2>9. PICK k \in 1 .. Len(inbox) + 1 : held[e] <= Count(delivered, inbox, pending, e, k)
    BY <1>k, <2>1
  <2>10. PICK j \in 1 .. Len(Tail(inbox)) + 1 :
          Count(delivered, inbox, pending, e, k) <= Count(delivered', Tail(inbox), pending, e, j)
    <3>1. delivered[e] \in Nat
      BY <1>t
    <3>2. /\ r \in OkFrames(pending, e) => delivered'[e] >= delivered[e] - 1
          /\ r \notin OkFrames(pending, e) => delivered'[e] >= delivered[e]
      BY <2>7, <2>8, <3>1
    <3> QED BY <1>t, <2>1, <2>4, <2>8, <3>2, CountPopped DEF r
  <2>11. Count(delivered', Tail(inbox), pending, e, j) <= Count(delivered', Tail(inbox), pending', e, j)
    BY <2>2, <2>5, <2>8, CountGrows
  <2>12. /\ Count(delivered, inbox, pending, e, k) \in Int
         /\ Count(delivered', Tail(inbox), pending, e, j) \in Int
         /\ Count(delivered', Tail(inbox), pending', e, j) \in Int
    BY <1>t, <1>c, <2>2, <2>8
  <2>13. held[e] <= Count(delivered', Tail(inbox), pending', e, j)
    BY <1>h, <2>9, <2>10, <2>11, <2>12
  <2> QED BY <2>1, <2>13
<1>5. CASE Asked
  <2>1. PICK p \in Ack :
          /\ p.id = acks + 1 /\ mode = "manual" /\ Reading
          /\ pending' = pending \cup {p} /\ UNCHANGED <<inbox, delivered, held>>
    BY <1>5 DEF Asked
  <2>2. PICK k \in 1 .. Len(inbox) + 1 : held[e] <= Count(delivered, inbox, pending, e, k)
    BY <1>k, <2>1
  <2>3. \A i \in k .. Len(inbox) :
          inbox[i] \in OkFrames(pending', e) <=> inbox[i] \in OkFrames(pending, e)
    <3> SUFFICES ASSUME NEW i \in k .. Len(inbox)
                 PROVE  inbox[i] \in OkFrames(pending', e) <=> inbox[i] \in OkFrames(pending, e)
      OBVIOUS
    <3>1. i \in DOMAIN inbox /\ inbox[i] \in Frame
      <4>1. i \in 1 .. Len(inbox)
        BY <1>t
      <4> QED BY <1>t, <4>1, ElementOfSeq
    <3>2. inbox[i].m = "result" => inbox[i].id <= acks
      BY <3>1 DEF IdsInv
    <3>3. inbox[i].id \in Nat
      BY <3>1 DEF Frame
    <3>4. inbox[i].m = "result" => inbox[i].id # p.id
      BY <1>t, <2>1, <3>2, <3>3
    <3> QED BY <2>1, <3>4 DEF OkFrames
  <2>4. Places(inbox, OkFrames(pending', e), k) = Places(inbox, OkFrames(pending, e), k)
    BY <2>3 DEF Places
  <2>5. Count(delivered, inbox, pending', e, k) = Count(delivered, inbox, pending, e, k)
    BY <2>4 DEF Count, Many
  <2> QED BY <2>1, <2>2, <2>5
<1>6. CASE Supplied
  <2>1. PICK d \in Events :
          /\ inbox' = Append(inbox, EventOf(d)) /\ UNCHANGED <<mode, phase, pending, delivered>>
          /\ mode = "manual" => \/ held' = [held EXCEPT ![d] = @ + 1]
                                \/ held' = held /\ held[d] > 0
    BY <1>6 DEF Supplied
  <2>2. mode = "manual" /\ Reading
    BY <2>1 DEF Reading
  <2>3. EventOf(d) \in Frame /\ EventOf(d).m = "event" /\ EventOf(d).e = d
    BY DEF EventOf, Frame
  <2>4. PICK k \in 1 .. Len(inbox) + 1 : held[e] <= Count(delivered, inbox, pending, e, k)
    BY <1>k, <2>2
  <2> DEFINE old == Count(delivered, inbox, pending, e, k)
             new == Count(delivered, Append(inbox, EventOf(d)), pending, e, k)
  <2>5. k \in 1 .. Len(Append(inbox, EventOf(d))) + 1
    BY <1>t, <2>3, CountPushed
  <2>6. new = IF e = d THEN old + 1 ELSE old
    <3>1. /\ EventOf(d) \in EventFrames(e) <=> e = d
          /\ EventOf(d) \notin OkFrames(pending, e)
      BY <2>3, FramesAre
    <3> QED BY <1>t, <2>3, <3>1, CountPushed
  <2>7. old \in Int
    BY <1>t, <1>c
  <2> HIDE DEF old
  <2>8. held'[e] <= (IF e = d THEN old + 1 ELSE old)
    <3>1. held'[e] = held[e] \/ (e = d /\ held'[e] = held[e] + 1)
      BY <1>t, <2>1, <2>2
    <3>2. held[e] <= old
      BY <2>4 DEF old
    <3> QED BY <1>h, <2>7, <3>1, <3>2
  <2>9. held'[e] <= new
    BY <2>6, <2>8
  <2> QED BY <2>1, <2>5, <2>9
<1>7. CASE ServerAnswers
  <2> DEFINE p == Head(outbox)
  <2>1. p \in Ack /\ outbox # <<>> /\ UNCHANGED <<mode, phase, pending, delivered>>
    BY <1>7, AnswerIs DEF TypeInv, acking, control
  <2>2. PICK yes \in BOOLEAN :
          /\ ResultOf(p, yes) \in Frame /\ inbox' = Append(inbox, ResultOf(p, yes))
          /\ yes => held' = [held EXCEPT ![p.e] = IF @ > 0 THEN @ - 1 ELSE 0]
          /\ ~yes => held' = held
    BY <1>7, AnswerIs DEF TypeInv, server
  <2>3. ResultOf(p, yes).m = "result" /\ ResultOf(p, yes).ok = yes /\ ResultOf(p, yes).e = p.e
    BY DEF ResultOf
  <2> HIDE DEF p
  <2> DEFINE r == ResultOf(p, yes)
  <2>4. /\ r \in Frame /\ inbox' = Append(inbox, r)
        /\ r \notin EventFrames(e) /\ (r \in OkFrames(pending, e) => yes /\ p.e = e)
    BY <2>2, <2>3, FramesAre
  <2> HIDE DEF r
  <2>5. mode = "manual" /\ Reading
    BY <2>1 DEF Reading
  <2>6. PICK k \in 1 .. Len(inbox) + 1 : held[e] <= Count(delivered, inbox, pending, e, k)
    BY <1>k, <2>5
  <2> DEFINE old == Count(delivered, inbox, pending, e, k)
             new == Count(delivered, Append(inbox, r), pending, e, k)
  <2>7. k \in 1 .. Len(Append(inbox, r)) + 1
    BY <1>t, <2>4, CountPushed
  <2>8. new = IF r \in OkFrames(pending, e) THEN old - 1 ELSE old
    BY <1>t, <2>4, CountPushed
  <2>9. old \in Int /\ held[e] <= old
    BY <1>t, <1>c, <2>6
  <2> HIDE DEF old, new
  <2>10. CASE held'[e] = held[e] /\ ~(yes /\ p.e = e)
    <3>1. held'[e] <= new
      BY <2>4, <2>8, <2>9, <2>10
    <3> QED BY <2>1, <2>4, <2>7, <3>1 DEF new
  <2>11. CASE yes /\ p.e = e /\ held[e] > 0
    <3>1. held'[e] = held[e] - 1
      BY <1>t, <2>2, <2>11
    <3>2. held'[e] <= new
      BY <1>h, <2>8, <2>9, <3>1
    <3> QED BY <2>1, <2>4, <2>7, <3>2 DEF new
  <2>12. CASE held'[e] = 0
    <3>1. Append(inbox, r) \in Seq(Frame)
      BY <1>t, <2>4, Pushed
    <3>2. \E j \in 1 .. Len(Append(inbox, r)) + 1 : Count(delivered, Append(inbox, r), pending, e, j) >= 0
      BY <1>t, <3>1, CountNone
    <3>3. \A j \in 1 .. Len(Append(inbox, r)) + 1 :
            Count(delivered, Append(inbox, r), pending, e, j) \in Int
      BY <1>t, <1>c, <3>1
    <3> QED BY <2>1, <2>4, <2>12, <3>2, <3>3
  <2>13. /\ ~(yes /\ p.e = e) => held'[e] = held[e]
         /\ yes /\ p.e = e => held[e] > 0 \/ held'[e] = 0
    BY <1>t, <1>h, <2>2
  <2> QED BY <2>10, <2>11, <2>12, <2>13
<1> QED BY <1>1, <1>2, <1>3, <1>4, <1>5, <1>6, <1>7, StepIs

LEMMA HeldAreCounted ==
  ASSUME TypeInv, QuietInv, CountInv
  PROVE  HeldCanBeSettled
<1> SUFFICES ASSUME Listening, mode = "manual", NEW e \in Events, held[e] > Underway(e)
             PROVE  delivered[e] > 0
  BY DEF HeldCanBeSettled
<1> DEFINE C == EventFrames(e)
           O == OkFrames(pending, e)
<1>t. inbox \in Seq(Frame) /\ delivered[e] \in Nat /\ held[e] \in Nat
  BY DEF TypeInv, AckType
<1>1. Reading
  BY DEF QuietInv, Listening, Reading
<1>2. PICK k \in 1 .. Len(inbox) + 1 : held[e] <= Count(delivered, inbox, pending, e, k)
  BY <1>1 DEF CountInv
<1>3. Underway(e) = Many(inbox, C, 1)
  <2>1. DOMAIN inbox = 1 .. Len(inbox)
    BY <1>t
  <2>2. \A i \in 1 .. Len(inbox) : inbox[i] \in C <=> inbox[i].m = "event" /\ inbox[i].e = e
    BY <1>t, <2>1, EachIs, FramesAre
  <2>3. {i \in DOMAIN inbox : inbox[i].m = "event" /\ inbox[i].e = e} = Places(inbox, C, 1)
    BY <2>1, <2>2 DEF Places
  <2> QED BY <2>3 DEF Underway, Many
<1> HIDE DEF C, O
<1>4. k \in Nat /\ 1 \in Nat /\ 1 <= k
  BY <1>t
<1>5. Many(inbox, C, k) <= Many(inbox, C, 1)
  BY <1>t, <1>4, ManyFewer
<1>6. Many(inbox, C, k) \in Nat /\ Many(inbox, O, k) \in Nat /\ Many(inbox, C, 1) \in Nat
  BY <1>t, <1>4, ManyIs
<1>7. Count(delivered, inbox, pending, e, k)
        = (IF k = 1 THEN delivered[e] ELSE 0) + Many(inbox, C, k) - Many(inbox, O, k)
  BY DEF Count, C, O
<1>8. held[e] <= (IF k = 1 THEN delivered[e] ELSE 0) + Many(inbox, C, 1)
  BY <1>t, <1>2, <1>5, <1>6, <1>7
<1> QED BY <1>t, <1>3, <1>6, <1>8

-----------------------------------------------------------------------------
(* The invariant holds of the first state, and every step keeps it. *)

LEMMA GroupInit ==
  ASSUME GroupAssumption, Init
  PROVE  GroupIInv
<1>1. MaxStreams \in Nat \ {0} /\ MaxCopies \in Nat \ {0} /\ MaxFaults \in Nat
  BY BoundsAre
<1>2. ControlType
  <2>1. mode \in {"manual", "auto"} /\ phase \in Phases
    BY DEF Init, GroupAssumption, Phases
  <2>2. stopped = FALSE /\ released = FALSE /\ closing = FALSE
        /\ stream = 1 /\ torn = {} /\ faults = 0
    BY DEF Init
  <2>3. 1 \in 1 .. MaxStreams /\ 0 \in 0 .. MaxFaults /\ {} \in SUBSET (1 .. MaxStreams)
    BY <1>1
  <2> QED BY <2>1, <2>2, <2>3 DEF ControlType
<1>3. WorkType
  BY IdleIs, EmptySeq DEF Init, WorkType
<1>4. AckType
  <2>1. NoCopies \in [Events -> Nat] /\ NoCopies \in [Events -> 0 .. MaxCopies]
    BY <1>1 DEF NoCopies
  <2>2. <<>> \in Seq(Ack) /\ <<>> \in Seq(Frame)
    BY EmptySeq
  <2>3. settled \in [Events -> BOOLEAN] /\ told = {} /\ refused = {}
    BY DEF Init
  <2> QED BY <2>1, <2>2, <2>3 DEF Init, AckType
<1>5. TornInv /\ QuietInv /\ QueueInv
  BY DEF Init, TornInv, QuietInv, QueueInv
<1>6. IdsInv /\ BackedInv /\ ResultInv /\ CountInv /\ OkMeansSettled
  BY DEF Init, IdsInv, BackedInv, ResultInv, CountInv, Reading, OkMeansSettled
<1> QED BY <1>2, <1>3, <1>4, <1>5, <1>6 DEF GroupIInv, TypeInv

LEMMA GroupStep ==
  ASSUME GroupAssumption, GroupIInv, [Next]_vars
  PROVE  GroupIInv'
<1> USE DEF GroupIInv
<1>1. TypeInv'
  BY ControlStep, WorkStep, AckStep DEF TypeInv
<1>2. TornInv' /\ QuietInv' /\ QueueInv'
  BY TornStep, QuietInvStep, QueueStep
<1>3. IdsInv' /\ BackedInv' /\ ResultInv' /\ CountInv' /\ OkMeansSettled'
  BY IdsStep, BackedStep, ResultStep, CountStep, ToldStep
<1> QED BY <1>1, <1>2, <1>3

LEMMA GroupInvariant ==
  ASSUME GroupAssumption
  PROVE  Spec => []GroupIInv
<1>1. Init => GroupIInv
  BY GroupInit
<1>2. GroupIInv /\ [Next]_vars => GroupIInv'
  BY GroupStep
<1> QED BY <1>1, <1>2, PTL DEF Spec

\* Once unsubscribe() has run, deliver() does not call the handler.
LEMMA QuietIs ==
  ASSUME [Next]_vars
  PROVE  QuietStep
<1> SUFFICES ASSUME stopped, handler.pc # "running" PROVE handler'.pc # "running"
  BY DEF QuietStep
<1>i. Idle.pc # "running" /\ \A q : [Idle EXCEPT !.pc = "gate", !.of = q].pc # "running"
  BY DEF Idle
<1>k. ASSUME handler' = handler \/ handler' = Idle
      PROVE  handler'.pc # "running"
  BY <1>i, <1>k
<1>1. CASE EndOfStream
  BY <1>1, <1>k, Woken DEF EndOfStream
<1>2. CASE ReceiveEvent
  BY <1>2, <1>i, <1>k DEF ReceiveEvent
<1>3. CASE ReceiveResult
  BY <1>3, <1>k, Woken DEF ReceiveResult
<1>4. CASE Pump
  BY <1>4, <1>i, <1>k DEF Pump
<1>5. CASE CallHandler
  BY <1>5, <1>k DEF CallHandler
<1>6. ASSUME NEW k \in {"ack", "nak"}, Settle(k) PROVE FALSE
  BY <1>6 DEF Settle
<1>7. CASE AckTimesOut
  BY <1>7, <1>k, Woken DEF AckTimesOut
<1>8. CASE UNCHANGED handler
  BY <1>8
<1>9. CASE Joined \/ JoinFails \/ Reopen \/ Release \/ Unsubscribe \/ GraceEnds \/ Exit
  BY <1>8, <1>9 DEF Joined, JoinFails, Reopen, Release, Unsubscribe, GraceEnds, Exit
<1>10. CASE StreamEnds \/ Delivered
  BY <1>1, <1>8, <1>10 DEF StreamEnds, Delivered
<1>11. ASSUME NEW e \in Events, ServerDelivers(e) \/ ServerRedelivers(e)
       PROVE  handler'.pc # "running"
  BY <1>8, <1>11 DEF ServerDelivers, ServerRedelivers
<1>12. CASE ServerAnswers
  BY <1>8, <1>12 DEF ServerAnswers
<1>13. CASE UNCHANGED vars
  BY <1>8, <1>13 DEF vars
<1> QED BY <1>2, <1>3, <1>4, <1>5, <1>6, <1>7, <1>9, <1>10, <1>11, <1>12, <1>13
        DEF Next, Read

LEMMA NoneIsLeft ==
  ASSUME TypeInv, TornInv
  PROVE  NoMemberOutlives
<1> SUFFICES ASSUME phase \in {"done", "failed"} PROVE torn = 1 .. stream
  BY DEF NoMemberOutlives
<1>1. stream \in Nat \ {0}
  BY DEF TypeInv, ControlType
<1>2. stream \in torn /\ torn \subseteq 1 .. stream /\ 1 .. stream - 1 \subseteq torn
  BY DEF TornInv
<1>3. \A i \in 1 .. stream : i \in 1 .. stream - 1 \/ i = stream
  BY <1>1
<1> QED BY <1>2, <1>3

-----------------------------------------------------------------------------
(* What the coroutines keep, what is on the wire and what the server counts    *)
(* have their types, whatever the server and unsubscribe() do                  *)
(* (consumer-group-stream.ts, consumer-group-stream-conn.ts).                  *)
THEOREM GroupTypes ==
  ASSUME GroupAssumption
  PROVE  Spec => []TypeOK
<1>1. GroupIInv => TypeOK
  BY TypeInvIsTyped DEF GroupIInv
<1> QED BY <1>1, GroupInvariant, PTL

(* An ack that resolved was applied, though the server answers OK to whatever  *)
(* it is asked to settle, unless somebody gave the event back; and no copy     *)
(* that the server waits for and that has arrived is refused as stale: the     *)
(* counts of markDelivered and resolveAck never fall behind the server's       *)
(* (consumer-group-stream-conn.ts:42-46).                                      *)
THEOREM AcksHonest ==
  ASSUME GroupAssumption
  PROVE  Spec => []AcksAreHonest
<1>1. GroupIInv => AcksAreHonest
  BY HeldAreCounted DEF GroupIInv, AcksAreHonest
<1> QED BY <1>1, GroupInvariant, PTL

(* Once the subscription has ended every stream it ever opened is reset, and   *)
(* after unsubscribe() no handler is called (run(), read() and deliver() of    *)
(* consumer-group-stream.ts).                                                  *)
THEOREM GroupIsLeft ==
  ASSUME GroupAssumption
  PROVE  Spec => GroupLeaves
<1>1. GroupIInv => NoMemberOutlives
  BY NoneIsLeft DEF GroupIInv
<1>2. GroupIInv' => NoMemberOutlives'
  BY <1>1, PTL
<1>3. GroupIInv /\ GroupIInv' /\ [Next]_vars => [QuietStep /\ NoMemberOutlives']_vars
  BY <1>2, QuietIs
<1> QED BY <1>3, GroupInvariant, PTL DEF Spec, GroupLeaves

=============================================================================
