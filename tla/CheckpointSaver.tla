---------------------------- MODULE CheckpointSaver ----------------------------
(***************************************************************************)
(* IronflowSaver of @ironflow/langgraph (saver.ts): the checkpoints of a   *)
(* thread of LangGraph, kept as events of one append-only stream, which is *)
(* read page by page while others append to it, and turned into a view in  *)
(* memory.                                                                 *)
(*                                                                         *)
(* thread is what the calls mean: the state of a store that is updated at  *)
(* once.  A call whose answer is lost is made again, so every call may be  *)
(* made twice; so may a task, with another value.                          *)
(*                                                                         *)
(* Abstracted: serialization; namespaces, each of which is a thread of its *)
(* own but for the tombstones; checkpoint ids, which are ordered, are      *)
(* numbers.  External: the streams of the engine, which append an          *)
(* idempotency key once.                                                   *)
(***************************************************************************)
EXTENDS Integers, Sequences, FiniteSets, SequencesExt

CONSTANTS
  Ids, Tasks, Values,
  ReadBatch,   \* READ_BATCH
  MaxAppends   \* bound: events of the stream

SaverAssumption == /\ Ids \subseteq Nat \ {0} /\ IsFiniteSet(Ids)
                   /\ ReadBatch \in Nat \ {0} /\ MaxAppends \in Nat

VARIABLES
  stream,  \* engine: the events; the version of each is its place
  keys,    \* engine: idempotency keys it has seen
  thread,  \* history: what the calls mean, after each event
  reader,  \* readStream: whether it runs, fromVersion, and all
  begun    \* history: the length of the stream when it began

vars == <<stream, keys, thread, reader, begun>>

\* Writes of special channels (idx < 0) are not told apart.
Indices == {"plain", "special"}

NoEvent == [name |-> "deleteThread", id |-> 0, task |-> "none", idx |-> "plain", value |-> "none"]

-----------------------------------------------------------------------------
(* What the calls mean. *)

Empty == [checkpoints |-> {}, writes |-> [i \in Ids |-> <<>>]]

Now == thread[Len(thread)]

\* A write of a plain channel that a task has made stays.
Repeated(ws, w) == w.idx = "plain" /\ \E i \in DOMAIN ws : ws[i].task = w.task /\ ws[i].idx = w.idx

Meaning(t, e) ==
  CASE e.name = "put"       -> [t EXCEPT !.checkpoints = @ \cup {e.id}]
    [] e.name = "putWrites" -> [t EXCEPT !.writes[e.id] = IF Repeated(@, e) THEN @
                                                          ELSE Append(@, e)]
    [] OTHER                -> Empty

\* getTuple(): of the latest checkpoint, with the writes that wait for it.
Tuple(t) ==
  IF t.checkpoints = {} THEN [id |-> 0, writes |-> <<>>]
  ELSE LET latest == CHOOSE i \in t.checkpoints : \A j \in t.checkpoints : j <= i
       IN [id |-> latest, writes |-> t.writes[latest]]

-----------------------------------------------------------------------------
(* Appending. *)

Appended(e) ==
  /\ Len(stream) < MaxAppends
  /\ stream' = Append(stream, e)
  /\ thread' = Append(thread, Meaning(Now, e))
  /\ UNCHANGED <<reader, begun>>

\* A checkpoint that was put before is not put again, not even once it was deleted.
PutCheckpoint(id) ==
  \/ /\ id \notin keys /\ keys' = keys \cup {id}
     /\ Appended([NoEvent EXCEPT !.name = "put", !.id = id])
  \/ /\ id \in keys /\ UNCHANGED vars

PutWrites(id, task, idx, v) ==
  /\ Appended([name |-> "putWrites", id |-> id, task |-> task, idx |-> idx, value |-> v])
  /\ UNCHANGED keys

DeleteThread == Appended(NoEvent) /\ UNCHANGED keys

-----------------------------------------------------------------------------
(* Reading. *)

ReadBegins ==
  /\ reader.pc # "reading" /\ begun' = Len(stream)
  /\ reader' = [pc |-> "reading", from |-> 0, all |-> <<>>]
  /\ UNCHANGED <<stream, keys, thread>>

\* Mutant of NextFrom: the last event is read again.
NextFromLast(page) == Last(page)

NextFrom(page) == Last(page) + 1

\* One request of readStream, the versions of whose events are page.
ReadPage ==
  /\ reader.pc = "reading"
  /\ LET rest == {v \in DOMAIN stream : v >= reader.from}
         page == SetToSortSeq({v \in rest : Cardinality({u \in rest : u < v}) < ReadBatch}, <)
     IN reader' = [pc   |-> IF Len(page) < ReadBatch THEN "read" ELSE "reading",
                   from |-> IF page = <<>> THEN reader.from ELSE NextFrom(page),
                   all  |-> reader.all \o page]
  /\ UNCHANGED <<stream, keys, thread, begun>>

\* Mutant of Cutoff: the first tombstone.
CutoffFirst(all) == SelectInSeq(all, LAMBDA v : stream[v].name = "deleteThread")

\* Where the last tombstone is among the events read, or 0.
Cutoff(all) == SelectLastInSeq(all, LAMBDA v : stream[v].name = "deleteThread")

\* toTuple: the first of the same task and idx is taken.
Unique(es) ==
  LET repeats(i) == \E j \in 1 .. i - 1 : es[i].idx = "plain" /\ es[j].idx = es[i].idx
                                          /\ es[j].task = es[i].task
      kept == SelectSeq([i \in DOMAIN es |-> i], LAMBDA i : ~repeats(i))
  IN [k \in DOMAIN kept |-> es[kept[k]]]

\* materialize and toTuple, of the events read.
View(all) ==
  LET events  == [i \in 1 .. Len(all) - Cutoff(all) |-> stream[all[Cutoff(all) + i]]]
      put     == {events[i].id : i \in {k \in DOMAIN events : events[k].name = "put"}}
      of(id)  == SelectSeq(events, LAMBDA e : e.name = "putWrites" /\ e.id = id)
      latest  == CHOOSE i \in put : \A j \in put : j <= i
  IN IF put = {} THEN [id |-> 0, writes |-> <<>>]
     ELSE [id |-> latest, writes |-> Unique(of(latest))]

-----------------------------------------------------------------------------
Init ==
  /\ stream = <<>> /\ keys = {} /\ thread = <<Empty>>
  /\ reader = [pc |-> "idle", from |-> 0, all |-> <<>>] /\ begun = 0

Next ==
  \/ \E id \in Ids : \/ PutCheckpoint(id)
                     \/ \E t \in Tasks, idx \in Indices, v \in Values : PutWrites(id, t, idx, v)
  \/ DeleteThread \/ ReadBegins \/ ReadPage

Spec == Init /\ [][Next]_vars

-----------------------------------------------------------------------------
TypeOK ==
  /\ Len(stream) <= MaxAppends /\ keys \subseteq Ids /\ Len(thread) = Len(stream) + 1
  /\ reader.pc \in {"idle", "reading", "read"} /\ reader.from \in 0 .. Len(stream) + 1
  /\ begun \in 0 .. Len(stream)

(* getTuple() answers with the thread as it was at one moment while it ran,     *)
(* though it read page by page what others appended to, deleted, or put again   *)
(* (saver.ts:95-110, 264-343, 397-443).                                         *)
ReadsOneMoment ==
  reader.pc = "read" =>
    \E k \in begun .. Len(stream) : View(reader.all) = Tuple(thread[k + 1])
=============================================================================
