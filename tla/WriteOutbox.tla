---------------------------- MODULE WriteOutbox -----------------------------
(***************************************************************************)
(* What the offline write queue promises an application that uses it from  *)
(* any number of tabs: one line of writes, taken in order, each of which   *)
(* takes effect at the engine at most once and stays in the line until it  *)
(* has, or until it is set aside for the application to decide.            *)
(***************************************************************************)
EXTENDS Naturals, Sequences

CONSTANTS
  Ids,   \* writes
  Keys   \* numbers their places in line are drawn from

VARIABLES
  line,     \* tickets of the writes that wait: the lowest goes first
  aside,    \* writes set aside
  effects,  \* writes that took effect, in that order
  seen,     \* every write ever accepted
  unsure    \* writes that were set aside at least once

vars == <<line, aside, effects, seen, unsure>>

Ticket == [seq : Keys, id : Ids]

First(k) == k \in line /\ \A l \in line : k.seq <= l.seq

Last(k) == \A l \in line : l.seq < k.seq

InEffect(w) == \E i \in 1 .. Len(effects) : effects[i] = w

Init ==
  line = {} /\ aside = {} /\ effects = <<>> /\ seen = {} /\ unsure = {}

\* A write is accepted, once, at the end of the line.
Accept(k) ==
  /\ k.id \notin seen /\ Last(k)
  /\ line' = line \cup {k}
  /\ seen' = seen \cup {k.id}
  /\ UNCHANGED <<aside, effects, unsure>>

\* The first in line takes effect, never a second time.  A write that was set
\* aside may have been on its way to the engine, so it may at any moment.
TakeEffect(w) ==
  /\ ~InEffect(w)
  /\ w \in unsure \/ \E k \in line : First(k) /\ k.id = w
  /\ effects' = Append(effects, w)
  /\ UNCHANGED <<line, aside, seen, unsure>>

\* It leaves the line because it took effect ...
Complete(k) ==
  /\ First(k) /\ InEffect(k.id)
  /\ line' = line \ {k}
  /\ UNCHANGED <<aside, effects, seen, unsure>>

\* ... or is set aside.
SetAside(k) ==
  /\ First(k)
  /\ line' = line \ {k}
  /\ aside' = aside \cup {k.id}
  /\ unsure' = unsure \cup {k.id}
  /\ UNCHANGED <<effects, seen>>

\* The application puts a write back, at the end of the line.
PutBack(k) ==
  /\ k.id \in aside /\ Last(k)
  /\ line' = line \cup {k}
  /\ aside' = aside \ {k.id}
  /\ UNCHANGED <<effects, seen, unsure>>

\* Writes that were set aside are dropped, by choice or to make room.
Drop(S) ==
  /\ S \subseteq aside
  /\ aside' = aside \ S
  /\ UNCHANGED <<line, effects, seen, unsure>>

Next ==
  \/ \E k \in Ticket : Accept(k) \/ Complete(k) \/ SetAside(k) \/ PutBack(k)
  \/ \E w \in Ids : TakeEffect(w)
  \/ \E S \in SUBSET Ids : Drop(S)

Spec == Init /\ [][Next]_vars

=============================================================================
