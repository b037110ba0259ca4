--------------------------- MODULE ProjectionFold ---------------------------
(***************************************************************************)
(* What a projection promises, whatever runs it: the events it subscribes  *)
(* to are folded into its partitions once each and in order, and its cursor*)
(* says how far.                                                           *)
(***************************************************************************)
EXTENDS Naturals, Sequences

CONSTANTS
  N,         \* events, by sequence number
  Matching,  \* those the projection subscribes to
  Parts,     \* its partitions
  Part       \* the one of each event

VARIABLES
  cursor,    \* every event up to here is folded
  state      \* per partition, the events folded into it

vars == <<cursor, state>>

\* The events of partition p after c, as far as to, in order.
Between(p, c, to) ==
  LET f[n \in c .. to] ==
        IF n = c THEN <<>>
        ELSE IF n \in Matching /\ Part[n] = p THEN Append(f[n - 1], n)
        ELSE f[n - 1]
  IN  f[to]

Init ==
  /\ cursor = 0
  /\ state = [p \in Parts |-> <<>>]

\* The next events are folded, all up to some point.
Fold(to) ==
  /\ cursor < to
  /\ cursor' = to
  /\ state' = [p \in Parts |-> state[p] \o Between(p, cursor, to)]

Next == \E to \in 1 .. N : Fold(to)

Spec == Init /\ [][Next]_vars

=============================================================================
