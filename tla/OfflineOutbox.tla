---------------------------- MODULE OfflineOutbox ----------------------------
(***************************************************************************)
(* OfflineQueue as an implementation of WriteOutbox: with Web Locks, what   *)
(* the tabs do to the shared stores and to the engine is what an            *)
(* application was promised of one line of writes.                          *)
(***************************************************************************)
EXTENDS OfflineQueue

CONSTANT Keys   \* the keys the outbox store may give

ASSUME KeysAssumption == Keys \subseteq Nat

\* A record's place in line is its key; a write is set aside while it is a dead
\* letter, and may be on its way to the engine once it ever was one.
Outbox == INSTANCE WriteOutbox WITH
  Ids <- Ids, Keys <- Keys,
  line <- {[seq |-> r.seq, id |-> r.id] : r \in outbox},
  aside <- IdsOf(dead),
  effects <- applied,
  seen <- IdsOf(accepted),
  unsure <- everDead

\* The queue implements the outbox an application is promised.
OutboxSpec == Outbox!Spec

=============================================================================
