---------------------------- MODULE CommandDedup ----------------------------
(***************************************************************************)
(* Command-level idempotency of @ironflow/node (command-dedup.ts): before  *)
(* it runs a command's handler a caller claims the command's key in a KV   *)
(* bucket, afterwards it finalizes the claim with the result, or releases  *)
(* it when the handler failed.  Callers are used as the class says: each   *)
(* tries again after an error, one try at a time, knows its own claim by a *)
(* token (isOwner), and releases only before it finalizes.                 *)
(*                                                                         *)
(* One command: keys are independent.  External: the KV bucket; its create *)
(* writes only where nothing is, its put and delete do not ask.  A request *)
(* that fails may have been applied (MaxLost), but is not applied later.   *)
(* The expiry of an entry (seven days) is left out.                        *)
(***************************************************************************)
EXTENDS Integers, FiniteSets

CONSTANTS
  Callers,        \* processes or requests that got the command, and their retries
  ClaimAttempts,  \* CLAIM_ATTEMPTS
  MaxLost,        \* bound: requests whose answer is an error
  MaxFailures     \* bound: handlers that fail

DedupAssumption ==
  /\ IsFiniteSet(Callers)
  /\ ClaimAttempts \in Nat \ {0} /\ {MaxLost, MaxFailures} \subseteq Nat

VARIABLES
  bucket,  \* bucketReady: none, pending, ready
  pc,      \* where each caller is: in tryClaim, at its handler, in finalize or release
  rounds,  \* tryClaim: create and read-back rounds left
  entry,   \* KV: nothing, a claim, or a result, and whose it is
  lost, failures

vars == <<bucket, pc, rounds, entry, lost, failures>>

Nothing     == [is |-> "nothing", by |-> {}]
Claim(c)    == [is |-> "claim", by |-> {c}]
ResultOf(c) == [is |-> "result", by |-> {c}]

Goto(c, where) == pc' = [pc EXCEPT ![c] = where]

Lose == lost < MaxLost /\ lost' = lost + 1

-----------------------------------------------------------------------------
(* ensureBucket: the first call creates the bucket, the others await it; a     *)
(* failure reaches them all, and the next call tries again.                    *)

Waiting == {c \in Callers : pc[c] = "ensuring"}

TryClaim(c) ==
  /\ pc[c] \in {"idle", "failed"}
  /\ IF bucket = "ready"
     THEN Goto(c, "creating") /\ UNCHANGED bucket
     ELSE Goto(c, "ensuring") /\ bucket' = "pending"
  /\ rounds' = [rounds EXCEPT ![c] = ClaimAttempts]
  /\ UNCHANGED <<entry, lost, failures>>

\* Created, or 409: it is there.
BucketReady ==
  /\ bucket = "pending"
  /\ bucket' = "ready"
  /\ pc' = [c \in Callers |-> IF c \in Waiting THEN "creating" ELSE pc[c]]
  /\ UNCHANGED <<rounds, entry, lost, failures>>

BucketFails ==
  /\ bucket = "pending" /\ Lose
  /\ bucket' = "none"
  /\ pc' = [c \in Callers |-> IF c \in Waiting THEN "failed" ELSE pc[c]]
  /\ UNCHANGED <<rounds, entry, failures>>

-----------------------------------------------------------------------------
(* tryClaim. *)

\* Mutant of CreateWrites: a put.
CreateOverwrites(c) == entry' = Claim(c)

CreateWrites(c) == entry' = IF entry = Nothing THEN Claim(c) ELSE entry

\* The winner goes on to its handler, a 412 to the read-back.
Create(c) ==
  /\ pc[c] = "creating"
  /\ CreateWrites(c)
  /\ Goto(c, IF entry' = entry THEN "reading" ELSE "running")
  /\ UNCHANGED <<bucket, rounds, lost, failures>>

\* Another error: the claim may have been written.
CreateFails(c) ==
  /\ pc[c] = "creating" /\ Lose
  /\ CreateWrites(c) \/ UNCHANGED entry
  /\ Goto(c, "failed")
  /\ UNCHANGED <<bucket, rounds, failures>>

\* Mutant of ReadBack: what is released is there for the taking.
ReadBackTakes(c) ==
  /\ pc[c] = "reading"
  /\ Goto(c, CASE entry \in {Claim(c), Nothing} -> "running"
               [] entry.is = "result"           -> "replayed"
               [] OTHER                         -> "told_pending")
  /\ UNCHANGED <<bucket, rounds, entry, lost, failures>>

\* Released in between (404): another round, or COMMAND_DEDUP_RACE.  The caller's
\* own orphaned claim wins; another's, and every result, is returned.
ReadBack(c) ==
  /\ pc[c] = "reading"
  /\ IF entry = Nothing
     THEN /\ rounds' = [rounds EXCEPT ![c] = @ - 1]
          /\ Goto(c, IF rounds[c] > 1 THEN "creating" ELSE "raced")
     ELSE /\ Goto(c, CASE entry = Claim(c)     -> "running"
                       [] entry.is = "result"  -> "replayed"
                       [] OTHER                -> "told_pending")
          /\ UNCHANGED rounds
  /\ UNCHANGED <<bucket, entry, lost, failures>>

ReadBackFails(c) ==
  /\ pc[c] = "reading" /\ Lose
  /\ Goto(c, "failed")
  /\ UNCHANGED <<bucket, rounds, entry, failures>>

\* A caller told that the command is pending comes back later.
ComeBack(c) == /\ pc[c] \in {"told_pending", "raced"}
               /\ Goto(c, "failed")
               /\ UNCHANGED <<bucket, rounds, entry, lost, failures>>

-----------------------------------------------------------------------------
(* The handler, and what follows it. *)

HandlerEnds(c) ==
  /\ pc[c] = "running"
  /\ \/ Goto(c, "finalizing") /\ UNCHANGED failures
     \/ failures < MaxFailures /\ failures' = failures + 1 /\ Goto(c, "releasing")
  /\ UNCHANGED <<bucket, rounds, entry, lost>>

Finalize(c) ==
  /\ pc[c] = "finalizing"
  /\ \/ entry' = ResultOf(c) /\ Goto(c, "done") /\ UNCHANGED lost
     \/ Lose /\ entry' \in {entry, ResultOf(c)} /\ Goto(c, "failed")
  /\ UNCHANGED <<bucket, rounds, failures>>

\* A 404 is as good; the caller swallows every other error and throws its own.
Release(c) ==
  /\ pc[c] = "releasing"
  /\ \/ entry' = Nothing /\ UNCHANGED lost
     \/ Lose /\ entry' \in {entry, Nothing}
  /\ Goto(c, "failed")
  /\ UNCHANGED <<bucket, rounds, failures>>

-----------------------------------------------------------------------------
Init ==
  /\ bucket = "none"
  /\ pc = [c \in Callers |-> "idle"] /\ rounds = [c \in Callers |-> 0]
  /\ entry = Nothing /\ lost = 0 /\ failures = 0

Step(c) ==
  \/ Create(c) \/ CreateFails(c) \/ ReadBack(c) \/ ReadBackFails(c)
  \/ HandlerEnds(c) \/ Finalize(c) \/ Release(c)

Next == \/ BucketReady \/ BucketFails
        \/ \E c \in Callers : TryClaim(c) \/ ComeBack(c) \/ Step(c)

Spec == Init /\ [][Next]_vars

\* Requests are answered, handlers end, and callers come back until they are done.
Fair(k, c) ==
  CASE k = 1 -> BucketReady  [] k = 2 -> TryClaim(c)
    [] k = 3 -> ComeBack(c)  [] k = 4 -> Step(c)
    [] OTHER -> FALSE

Fairness == \A k \in 1 .. 4, c \in Callers : WF_vars(Fair(k, c))

FairSpec == Spec /\ Fairness

-----------------------------------------------------------------------------
TypeOK ==
  /\ bucket \in {"none", "pending", "ready"}
  /\ pc \in [Callers -> {"idle", "ensuring", "creating", "reading", "running", "finalizing",
                         "releasing", "done", "replayed", "told_pending", "raced", "failed"}]
  /\ rounds \in [Callers -> 0 .. ClaimAttempts]
  /\ entry \in {Nothing} \cup {Claim(c) : c \in Callers} \cup {ResultOf(c) : c \in Callers}
  /\ lost \in 0 .. MaxLost /\ failures \in 0 .. MaxFailures

(* The claim is exclusive: whoever is between winning and finalizing or          *)
(* releasing holds it, whatever creates, reads and releases cross and whichever  *)
(* answers are lost (command-dedup.ts:121-151).  So a command has one runner,    *)
(* and none once it has a result.                                                *)
ClaimIsExclusive ==
  \A c \in Callers : pc[c] \in {"running", "finalizing"} => entry = Claim(c)

(* Every caller ends with the result, its own or the one it replays.             *)
Answered(c) == pc[c] \in {"done", "replayed"}

EveryCallerAnswered == \A c \in Callers : []<>Answered(c)
=============================================================================
