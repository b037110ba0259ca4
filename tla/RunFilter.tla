------------------------------- MODULE RunFilter -------------------------------
(***************************************************************************)
(* createRunVersionFilter of @ironflow/core (run-events.ts): which frames  *)
(* of runs and their steps a watcher is shown.  They arrive out of order,  *)
(* and again; the filter remembers the highest version of so many runs and *)
(* steps, those seen last, and by version Deleted that a run is gone.      *)
(*                                                                         *)
(* A frame is of an identity <<run, step>>, whose step "none" is the run   *)
(* itself; version 0 is none that can be used.  Frames outside             *)
(* `system.run.' pass, and are left out.                                   *)
(***************************************************************************)
EXTENDS Integers, Sequences, FiniteSets, SequencesExt

CONSTANTS
  Runs, Steps,
  MaxVersion,  \* bound: versions
  MaxRuns      \* identities remembered (10 000)

FilterAssumption == IsFiniteSet(Runs \cup Steps) /\ {MaxVersion, MaxRuns} \subseteq Nat \ {0}

VARIABLES
  highest,  \* the entries [key, version] in their order, the oldest first
  recent,   \* history: the identities whose frame was shown and ranked, the last first
  shown     \* history: the version shown last of each

vars == <<highest, recent, shown>>

Deleted == -1

Keys == Runs \X (Steps \cup {"none"})

Frames == {[key |-> k, version |-> v] : k \in Keys, v \in 0 .. MaxVersion}
            \cup {[key |-> <<r, "none">>, version |-> Deleted] : r \in Runs}

Run(key) == <<key[1], "none">>

-----------------------------------------------------------------------------
\* The version remembered, or 0.
Seen(key) == LET i == SelectInSeq(highest, LAMBDA e : e.key = key)
             IN IF i = 0 THEN 0 ELSE highest[i].version

\* Mutant of Keeps: a deleted run is asked for in the frames of the run only.
KeepsSteps(f) ==
  \/ f.version = Deleted
  \/ Seen(f.key) # Deleted /\ (f.version = 0 \/ f.version >= Seen(f.key))

Keeps(f) ==
  \/ f.version = Deleted
  \/ Seen(Run(f.key)) # Deleted /\ (f.version = 0 \/ f.version >= Seen(f.key))

Without(key) == SelectSeq(highest, LAMBDA e : e.key # key)

\* Mutant of Remembered: an entry keeps its place.
RememberedInPlace(f) ==
  LET i    == SelectInSeq(highest, LAMBDA e : e.key = f.key)
      next == IF i = 0 THEN Append(highest, f) ELSE [highest EXCEPT ![i] = f]
  IN IF Len(next) > MaxRuns THEN Tail(next) ELSE next

\* It moves to the end, and the first one goes when there are too many.
Remembered(f) == LET next == Append(Without(f.key), f)
                 IN IF Len(next) > MaxRuns THEN Tail(next) ELSE next

Ranks(f) == Keeps(f) /\ f.version # 0

\* A frame arrives.
Frame(f) ==
  /\ Ranks(f)
  /\ highest' = Remembered(f)
  /\ recent' = <<f.key>> \o SelectSeq(recent, LAMBDA k : k # f.key)
  /\ shown' = [shown EXCEPT ![f.key] = f.version]

\* It is dropped, or shown without a rank.
OtherFrame(f) == ~Ranks(f) /\ UNCHANGED vars

Init == highest = <<>> /\ recent = <<>> /\ shown = [k \in Keys |-> 0]

Next == \E f \in Frames : Frame(f) \/ OtherFrame(f)

Spec == Init /\ [][Next]_vars

-----------------------------------------------------------------------------
TypeOK ==
  /\ Len(highest) <= MaxRuns /\ \A i \in DOMAIN highest : highest[i] \in Frames
  /\ shown \in [Keys -> Deleted .. MaxVersion]

\* The last so many identities are remembered, as a watcher would count them.
Known(key) == LET i == SelectInSeq(recent, LAMBDA k : k = key) IN i \in 1 .. MaxRuns

Before(key) == IF Known(key) THEN shown[key] ELSE 0

(* A frame is dropped if and only if it is outdated: a later version of its     *)
(* identity was shown, or its run was shown as deleted, and at most MaxRuns     *)
(* identities were shown since then (run-events.ts:78-104).                     *)
DropsTheOutdated ==
  \A f \in Frames :
    Keeps(f) <=> \/ f.version = Deleted
                 \/ Before(Run(f.key)) # Deleted /\ (f.version = 0 \/ f.version >= Before(f.key))
=============================================================================
