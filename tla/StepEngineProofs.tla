-------------------------- MODULE StepEngineProofs --------------------------
(***************************************************************************)
(* What TLAPS proves of StepEngine, for any handlers whose names hold no   *)
(* colon: however the branches of an invocation interleave, now and in the *)
(* next invocation, an operation has one identifier, which is no other's.  *)
(* So a row of the engine is the operation's own, and none whose row is    *)
(* completed is run again.  Then how an invocation ends: that a swallowed  *)
(* yield is found out, and that compensations are run when the run has     *)
(* failed for good, all of them, and never before.                         *)
(***************************************************************************)
EXTENDS StepEngine, FiniteSetTheorems, WellFoundedInduction, TLAPS

-----------------------------------------------------------------------------
(* A handler h and what its operations are called.                         *)

OpsIn(h, s)  == IF s = 0 THEN h.root ELSE h.branches[s]
ScopesIn(h)  == {0} \cup DOMAIN h.branches
NamesIn(h)   == {o.name : o \in UNION {{OpsIn(h, s)[i] : i \in DOMAIN OpsIn(h, s)} :
                                       s \in ScopesIn(h)}}

\* An operation that has an identifier is known by its scope and its place.
OwnOps(h) == {o \in ScopesIn(h) \X (1 .. Len(Numerals)) :
                /\ o[2] \in DOMAIN OpsIn(h, o[1]) /\ OpsIn(h, o[1])[o[2]].kind \in Durable}

\* Those of one name before place `at'.
Earlier(h, s, at, name) ==
  {i \in 1 .. at - 1 : OpsIn(h, s)[i].kind \in Durable /\ OpsIn(h, s)[i].name = name}

Nth(h, s, at, name) == Cardinality(Earlier(h, s, at, name))

IdAt(h, s, name, n) == Path(s, <<h.fork>>, <<name>>, n)

IdOf(h, o) == LET name == OpsIn(h, o[1])[o[2]].name
              IN  IdAt(h, o[1], name, Nth(h, o[1], o[2], name))

UndoIdOf(name) == <<<<"compensate">>>> \o <<name>> \o <<Digit(0)>>

\* What the assumption says of the bounds, of the numerals and of the handlers.
LEMMA BoundsAre == ASSUME StepAssumption PROVE MaxAttempts \in Nat \ {0} /\ 1 \in 1 .. MaxAttempts
<1>1. MaxAttempts \in Nat \ {0}
  BY DEF StepAssumption
<1> QED BY <1>1

LEMMA NumeralsAre ==
  ASSUME StepAssumption
  PROVE  /\ Numerals \in Seq(STRING) /\ Len(Numerals) \in Nat
         /\ DOMAIN Numerals = 1 .. Len(Numerals)
         /\ \A m, n \in DOMAIN Numerals : Numerals[m] = Numerals[n] => m = n
<1>1. /\ Numerals \in Seq(STRING)
      /\ \A m, n \in DOMAIN Numerals : Numerals[m] = Numerals[n] => m = n
  BY DEF StepAssumption
<1> QED BY <1>1

LEMMA ProgramsAre ==
  ASSUME StepAssumption, NEW h \in Programs
  PROVE  h \in HandlerType /\ Len(h.branches) \in Nat /\ DOMAIN h.branches = 1 .. Len(h.branches)
<1>1. h \in HandlerType
  BY DEF StepAssumption
<1> QED BY <1>1 DEF HandlerType

LEMMA HandlerShape ==
  ASSUME StepAssumption, NoColons, NEW h \in Programs, NEW s \in ScopesIn(h)
  PROVE  /\ OpsIn(h, s) \in Seq(Operations)
         /\ Len(OpsIn(h, s)) < Len(Numerals)
         /\ s \in Nat /\ s <= Len(h.branches) /\ Len(h.branches) < Len(Numerals)
         /\ \A i \in DOMAIN OpsIn(h, s) : /\ OpsIn(h, s)[i].name \in Seq(STRING)
                                          /\ Len(OpsIn(h, s)[i].name) = 1
         /\ h.fork \in Seq(STRING)
         /\ s # 0 => Len(h.fork) = 1
<1>1. h \in HandlerType
  BY DEF StepAssumption
<1>2. /\ h.root \in Seq(Operations) /\ h.fork \in Seq(STRING)
      /\ h.branches \in Seq(Seq(Operations))
  BY <1>1 DEF HandlerType
<1>3. /\ Len(h.root) < Len(Numerals) /\ Len(h.branches) < Len(Numerals)
      /\ \A b \in DOMAIN h.branches : Len(h.branches[b]) < Len(Numerals)
  BY DEF StepAssumption
<1>4. \A o \in Operations : o.name \in Seq(STRING)
  BY DEF Operations
<1>5. CASE s = 0
  <2>1. OpsIn(h, s) = h.root
    BY <1>5 DEF OpsIn
  <2>2. \A i \in DOMAIN h.root : h.root[i] \in Operations /\ Len(h.root[i].name) = 1
    BY <1>2 DEF NoColons
  <2>3. Len(h.branches) \in Nat
    BY <1>2
  <2> QED BY <1>2, <1>3, <1>4, <1>5, <2>1, <2>2, <2>3
<1>6. CASE s # 0
  <2>1. OpsIn(h, s) = h.branches[s] /\ s \in DOMAIN h.branches
    BY <1>6 DEF OpsIn, ScopesIn
  <2>2. h.branches[s] \in Seq(Operations)
    BY <1>2, <2>1
  <2>3. /\ Len(h.fork) = 1
        /\ \A i \in DOMAIN h.branches[s] : Len(h.branches[s][i].name) = 1
    BY <2>1 DEF NoColons
  <2>4. \A i \in DOMAIN h.branches[s] : h.branches[s][i] \in Operations
    BY <2>2
  <2>5. s \in Nat /\ s <= Len(h.branches)
    BY <1>2, <2>1
  <2> QED BY <1>2, <1>3, <1>4, <2>1, <2>2, <2>3, <2>4, <2>5
<1> QED BY <1>5, <1>6

LEMMA EarlierIsFinite ==
  ASSUME StepAssumption, NoColons, NEW h \in Programs, NEW s \in ScopesIn(h),
         NEW at \in 1 .. Len(OpsIn(h, s)) + 1, NEW name
  PROVE  /\ IsFiniteSet(Earlier(h, s, at, name))
         /\ Nth(h, s, at, name) \in Nat
         /\ Nth(h, s, at, name) < Len(Numerals)
<1>1. OpsIn(h, s) \in Seq(Operations) /\ Len(OpsIn(h, s)) < Len(Numerals)
  BY HandlerShape
<1>2. Len(OpsIn(h, s)) \in Nat /\ Len(Numerals) \in Nat
  BY <1>1, NumeralsAre
<1>3. IsFiniteSet(1 .. at - 1) /\ Cardinality(1 .. at - 1) = at - 1
  <2>1. at \in Int /\ at >= 1 /\ at - 1 \in Int
    BY <1>2
  <2> QED BY <2>1, FS_Interval
<1>4. Earlier(h, s, at, name) \subseteq 1 .. at - 1
  BY DEF Earlier
<1>5. /\ IsFiniteSet(Earlier(h, s, at, name))
      /\ Cardinality(Earlier(h, s, at, name)) <= Cardinality(1 .. at - 1)
  BY <1>3, <1>4, FS_Subset
<1>6. Nth(h, s, at, name) \in Nat
  BY <1>5, FS_CardinalityType DEF Nth
<1> QED BY <1>1, <1>2, <1>3, <1>5, <1>6 DEF Nth

\* The number of one operation more.
LEMMA NthNext ==
  ASSUME StepAssumption, NoColons, NEW h \in Programs, NEW s \in ScopesIn(h),
         NEW at \in DOMAIN OpsIn(h, s), NEW name
  PROVE  Nth(h, s, at + 1, name) =
           IF OpsIn(h, s)[at].kind \in Durable /\ OpsIn(h, s)[at].name = name
           THEN Nth(h, s, at, name) + 1 ELSE Nth(h, s, at, name)
<1>1. OpsIn(h, s) \in Seq(Operations) /\ Len(OpsIn(h, s)) \in Nat
  BY HandlerShape
<1>2. at \in 1 .. Len(OpsIn(h, s)) /\ DOMAIN OpsIn(h, s) = 1 .. Len(OpsIn(h, s))
  BY <1>1
<1>3. IsFiniteSet(Earlier(h, s, at, name))
  <2>1. at \in 1 .. Len(OpsIn(h, s)) + 1
    BY <1>1, <1>2
  <2> QED BY <2>1, EarlierIsFinite
<1>7. at \notin Earlier(h, s, at, name)
  BY <1>2 DEF Earlier
<1>4. 1 .. at + 1 - 1 = (1 .. at - 1) \cup {at}
  BY <1>2
<1>5. CASE OpsIn(h, s)[at].kind \in Durable /\ OpsIn(h, s)[at].name = name
  <2>1. Earlier(h, s, at + 1, name) = Earlier(h, s, at, name) \cup {at}
    BY <1>4, <1>5 DEF Earlier
  <2> QED BY <1>3, <1>5, <1>7, <2>1, FS_AddElement DEF Nth
<1>6. CASE ~(OpsIn(h, s)[at].kind \in Durable /\ OpsIn(h, s)[at].name = name)
  <2>1. Earlier(h, s, at + 1, name) = Earlier(h, s, at, name)
    BY <1>4, <1>6 DEF Earlier
  <2> QED BY <1>6, <2>1 DEF Nth
<1> QED BY <1>5, <1>6

LEMMA NthFirst == ASSUME NEW h, NEW s, NEW name PROVE Nth(h, s, 1, name) = 0
<1>1. Earlier(h, s, 1, name) = {}
  BY DEF Earlier
<1> QED BY <1>1, FS_EmptySet DEF Nth

\* Two operations of one scope and name have different numbers.
LEMMA NthDiffers ==
  ASSUME StepAssumption, NoColons, NEW h \in Programs, NEW s \in ScopesIn(h), NEW name,
         NEW i \in Earlier(h, s, Len(OpsIn(h, s)) + 1, name),
         NEW k \in Earlier(h, s, Len(OpsIn(h, s)) + 1, name), i < k
  PROVE  Nth(h, s, i, name) < Nth(h, s, k, name)
<1>1. Len(OpsIn(h, s)) \in Nat
  BY HandlerShape
<1>2. i \in 1 .. Len(OpsIn(h, s)) /\ k \in 1 .. Len(OpsIn(h, s))
  BY <1>1 DEF Earlier
<1>3. Earlier(h, s, i, name) \subseteq Earlier(h, s, k, name)
  BY <1>2 DEF Earlier
<1>4. i \in Earlier(h, s, k, name) \ Earlier(h, s, i, name)
  BY <1>2 DEF Earlier
<1>5. IsFiniteSet(Earlier(h, s, k, name))
  BY <1>1, <1>2, EarlierIsFinite
<1>6. /\ Cardinality(Earlier(h, s, i, name)) <= Cardinality(Earlier(h, s, k, name))
      /\ Cardinality(Earlier(h, s, i, name)) # Cardinality(Earlier(h, s, k, name))
  BY <1>3, <1>4, <1>5, FS_Subset
<1>7. Nth(h, s, i, name) \in Nat /\ Nth(h, s, k, name) \in Nat
  BY <1>1, <1>2, EarlierIsFinite
<1> QED BY <1>6, <1>7 DEF Nth

-----------------------------------------------------------------------------
(* Identifiers.                                                            *)

LEMMA DigitsDiffer ==
  ASSUME StepAssumption, NEW m \in Nat, NEW n \in Nat, m < Len(Numerals), n < Len(Numerals),
         Digit(m) = Digit(n)
  PROVE  m = n
<1>1. m + 1 \in DOMAIN Numerals /\ n + 1 \in DOMAIN Numerals
  BY NumeralsAre
<1>2. Numerals[m + 1] = Numerals[n + 1]
  BY DEF Digit
<1> QED BY <1>1, <1>2, NumeralsAre

LEMMA IdShape ==
  ASSUME NEW h, NEW s, NEW name, NEW n
  PROVE  /\ s = 0 => /\ Len(IdAt(h, s, name, n)) = 2
                     /\ IdAt(h, s, name, n)[1] = name
                     /\ IdAt(h, s, name, n)[2] = Digit(n)
         /\ s # 0 => /\ Len(IdAt(h, s, name, n)) = 4
                     /\ IdAt(h, s, name, n)[2] = Digit(s - 1)
                     /\ IdAt(h, s, name, n)[3] = name
                     /\ IdAt(h, s, name, n)[4] = Digit(n)
<1> DEFINE S == {h.fork, Digit(s - 1), name, Digit(n)}
<1>1. <<name>> \in Seq(S) /\ <<Digit(n)>> \in Seq(S) /\ <<h.fork>> \in Seq(S)
      /\ <<Digit(s - 1)>> \in Seq(S) /\ <<>> \in Seq(S)
  OBVIOUS
<1> HIDE DEF S
<1>2. CASE s = 0
  BY <1>1, <1>2 DEF IdAt, Path
<1>3. CASE s # 0
  BY <1>1, <1>3 DEF IdAt, Path
<1> QED BY <1>2, <1>3

LEMMA UndoIdShape == ASSUME NEW name PROVE Len(UndoIdOf(name)) = 3
<1> DEFINE S == {<<"compensate">>, name, Digit(0)}
<1>1. <<<<"compensate">>>> \in Seq(S) /\ <<name>> \in Seq(S) /\ <<Digit(0)>> \in Seq(S)
  OBVIOUS
<1> HIDE DEF S
<1> QED BY <1>1 DEF UndoIdOf

LEMMA OwnShape ==
  ASSUME StepAssumption, NoColons, NEW h \in Programs, NEW o \in OwnOps(h)
  PROVE  /\ o[1] \in ScopesIn(h) /\ o[2] \in 1 .. Len(OpsIn(h, o[1])) /\ o = <<o[1], o[2]>>
         /\ o # NoOp /\ o[2] \in Nat
         /\ o[2] \in Earlier(h, o[1], Len(OpsIn(h, o[1])) + 1, OpsIn(h, o[1])[o[2]].name)
         /\ Len(IdOf(h, o)) = (IF o[1] = 0 THEN 2 ELSE 4) /\ IdOf(h, o) # None
<1>1. /\ o \in ScopesIn(h) \X (1 .. Len(Numerals)) /\ o[2] \in DOMAIN OpsIn(h, o[1])
      /\ OpsIn(h, o[1])[o[2]].kind \in Durable /\ Len(Numerals) \in Nat
  BY NumeralsAre DEF OwnOps
<1>2. o[1] \in ScopesIn(h) /\ o[2] \in Nat /\ o = <<o[1], o[2]>>
  BY <1>1
<1>3. OpsIn(h, o[1]) \in Seq(Operations)
  BY <1>2, HandlerShape
<1>4. o[2] \in 1 .. Len(OpsIn(h, o[1])) /\ Len(OpsIn(h, o[1])) \in Nat
  BY <1>1, <1>3
<1> DEFINE name == OpsIn(h, o[1])[o[2]].name
           nth  == Nth(h, o[1], o[2], name)
<1>5. Len(IdOf(h, o)) = IF o[1] = 0 THEN 2 ELSE 4
  <2>1. IdOf(h, o) = IdAt(h, o[1], name, nth)
    BY DEF IdOf
  <2> HIDE DEF name, nth
  <2>2. CASE o[1] = 0
    BY <2>1, <2>2, IdShape
  <2>3. CASE o[1] # 0
    BY <2>1, <2>3, IdShape
  <2> QED BY <2>2, <2>3
<1>6. o # NoOp
  BY <1>2, <1>4 DEF NoOp
<1>7. o[2] \in Earlier(h, o[1], Len(OpsIn(h, o[1])) + 1, OpsIn(h, o[1])[o[2]].name)
  BY <1>1, <1>4 DEF Earlier
<1>8. IdOf(h, o) # None
  BY <1>5 DEF None
<1> QED BY <1>2, <1>4, <1>5, <1>6, <1>7, <1>8

\* The identifier of an operation is no other's.
LEMMA IdsDiffer ==
  ASSUME StepAssumption, NoColons, NEW h \in Programs, NEW o \in OwnOps(h), NEW q \in OwnOps(h),
         IdOf(h, o) = IdOf(h, q)
  PROVE  o = q
<1> DEFINE name(x) == OpsIn(h, x[1])[x[2]].name
           nth(x) == Nth(h, x[1], x[2], name(x))
<1>1. ASSUME NEW x \in OwnOps(h)
      PROVE  nth(x) \in Nat /\ nth(x) < Len(Numerals)
  <2>1. x[1] \in ScopesIn(h) /\ x[2] \in 1 .. Len(OpsIn(h, x[1])) + 1
    BY OwnShape, HandlerShape
  <2> QED BY <2>1, EarlierIsFinite
<1>2. ASSUME NEW x \in OwnOps(h)
      PROVE  IdOf(h, x) = IdAt(h, x[1], name(x), nth(x))
  BY DEF IdOf
<1>3. o[1] \in ScopesIn(h) /\ q[1] \in ScopesIn(h) /\ o = <<o[1], o[2]>> /\ q = <<q[1], q[2]>>
  BY OwnShape
<1>4. /\ o[1] \in Nat /\ o[1] <= Len(h.branches) /\ q[1] \in Nat /\ q[1] <= Len(h.branches)
      /\ Len(h.branches) \in Nat /\ Len(h.branches) < Len(Numerals) /\ Len(Numerals) \in Nat
  <2>1. Len(Numerals) \in Nat
    BY NumeralsAre
  <2>2. Len(h.branches) \in Nat
    BY ProgramsAre
  <2> QED BY <2>1, <2>2, <1>3, HandlerShape
<1>5. o[1] = 0 <=> q[1] = 0
  <2>1. /\ Len(IdOf(h, o)) = (IF o[1] = 0 THEN 2 ELSE 4)
        /\ Len(IdOf(h, q)) = (IF q[1] = 0 THEN 2 ELSE 4)
    BY OwnShape
  <2> QED BY <2>1
<1> HIDE DEF name, nth
<1>6. name(o) = name(q) /\ Digit(nth(o)) = Digit(nth(q))
  BY <1>2, <1>5, IdShape
<1>7. nth(o) = nth(q)
  BY <1>1, <1>6, DigitsDiffer
<1>8. o[1] = q[1]
  <2>1. CASE o[1] = 0
    BY <2>1, <1>5
  <2>2. CASE o[1] # 0
    <3>1. Digit(o[1] - 1) = Digit(q[1] - 1)
      BY <1>2, <1>5, <2>2, IdShape
    <3>2. o[1] - 1 \in Nat /\ q[1] - 1 \in Nat
      BY <1>4, <1>5, <2>2
    <3>3. o[1] - 1 = q[1] - 1
      BY <1>4, <3>1, <3>2, DigitsDiffer
    <3> QED BY <1>4, <3>3
  <2> QED BY <2>1, <2>2
<1>9. o[2] = q[2]
  <2> DEFINE all == Earlier(h, o[1], Len(OpsIn(h, o[1])) + 1, name(o))
  <2>1. o[2] \in all /\ q[2] \in all /\ o[2] \in Nat /\ q[2] \in Nat
    BY <1>6, <1>8, OwnShape DEF name
  <2>2. nth(o) = Nth(h, o[1], o[2], name(o)) /\ nth(q) = Nth(h, o[1], q[2], name(o))
    BY <1>6, <1>8 DEF nth
  <2>3. ~(o[2] < q[2])
    <3>1. ASSUME o[2] < q[2] PROVE nth(o) < nth(q)
      BY <1>3, <2>1, <2>2, <3>1, NthDiffers
    <3> QED BY <1>1, <1>7, <3>1
  <2>4. ~(q[2] < o[2])
    <3>1. ASSUME q[2] < o[2] PROVE nth(q) < nth(o)
      BY <1>3, <2>1, <2>2, <3>1, NthDiffers
    <3> QED BY <1>1, <1>7, <3>1
  <2> QED BY <2>1, <2>3, <2>4
<1> QED BY <1>3, <1>8, <1>9

-----------------------------------------------------------------------------
(* The invariant.                                                          *)

RowStatuses    == {"completed", "failed", "timed_out"}
ResultStatuses == {"completed", "bad", "failed", "undone", "not undone", "kept"}

\* What is stored for an operation is stored under its identifier, and what is
\* stored for none is of a compensation.
GoodPair(h, id, op) == IF op = NoOp THEN Len(id) = 3 ELSE op \in OwnOps(h) /\ id = IdOf(h, op)

Ids(h) == {None} \cup {IdOf(h, o) : o \in OwnOps(h)}

Results(h) ==
  {r \in [id : Ids(h) \cup {UndoIdOf(name) : name \in NamesIn(h)},
          op : OwnOps(h) \cup {NoOp}, status : ResultStatuses] : GoodPair(h, r.id, r.op)}

ScopeStates(h) ==
  [at : Nat, st : {"off", "ready", "body", "forked", "threw", "over", "skipped"},
   why : {"none", "ok", "yield", "swallowed", "retry", "fatal"}, id : Ids(h)]

RunTypes ==
  /\ prog \in Programs
  /\ attempt \in 1 .. MaxAttempts /\ over \in {"no", "completed", "failed", "paused"}
  /\ phase \in {"none", "running", "undoing", "answered"}

ScopeTypes ==
  /\ scope \in [ScopesIn(prog) -> ScopeStates(prog)]
  /\ \A s \in ScopesIn(prog) : scope[s].at \in 1 .. Len(OpsIn(prog, s)) + 1

ContextTypes ==
  /\ counts \in [ScopesIn(prog) -> [NamesIn(prog) -> Nat]]
  /\ pending \in [ScopesIn(prog) -> BOOLEAN]
  /\ failed \in BOOLEAN /\ cancelled \in BOOLEAN /\ undos \in Seq(NamesIn(prog))

\* The rows of the engine, the steps of the invocation and of the response on its way.
ResultTypes ==
  /\ steps \in Seq(Results(prog))
  /\ response \in [status : {"none", "completed", "yielded", "failed"}, retryable : BOOLEAN,
                   steps : {response.steps}, id : Ids(prog)]
  /\ \A i \in DOMAIN response.steps : /\ i \in DOMAIN steps /\ response.steps[i] = steps[i]
                                      /\ steps[i].status # "bad"
  /\ \A id \in DOMAIN rows : rows[id].status \in RowStatuses /\ GoodPair(prog, id, rows[id].op)
  /\ phase # "none" =>
       \A i \in DOMAIN steps : steps[i].status = "kept" => ShouldSkipStep(steps[i].id)

TypeInv == RunTypes /\ ScopeTypes /\ ContextTypes /\ ResultTypes

Own(s) == <<s, scope[s].at>>

\* Where a scope is: which operation it awaits, or ended at.  The branches are off
\* until the root forks, once.
PlaceInv ==
  /\ \A s \in ScopesIn(prog) :
       /\ scope[s].st = "body" => Own(s) \in OwnOps(prog) /\ scope[s].id = IdOf(prog, Own(s))
       /\ scope[s].st = "forked" => /\ s = 0 /\ scope[0].at \in DOMAIN prog.root
                                    /\ prog.root[scope[0].at].kind = "parallel"
       /\ scope[s].why = "yield" => scope[s].st \in {"threw", "over"}
  /\ phase = "running" =>
       \A i \in DOMAIN prog.root :
         /\ prog.root[i].kind = "parallel"
         /\ scope[0].at < i \/ (scope[0].at = i /\ scope[0].st = "ready")
         => \A b \in DOMAIN prog.branches : scope[b].st = "off"

\* What a branch's identifier is of, and what a yield waits for: the root's for an
\* operation of its own, or of a branch.
YieldInv ==
  /\ \A b \in DOMAIN prog.branches :
       /\ scope[b].id = None \/ \E o \in OwnOps(prog) : o[1] = b /\ scope[b].id = IdOf(prog, o)
       /\ scope[b].why = "yield" => Own(b) \in OwnOps(prog) /\ scope[b].id = IdOf(prog, Own(b))
  /\ scope[0].why = "yield" =>
       \/ Own(0) \in OwnOps(prog) /\ scope[0].id = IdOf(prog, Own(0))
       \/ \E b \in DOMAIN prog.branches : scope[b].why = "yield" /\ scope[b].id = scope[0].id

\* A scope in which nothing was swallowed has numbered what came before.
Numbered(s) ==
  LET past == IF scope[s].st = "body" THEN scope[s].at + 1 ELSE scope[s].at
  IN  scope[s].st \in {"off", "ready", "body", "forked"} =>
        \A name \in NamesIn(prog) : counts[s][name] = Nth(prog, s, past, name)

CountInv == phase = "running" => \A s \in ScopesIn(prog) : Clear(s) => Numbered(s)

\* What the run waits for is what the root yielded for.
AwaitInv ==
  /\ phase = "answered" /\ response.status = "yielded" =>
       scope[0].why = "yield" /\ response.id = scope[0].id
  /\ awaited # None => phase = "none" /\ scope[0].why = "yield" /\ awaited = scope[0].id
  /\ resume.kind # "none" => resume.id \in DOMAIN rows

\* The outputs handed out, and the effects of this invocation.
MemoInv ==
  /\ MemoIsOwn
  /\ phase = "running" =>
       \A o \in began : o \in OwnOps(prog) /\ ~ShouldSkipStep(IdOf(prog, o))

StepInv == TypeInv /\ PlaceInv /\ YieldInv /\ CountInv /\ AwaitInv /\ MemoInv

-----------------------------------------------------------------------------
(* The operation a scope is at.                                            *)

LEMMA ScopesAre ==
  /\ Scopes = ScopesIn(prog) /\ Branches = DOMAIN prog.branches /\ Names = NamesIn(prog)
  /\ \A s : Ops(s) = OpsIn(prog, s)
  /\ \A s : Here(s) = OpsIn(prog, s)[scope[s].at]
BY DEF Scopes, Branches, ScopesIn, Names, NamesIn, Ops, OpsIn, Here

LEMMA HereShape ==
  ASSUME StepAssumption, NoColons, RunTypes, ScopeTypes, NEW s \in Scopes,
         scope[s].at \in DOMAIN Ops(s)
  PROVE  /\ s \in ScopesIn(prog) /\ scope[s].at \in DOMAIN OpsIn(prog, s)
         /\ scope[s].at + 1 \in 1 .. Len(OpsIn(prog, s)) + 1
         /\ Here(s) = OpsIn(prog, s)[scope[s].at] /\ Here(s) \in Operations
         /\ Here(s).name \in NamesIn(prog)
         /\ Here(s).name \in Seq(STRING) /\ Len(Here(s).name) = 1
         /\ Here(s).kind \in Durable =>
              /\ Own(s) \in OwnOps(prog)
              /\ IdOf(prog, Own(s)) = IdAt(prog, s, Here(s).name,
                                          Nth(prog, s, scope[s].at, Here(s).name))
<1>1. s \in ScopesIn(prog) /\ Ops(s) = OpsIn(prog, s) /\ prog \in Programs
      /\ Here(s) = OpsIn(prog, s)[scope[s].at] /\ scope[s].at \in DOMAIN OpsIn(prog, s)
  BY ScopesAre DEF RunTypes
<1>2. OpsIn(prog, s) \in Seq(Operations) /\ Len(OpsIn(prog, s)) < Len(Numerals)
  BY <1>1, HandlerShape
<1>3. Here(s).name \in Seq(STRING) /\ Len(Here(s).name) = 1
  BY <1>1, HandlerShape
<1>4. Here(s).name \in NamesIn(prog)
  BY <1>1 DEF NamesIn
<1>5. scope[s].at \in 1 .. Len(Numerals) /\ scope[s].at + 1 \in 1 .. Len(OpsIn(prog, s)) + 1
  <2>1. Len(Numerals) \in Nat
    BY NumeralsAre
  <2> QED BY <1>1, <1>2, <2>1
<1>6. Here(s).kind \in Durable => Own(s) \in OwnOps(prog)
  BY <1>1, <1>5 DEF Own, OwnOps
<1>7. Own(s)[1] = s /\ Own(s)[2] = scope[s].at
  BY DEF Own
<1>8. IdOf(prog, Own(s)) = IdAt(prog, s, Here(s).name, Nth(prog, s, scope[s].at, Here(s).name))
  BY <1>1, <1>7 DEF IdOf
<1> QED BY <1>1, <1>2, <1>3, <1>4, <1>5, <1>6, <1>8

\* A name without a colon is one part, whether it is escaped or not.
LEMMA OnePart ==
  ASSUME NEW name \in Seq(STRING), Len(name) = 1
  PROVE  Escaped(name) = <<name>> /\ Unescaped(name) = <<name>>
<1>1. DOMAIN name = 1 .. 1 /\ name = <<name[1]>>
  OBVIOUS
<1>2. Unescaped(name) = [i \in 1 .. 1 |-> <<name[i]>>]
  BY <1>1 DEF Unescaped
<1>3. [i \in 1 .. 1 |-> <<name[i]>>] = <<<<name[1]>>>>
  OBVIOUS
<1> QED BY <1>1, <1>2, <1>3 DEF Escaped

LEMMA GenerateIs ==
  ASSUME StepAssumption, NoColons, RunTypes, NEW s \in Scopes,
         NEW name \in Seq(STRING), Len(name) = 1
  PROVE  GenerateStepId(s, name) = IdAt(prog, s, name, counts[s][name])
<1>1. Escaped(name) = <<name>> /\ Unescaped(name) = <<name>>
  BY OnePart
<1>2. s # 0 => Escaped(prog.fork) = <<prog.fork>> /\ Unescaped(prog.fork) = <<prog.fork>>
  <2>1. s \in ScopesIn(prog) /\ prog \in Programs
    BY ScopesAre DEF RunTypes
  <2>2. prog.fork \in Seq(STRING) /\ (s # 0 => Len(prog.fork) = 1)
    BY <2>1, HandlerShape
  <2> QED BY <2>2, OnePart
<1>3. /\ Path(s, Escaped(prog.fork), <<name>>, counts[s][name]) = IdAt(prog, s, name, counts[s][name])
      /\ Path(s, Unescaped(prog.fork), <<name>>, counts[s][name]) = IdAt(prog, s, name, counts[s][name])
  <2>1. CASE s = 0
    BY <2>1 DEF Path, IdAt
  <2>2. CASE s # 0
    BY <1>2, <2>2 DEF IdAt
  <2> QED BY <2>1, <2>2
<1> QED BY <1>1, <1>3 DEF GenerateStepId, PreferLegacyStepId

\* An operation that may start is given its own identifier.
LEMMA GeneratesOwn ==
  ASSUME StepAssumption, NoColons, StepInv, NEW s \in Scopes, NEW kinds \in SUBSET Durable,
         Ready(s, kinds), Clear(s)
  PROVE  /\ Here(s).kind \in Durable /\ Own(s) \in OwnOps(prog)
         /\ GenerateStepId(s, Here(s).name) = IdOf(prog, Own(s))
<1>1. /\ phase = "running" /\ scope[s].st = "ready" /\ scope[s].at \in DOMAIN Ops(s)
      /\ Here(s).kind \in Durable /\ RunTypes /\ ScopeTypes
  BY DEF Ready, StepInv, TypeInv
<1>2. /\ Own(s) \in OwnOps(prog) /\ s \in ScopesIn(prog) /\ Here(s).name \in NamesIn(prog)
      /\ IdOf(prog, Own(s)) = IdAt(prog, s, Here(s).name,
                                  Nth(prog, s, scope[s].at, Here(s).name))
  BY <1>1, HereShape
<1>3. GenerateStepId(s, Here(s).name) = IdAt(prog, s, Here(s).name, counts[s][Here(s).name])
  BY <1>1, HereShape, GenerateIs
<1>4. counts[s][Here(s).name] = Nth(prog, s, scope[s].at, Here(s).name)
  BY <1>1, <1>2 DEF StepInv, CountInv, Numbered
<1> QED BY <1>1, <1>2, <1>3, <1>4

-----------------------------------------------------------------------------
(* One operation of one scope.                                             *)

\* Scope s is somewhere else, and no other is.
Goes(s, at, st, why, id) ==
  /\ scope' \in [ScopesIn(prog) -> ScopeStates(prog)]
  /\ \A t \in ScopesIn(prog) : t # s => scope'[t] = scope[t]
  /\ scope'[s].at = at /\ scope'[s].st = st /\ scope'[s].why = why /\ scope'[s].id = id

Errors == {"swallowed", "retry", "fatal"}

LEMMA Advanced ==
  ASSUME ScopeTypes, NEW s \in ScopesIn(prog), Advance(s)
  PROVE  Goes(s, scope[s].at + 1, "ready", scope[s].why, scope[s].id)
<1>1. scope \in [ScopesIn(prog) -> ScopeStates(prog)]
  BY DEF ScopeTypes
<1>2. scope' = [scope EXCEPT ![s].at = @ + 1, ![s].st = "ready"]
  BY DEF Advance
<1>3. ASSUME NEW r \in ScopeStates(prog)
      PROVE  [r EXCEPT !.at = r.at + 1, !.st = "ready"] \in ScopeStates(prog)
  <2>1. r.at + 1 \in Nat
    BY DEF ScopeStates
  <2> QED BY <2>1 DEF ScopeStates
<1>4. scope' \in [ScopesIn(prog) -> ScopeStates(prog)]
  <2>1. scope' = [scope EXCEPT ![s] = [scope[s] EXCEPT !.at = scope[s].at + 1, !.st = "ready"]]
    BY <1>1, <1>2
  <2> QED BY <1>1, <1>3, <2>1
<1>5. \A t \in ScopesIn(prog) : t # s => scope'[t] = scope[t]
  BY <1>1, <1>2
<1>6. /\ scope'[s].at = scope[s].at + 1 /\ scope'[s].st = "ready"
      /\ scope'[s].why = scope[s].why /\ scope'[s].id = scope[s].id
  BY <1>1, <1>2 DEF ScopeStates
<1> QED BY <1>4, <1>5, <1>6 DEF Goes

LEMMA Thrown ==
  ASSUME ScopeTypes, NEW s \in ScopesIn(prog), NEW error \in Errors, Throw(s, error)
  PROVE  \/ Advance(s)
         \/ Goes(s, scope[s].at, "threw", error, scope[s].id)
<1>1. scope \in [ScopesIn(prog) -> ScopeStates(prog)]
  BY DEF ScopeTypes
<1> SUFFICES ASSUME ~Advance(s)
             PROVE  Goes(s, scope[s].at, "threw", error, scope[s].id)
  OBVIOUS
<1>2. scope' = [scope EXCEPT ![s].st = "threw", ![s].why = error]
  BY DEF Throw
<1>3. ASSUME NEW r \in ScopeStates(prog)
      PROVE  [r EXCEPT !.st = "threw", !.why = error] \in ScopeStates(prog)
  BY DEF ScopeStates, Errors
<1>4. scope' \in [ScopesIn(prog) -> ScopeStates(prog)]
  <2>1. scope' = [scope EXCEPT ![s] = [scope[s] EXCEPT !.st = "threw", !.why = error]]
    BY <1>1, <1>2
  <2> QED BY <1>1, <1>3, <2>1
<1>5. \A t \in ScopesIn(prog) : t # s => scope'[t] = scope[t]
  BY <1>1, <1>2
<1>6. /\ scope'[s].at = scope[s].at /\ scope'[s].st = "threw"
      /\ scope'[s].why = error /\ scope'[s].id = scope[s].id
  BY <1>1, <1>2 DEF ScopeStates
<1> QED BY <1>4, <1>5, <1>6 DEF Goes

\* It went on, threw, yielded or awaits its body: the last two under its own identifier.
Moved(s) ==
  \/ Goes(s, scope[s].at + 1, "ready", scope[s].why, scope[s].id)
  \/ \E error \in Errors : Goes(s, scope[s].at, "threw", error, scope[s].id)
  \/ /\ Own(s) \in OwnOps(prog)
     /\ \/ Goes(s, scope[s].at, "threw", "yield", IdOf(prog, Own(s)))
        \/ Goes(s, scope[s].at, "body", scope[s].why, IdOf(prog, Own(s)))

\* A guard forgets nothing, and no scope counts for another.
GuardStep ==
  /\ failed' \in BOOLEAN /\ (failed => failed')
  /\ pending' \in [ScopesIn(prog) -> BOOLEAN]
  /\ \A t \in ScopesIn(prog) : pending[t] => pending'[t]

CountStep(s) ==
  /\ counts' \in [ScopesIn(prog) -> [NamesIn(prog) -> Nat]]
  /\ \A t \in ScopesIn(prog) : t # s => counts'[t] = counts[t]
  /\ Clear(s)' => Numbered(s)'

\* The discipline of an operation of scope s.
OperationStep(s) ==
  /\ phase = "running" /\ scope[s].st \in {"ready", "body"}
  /\ scope[s].at \in DOMAIN OpsIn(prog, s)
  /\ UNCHANGED <<run, phase, response, cancelled>>
  /\ Moved(s) /\ GuardStep /\ CountStep(s)
  /\ steps' = steps \/ \E r \in Results(prog) : r.status # "kept" /\ steps' = Append(steps, r)
  /\ undos' \in Seq(NamesIn(prog))
  /\ MemoIsOwn'
  /\ \A o \in began' : o \in OwnOps(prog) /\ ~ShouldSkipStep(IdOf(prog, o))

LEMMA GuardKept == ASSUME ContextTypes, UNCHANGED <<failed, pending>> PROVE GuardStep
BY DEF ContextTypes, GuardStep

LEMMA FailureNoted ==
  ASSUME ContextTypes, NEW s \in ScopesIn(prog), NoteFailure(s), UNCHANGED pending
  PROVE  GuardStep
<1>1. pending[s] \in BOOLEAN
  BY DEF ContextTypes
<1> QED BY <1>1 DEF ContextTypes, GuardStep, NoteFailure

LEMMA YieldNoted ==
  ASSUME ContextTypes, NEW s \in ScopesIn(prog), UNCHANGED failed,
         pending' = [pending EXCEPT ![s] = TRUE]
  PROVE  GuardStep /\ ~Clear(s)'
BY DEF ContextTypes, GuardStep, Clear

LEMMA ClearIsLost ==
  ASSUME ContextTypes, GuardStep, NEW s \in ScopesIn(prog), Clear(s)' PROVE Clear(s)
BY DEF ContextTypes, GuardStep, Clear

LEMMA CountAdds ==
  ASSUME ContextTypes, NEW s \in ScopesIn(prog), Count(s), Here(s).name \in NamesIn(prog)
  PROVE  /\ counts' \in [ScopesIn(prog) -> [NamesIn(prog) -> Nat]]
         /\ \A t \in ScopesIn(prog) : t # s => counts'[t] = counts[t]
         /\ \A name \in NamesIn(prog) :
              counts'[s][name] = IF name = Here(s).name THEN counts[s][name] + 1
                                 ELSE counts[s][name]
<1> DEFINE N == NamesIn(prog)
           S == ScopesIn(prog)
<1>1. counts \in [S -> [N -> Nat]] /\ counts[s] \in [N -> Nat]
  BY DEF ContextTypes
<1>2. counts' = [counts EXCEPT ![s][Here(s).name] = @ + 1]
  BY DEF Count
<1> HIDE DEF N, S
<1>3. Here(s).name \in N /\ s \in S
  BY DEF N, S
<1>4. [counts[s] EXCEPT ![Here(s).name] = @ + 1] \in [N -> Nat]
  BY <1>1, <1>3
<1>5. counts' = [counts EXCEPT ![s] = [counts[s] EXCEPT ![Here(s).name] = @ + 1]]
  BY <1>2
<1>6. counts' \in [S -> [N -> Nat]]
  BY <1>1, <1>3, <1>4, <1>5
<1>7. \A t \in S : t # s => counts'[t] = counts[t]
  BY <1>1, <1>5
<1>8. counts'[s] = [counts[s] EXCEPT ![Here(s).name] = @ + 1]
  BY <1>1, <1>3, <1>5
<1>9. \A name \in N : counts'[s][name] = IF name = Here(s).name THEN counts[s][name] + 1
                                         ELSE counts[s][name]
  BY <1>1, <1>3, <1>8
<1> QED BY <1>6, <1>7, <1>9 DEF N, S

\* A durable operation that is counted and left, or awaits its body.
LEMMA CountedOnce ==
  ASSUME StepAssumption, NoColons, StepInv, NEW s \in Scopes, UNCHANGED prog,
         scope[s].st = "ready", scope[s].at \in DOMAIN Ops(s), Here(s).kind \in Durable,
         Clear(s), phase = "running", Count(s),
         NEW st, NEW why, NEW id, NEW at, Goes(s, at, st, why, id),
         \/ at = scope[s].at + 1 /\ st = "ready"
         \/ at = scope[s].at /\ st = "body"
  PROVE  CountStep(s)
<1>1. RunTypes /\ ScopeTypes /\ ContextTypes
  BY DEF StepInv, TypeInv
<1>2. /\ s \in ScopesIn(prog) /\ Here(s).name \in NamesIn(prog)
      /\ scope[s].at \in DOMAIN OpsIn(prog, s) /\ Here(s) = OpsIn(prog, s)[scope[s].at]
      /\ prog \in Programs
  BY <1>1, HereShape DEF RunTypes
<1>3. /\ counts' \in [ScopesIn(prog) -> [NamesIn(prog) -> Nat]]
      /\ \A t \in ScopesIn(prog) : t # s => counts'[t] = counts[t]
      /\ \A name \in NamesIn(prog) :
           counts'[s][name] = IF name = Here(s).name THEN counts[s][name] + 1
                              ELSE counts[s][name]
  BY <1>1, <1>2, CountAdds
<1>4. \A name \in NamesIn(prog) : counts[s][name] = Nth(prog, s, scope[s].at, name)
  BY <1>2 DEF StepInv, CountInv, Numbered
<1>5. \A name \in NamesIn(prog) :
        Nth(prog, s, scope[s].at + 1, name) =
          IF Here(s).name = name THEN Nth(prog, s, scope[s].at, name) + 1
          ELSE Nth(prog, s, scope[s].at, name)
  BY <1>2, NthNext
<1>6. \A name \in NamesIn(prog) : counts'[s][name] = Nth(prog, s, scope[s].at + 1, name)
  BY <1>3, <1>4, <1>5
<1>7. scope'[s].at = at /\ scope'[s].st = st
  BY DEF Goes
<1>8. Numbered(s)'
  BY <1>6, <1>7 DEF Numbered
<1> QED BY <1>3, <1>8 DEF CountStep

\* The count stays: the operation threw, or is not one that counts, or its body ended.
LEMMA NotCounted ==
  ASSUME StepAssumption, NoColons, StepInv, NEW s \in Scopes, UNCHANGED <<prog, counts>>,
         phase = "running", scope[s].at \in DOMAIN Ops(s), GuardStep,
         \/ scope'[s].st = "threw"
         \/ /\ scope'[s].st = "ready" /\ scope'[s].at = scope[s].at + 1
            /\ \/ scope[s].st = "body"
               \/ scope[s].st \in {"ready", "forked"} /\ Here(s).kind \notin Durable
               \/ ~Clear(s)
  PROVE  CountStep(s)
<1>1. RunTypes /\ ScopeTypes /\ ContextTypes
  BY DEF StepInv, TypeInv
<1>2. /\ s \in ScopesIn(prog) /\ prog \in Programs
      /\ scope[s].at \in DOMAIN OpsIn(prog, s) /\ Here(s) = OpsIn(prog, s)[scope[s].at]
  BY <1>1, HereShape DEF RunTypes
<1>3. SUFFICES ASSUME Clear(s)' PROVE Numbered(s)'
  BY <1>1 DEF CountStep, ContextTypes
<1>4. Clear(s)
  BY <1>1, <1>2, <1>3, ClearIsLost
<1>5. Numbered(s)
  BY <1>2, <1>4 DEF StepInv, CountInv
<1>6. CASE scope'[s].st = "ready" /\ scope'[s].at = scope[s].at + 1
  <2>1. CASE scope[s].st = "body"
    BY <1>5, <1>6, <2>1 DEF Numbered
  <2>2. CASE scope[s].st \in {"ready", "forked"} /\ Here(s).kind \notin Durable
    <3>1. \A name \in NamesIn(prog) :
            Nth(prog, s, scope[s].at + 1, name) = Nth(prog, s, scope[s].at, name)
      BY <1>2, <2>2, NthNext
    <3> QED BY <1>5, <1>6, <2>2, <3>1 DEF Numbered
  <2> QED BY <1>4, <1>6, <2>1, <2>2
<1>7. CASE scope'[s].st = "threw"
  BY <1>7 DEF Numbered
<1> QED BY <1>6, <1>7

-----------------------------------------------------------------------------
(* Every operation keeps that discipline.                                  *)

\* What an operation that may start begins with.
LEMMA Begun ==
  ASSUME StepAssumption, NoColons, StepInv, NEW s \in Scopes, NEW kinds, Ready(s, kinds)
  PROVE  /\ RunTypes /\ ScopeTypes /\ ContextTypes /\ ResultTypes
         /\ phase = "running" /\ scope[s].st = "ready" /\ Here(s).kind \in kinds
         /\ s \in ScopesIn(prog) /\ scope[s].at \in DOMAIN OpsIn(prog, s)
         /\ scope[s].at \in DOMAIN Ops(s)
         /\ Here(s).name \in NamesIn(prog)
<1>1. /\ RunTypes /\ ScopeTypes /\ ContextTypes /\ ResultTypes
      /\ phase = "running" /\ scope[s].st = "ready" /\ scope[s].at \in DOMAIN Ops(s)
      /\ Here(s).kind \in kinds
  BY DEF StepInv, TypeInv, Ready
<1> QED BY <1>1, HereShape

LEMMA MemoStays ==
  ASSUME StepInv, phase = "running", UNCHANGED <<prog, rows, took, began>>
  PROVE  /\ MemoIsOwn'
         /\ \A o \in began' : o \in OwnOps(prog) /\ ~ShouldSkipStep(IdOf(prog, o))
BY DEF StepInv, MemoInv, MemoIsOwn

LEMMA RefusedStep ==
  ASSUME StepAssumption, NoColons, StepInv, NEW s \in Scopes, Refused(s)
  PROVE  OperationStep(s)
<1>1. /\ Ready(s, Durable \cup {"parallel"}) /\ ~Clear(s) /\ NoteFailure(s)
      /\ Throw(s, "swallowed")
      /\ UNCHANGED <<run, phase, counts, pending, cancelled, steps, undos, response,
                     took, began>>
  BY DEF Refused
<1>2. /\ RunTypes /\ ScopeTypes /\ ContextTypes
      /\ phase = "running" /\ scope[s].st = "ready" /\ s \in ScopesIn(prog)
      /\ scope[s].at \in DOMAIN OpsIn(prog, s) /\ scope[s].at \in DOMAIN Ops(s)
  BY <1>1, Begun
<1>3. UNCHANGED <<prog, rows, counts, pending, took, began>>
  BY <1>1 DEF run
<1>4. "swallowed" \in Errors
  BY DEF Errors
<1>5. \/ Goes(s, scope[s].at + 1, "ready", scope[s].why, scope[s].id)
      \/ Goes(s, scope[s].at, "threw", "swallowed", scope[s].id)
  BY <1>1, <1>2, <1>4, Thrown, Advanced
<1>6. Moved(s)
  BY <1>4, <1>5 DEF Moved
<1>7. GuardStep
  BY <1>1, <1>2, FailureNoted
<1>8. CountStep(s)
  BY <1>1, <1>2, <1>3, <1>5, <1>7, NotCounted DEF Goes
<1>9. /\ MemoIsOwn'
      /\ \A o \in began' : o \in OwnOps(prog) /\ ~ShouldSkipStep(IdOf(prog, o))
  BY <1>2, <1>3, MemoStays
<1> QED BY <1>1, <1>2, <1>6, <1>7, <1>8, <1>9 DEF OperationStep, ContextTypes

\* A row that an operation finds under its identifier is its own.
LEMMA RowIsOwn ==
  ASSUME StepAssumption, NoColons, RunTypes, ResultTypes, NEW o \in OwnOps(prog),
         IdOf(prog, o) \in DOMAIN rows
  PROVE  rows[IdOf(prog, o)].op = o
<1>1. GoodPair(prog, IdOf(prog, o), rows[IdOf(prog, o)].op)
  BY DEF ResultTypes
<1>2. Len(IdOf(prog, o)) # 3
  <2>1. prog \in Programs
    BY DEF RunTypes
  <2>2. Len(IdOf(prog, o)) = IF o[1] = 0 THEN 2 ELSE 4
    BY <2>1, OwnShape
  <2> QED BY <2>2
<1>3. /\ rows[IdOf(prog, o)].op \in OwnOps(prog)
      /\ IdOf(prog, o) = IdOf(prog, rows[IdOf(prog, o)].op)
  BY <1>1, <1>2 DEF GoodPair
<1> QED BY <1>3, IdsDiffer DEF RunTypes

LEMMA MemoizedStep ==
  ASSUME StepAssumption, NoColons, StepInv, NEW s \in Scopes, Memoized(s)
  PROVE  OperationStep(s)
<1> DEFINE id == GenerateStepId(s, Here(s).name)
<1>1. /\ Ready(s, Durable) /\ Clear(s)
      /\ ShouldSkipStep(id) \/ IsResumingFrom(s, id)
      /\ took' = took \cup {<<<<s, scope[s].at>>, rows[id].op>>}
      /\ Count(s) /\ Advance(s)
      /\ UNCHANGED <<run, phase, pending, failed, cancelled, steps, undos, response, began>>
  BY DEF Memoized
<1>2. /\ RunTypes /\ ScopeTypes /\ ContextTypes /\ ResultTypes
      /\ phase = "running" /\ scope[s].st = "ready" /\ s \in ScopesIn(prog)
      /\ scope[s].at \in DOMAIN OpsIn(prog, s) /\ scope[s].at \in DOMAIN Ops(s)
      /\ Here(s).kind \in Durable
  BY <1>1, Begun
<1>3. UNCHANGED <<prog, rows, resume, pending, failed, began>>
  BY <1>1 DEF run
<1>4. Own(s) \in OwnOps(prog) /\ id = IdOf(prog, Own(s))
  BY <1>1, GeneratesOwn
<1> HIDE DEF id
<1>5. Goes(s, scope[s].at + 1, "ready", scope[s].why, scope[s].id)
  BY <1>1, <1>2, Advanced
<1>6. Moved(s)
  BY <1>5 DEF Moved
<1>7. GuardStep
  BY <1>2, <1>3, GuardKept
<1>8. CountStep(s)
  BY <1>1, <1>2, <1>3, <1>5, CountedOnce
<1>9. id \in DOMAIN rows
  <2>1. CASE ShouldSkipStep(id)
    BY <2>1 DEF ShouldSkipStep, Status
  <2>2. CASE IsResumingFrom(s, id)
    <3>1. resume.id = id /\ resume.kind = Here(s).kind
      BY <2>2 DEF IsResumingFrom
    <3>2. resume.kind # "none"
      BY <1>2, <3>1 DEF Durable
    <3> QED BY <3>1, <3>2 DEF StepInv, AwaitInv
  <2> QED BY <1>1, <2>1, <2>2
<1>10. rows[id].op = Own(s)
  BY <1>2, <1>4, <1>9, RowIsOwn
<1>11. MemoIsOwn'
  BY <1>1, <1>10 DEF MemoIsOwn, StepInv, MemoInv, Own
<1>12. \A o \in began' : o \in OwnOps(prog) /\ ~ShouldSkipStep(IdOf(prog, o))
  BY <1>2, <1>3 DEF StepInv, MemoInv
<1> QED BY <1>1, <1>2, <1>6, <1>7, <1>8, <1>11, <1>12 DEF OperationStep, ContextTypes

LEMMA Located ==
  ASSUME ScopeTypes, NEW s \in ScopesIn(prog), NEW id \in Ids(prog), NEW st, NEW why,
         \/ /\ st = "body" /\ why = scope[s].why
            /\ scope' = [scope EXCEPT ![s].st = "body", ![s].id = id]
         \/ /\ st = "threw" /\ why = "yield"
            /\ scope' = [scope EXCEPT ![s].st = "threw", ![s].why = "yield", ![s].id = id]
  PROVE  Goes(s, scope[s].at, st, why, id)
<1>1. scope \in [ScopesIn(prog) -> ScopeStates(prog)]
  BY DEF ScopeTypes
<1> HIDE DEF Ids
<1>2. CASE scope' = [scope EXCEPT ![s].st = "body", ![s].id = id]
                    /\ st = "body" /\ why = scope[s].why
  <2>4. ASSUME NEW r \in ScopeStates(prog)
        PROVE  [r EXCEPT !.st = "body", !.id = id] \in ScopeStates(prog)
    BY DEF ScopeStates
  <2>5. scope' = [scope EXCEPT ![s] = [scope[s] EXCEPT !.st = "body", !.id = id]]
    BY <1>1, <1>2
  <2>1. scope' \in [ScopesIn(prog) -> ScopeStates(prog)]
    BY <1>1, <2>4, <2>5
  <2>2. \A t \in ScopesIn(prog) : t # s => scope'[t] = scope[t]
    BY <1>1, <1>2
  <2>3. /\ scope'[s].at = scope[s].at /\ scope'[s].st = st
        /\ scope'[s].why = why /\ scope'[s].id = id
    BY <1>1, <1>2 DEF ScopeStates
  <2> QED BY <2>1, <2>2, <2>3 DEF Goes
<1>3. CASE scope' = [scope EXCEPT ![s].st = "threw", ![s].why = "yield", ![s].id = id]
           /\ st = "threw" /\ why = "yield"
  <2>4. ASSUME NEW r \in ScopeStates(prog)
        PROVE  [r EXCEPT !.st = "threw", !.why = "yield", !.id = id] \in ScopeStates(prog)
    BY DEF ScopeStates
  <2>5. scope' = [scope EXCEPT ![s] = [scope[s] EXCEPT !.st = "threw", !.why = "yield", !.id = id]]
    BY <1>1, <1>3
  <2>1. scope' \in [ScopesIn(prog) -> ScopeStates(prog)]
    BY <1>1, <2>4, <2>5
  <2>2. \A t \in ScopesIn(prog) : t # s => scope'[t] = scope[t]
    BY <1>1, <1>3
  <2>3. /\ scope'[s].at = scope[s].at /\ scope'[s].st = st
        /\ scope'[s].why = why /\ scope'[s].id = id
    BY <1>1, <1>3 DEF ScopeStates
  <2> QED BY <2>1, <2>2, <2>3 DEF Goes
<1> QED BY <1>2, <1>3

LEMMA StartsStep ==
  ASSUME StepAssumption, NoColons, StepInv, NEW s \in Scopes, StepStarts(s)
  PROVE  OperationStep(s)
<1> DEFINE id == GenerateStepId(s, Here(s).name)
<1>1. /\ Ready(s, {"run"}) /\ Clear(s) /\ ~ShouldSkipStep(id)
      /\ scope' = [scope EXCEPT ![s].st = "body", ![s].id = id]
      /\ began' = began \cup {<<s, scope[s].at>>} /\ Count(s)
      /\ UNCHANGED <<run, phase, pending, failed, cancelled, steps, undos, response, took>>
  BY DEF StepStarts
<1>2. /\ RunTypes /\ ScopeTypes /\ ContextTypes
      /\ phase = "running" /\ scope[s].st = "ready" /\ s \in ScopesIn(prog)
      /\ scope[s].at \in DOMAIN OpsIn(prog, s) /\ scope[s].at \in DOMAIN Ops(s)
      /\ Here(s).kind \in Durable
  BY <1>1, Begun DEF Durable
<1>3. UNCHANGED <<prog, rows, pending, failed>>
  BY <1>1 DEF run
<1>4. Own(s) \in OwnOps(prog) /\ id = IdOf(prog, Own(s))
  <2>1. {"run"} \in SUBSET Durable
    BY DEF Durable
  <2> QED BY <1>1, <2>1, GeneratesOwn
<1> HIDE DEF id
<1>5. Goes(s, scope[s].at, "body", scope[s].why, id)
  <2>1. id \in Ids(prog)
    BY <1>4 DEF Ids
  <2> QED BY <1>1, <1>2, <2>1, Located
<1>6. Moved(s)
  BY <1>4, <1>5 DEF Moved
<1>7. GuardStep
  BY <1>2, <1>3, GuardKept
<1>8. CountStep(s)
  BY <1>1, <1>2, <1>3, <1>5, CountedOnce
<1>9. MemoIsOwn'
  BY <1>1 DEF MemoIsOwn, StepInv, MemoInv
<1>10. \A o \in began' : o \in OwnOps(prog) /\ ~ShouldSkipStep(IdOf(prog, o))
  BY <1>1, <1>2, <1>4 DEF StepInv, MemoInv, Own
<1> QED BY <1>1, <1>2, <1>6, <1>7, <1>8, <1>9, <1>10 DEF OperationStep, ContextTypes

LEMMA EndsStep ==
  ASSUME StepAssumption, NoColons, StepInv, NEW s \in Scopes,
         NEW kind \in {"completed", "bad", "retry", "fatal"}, StepEnds(s, kind)
  PROVE  OperationStep(s)
<1> DEFINE status == IF kind \in {"retry", "fatal"} THEN "failed" ELSE kind
<1>1. /\ phase = "running" /\ scope[s].st = "body"
      /\ steps' = Append(steps, Result(scope[s].id, Own(s), status))
      /\ IF kind \in {"retry", "fatal"} THEN Throw(s, kind) ELSE Advance(s)
      /\ UNCHANGED <<run, phase, counts, pending, failed, cancelled, undos, response,
                     took, began>>
  BY DEF StepEnds, Own
<1>2. RunTypes /\ ScopeTypes /\ ContextTypes /\ ResultTypes
  BY DEF StepInv, TypeInv
<1>3. /\ s \in ScopesIn(prog) /\ Own(s) \in OwnOps(prog) /\ scope[s].id = IdOf(prog, Own(s))
  BY <1>1, ScopesAre DEF StepInv, PlaceInv
<1>4. scope[s].at \in DOMAIN OpsIn(prog, s) /\ scope[s].at \in DOMAIN Ops(s)
  BY <1>3, ScopesAre DEF OwnOps, Own
<1>5. UNCHANGED <<prog, rows, counts, pending, failed, took, began>>
  BY <1>1 DEF run
<1>6. \/ Goes(s, scope[s].at + 1, "ready", scope[s].why, scope[s].id)
      \/ \E error \in Errors : Goes(s, scope[s].at, "threw", error, scope[s].id)
  <2>1. CASE kind \in {"retry", "fatal"}
    <3>1. kind \in Errors /\ Throw(s, kind)
      BY <1>1, <2>1 DEF Errors
    <3> QED BY <1>2, <1>3, <3>1, Thrown, Advanced
  <2>2. CASE kind \notin {"retry", "fatal"}
    BY <1>1, <1>2, <1>3, <2>2, Advanced
  <2> QED BY <2>1, <2>2
<1>7. Moved(s)
  BY <1>6 DEF Moved
<1>8. GuardStep
  BY <1>2, <1>5, GuardKept
<1>9. CountStep(s)
  BY <1>1, <1>4, <1>5, <1>6, <1>8, NotCounted DEF Goes
<1>10. /\ Result(scope[s].id, Own(s), status) \in Results(prog)
       /\ Result(scope[s].id, Own(s), status).status # "kept"
  <2>1. status \in ResultStatuses /\ status # "kept"
    BY DEF ResultStatuses
  <2>2. Own(s) # NoOp
    BY <1>2, <1>3, OwnShape DEF RunTypes
  <2>3. scope[s].id \in Ids(prog) /\ GoodPair(prog, scope[s].id, Own(s))
    BY <1>3, <2>2 DEF Ids, GoodPair
  <2> HIDE DEF status
  <2> QED BY <1>3, <2>1, <2>3 DEF Result, Results
<1>11. /\ MemoIsOwn'
       /\ \A o \in began' : o \in OwnOps(prog) /\ ~ShouldSkipStep(IdOf(prog, o))
  BY <1>1, <1>5, MemoStays
<1> QED BY <1>1, <1>2, <1>4, <1>7, <1>8, <1>9, <1>10, <1>11 DEF OperationStep, ContextTypes

LEMMA YieldStep ==
  ASSUME StepAssumption, NoColons, StepInv, NEW s \in Scopes, NEW kinds \in SUBSET Durable,
         Ready(s, kinds), Clear(s), YieldOf(s)
  PROVE  OperationStep(s)
<1> DEFINE id == GenerateStepId(s, Here(s).name)
<1>1. /\ pending' = [pending EXCEPT ![s] = TRUE] /\ Count(s)
      /\ \/ Advance(s)
         \/ scope' = [scope EXCEPT ![s].st = "threw", ![s].why = "yield", ![s].id = id]
      /\ UNCHANGED <<run, phase, failed, cancelled, steps, undos, response, took, began>>
  BY DEF YieldOf
<1>2. /\ RunTypes /\ ScopeTypes /\ ContextTypes
      /\ phase = "running" /\ scope[s].st = "ready" /\ s \in ScopesIn(prog)
      /\ scope[s].at \in DOMAIN OpsIn(prog, s) /\ scope[s].at \in DOMAIN Ops(s)
      /\ Here(s).name \in NamesIn(prog)
  BY Begun
<1>3. UNCHANGED <<prog, rows, failed, took, began>>
  BY <1>1 DEF run
<1>4. Own(s) \in OwnOps(prog) /\ id = IdOf(prog, Own(s))
  BY GeneratesOwn
<1> HIDE DEF id
<1>5. \/ Goes(s, scope[s].at + 1, "ready", scope[s].why, scope[s].id)
      \/ Goes(s, scope[s].at, "threw", "yield", id)
  <2>1. id \in Ids(prog)
    BY <1>4 DEF Ids
  <2> QED BY <1>1, <1>2, <2>1, Advanced, Located
<1>6. Moved(s)
  BY <1>4, <1>5 DEF Moved
<1>7. GuardStep /\ ~Clear(s)'
  BY <1>1, <1>2, <1>3, YieldNoted
<1>8. CountStep(s)
  BY <1>1, <1>2, <1>7, CountAdds DEF CountStep
<1>9. /\ MemoIsOwn'
      /\ \A o \in began' : o \in OwnOps(prog) /\ ~ShouldSkipStep(IdOf(prog, o))
  <2>1. UNCHANGED <<prog, rows, took, began>>
    BY <1>3
  <2> QED BY <1>2, <2>1, MemoStays
<1> QED BY <1>1, <1>2, <1>6, <1>7, <1>8, <1>9 DEF OperationStep, ContextTypes

LEMMA InvokeFailsStep ==
  ASSUME StepAssumption, NoColons, StepInv, NEW s \in Scopes, InvokeFails(s)
  PROVE  OperationStep(s)
<1>1. /\ Ready(s, {"invoke", "invokeAsync"}) /\ Clear(s) /\ Count(s) /\ Throw(s, "fatal")
      /\ UNCHANGED <<run, phase, pending, failed, cancelled, steps, undos, response,
                     took, began>>
  BY DEF InvokeFails
<1>2. /\ RunTypes /\ ScopeTypes /\ ContextTypes
      /\ phase = "running" /\ scope[s].st = "ready" /\ s \in ScopesIn(prog)
      /\ scope[s].at \in DOMAIN OpsIn(prog, s) /\ scope[s].at \in DOMAIN Ops(s)
      /\ Here(s).kind \in Durable /\ Here(s).name \in NamesIn(prog)
  BY <1>1, Begun DEF Durable
<1>3. UNCHANGED <<prog, rows, pending, failed, took, began>>
  BY <1>1 DEF run
<1>4. "fatal" \in Errors
  BY DEF Errors
<1>5. \/ Goes(s, scope[s].at + 1, "ready", scope[s].why, scope[s].id)
      \/ Goes(s, scope[s].at, "threw", "fatal", scope[s].id)
  BY <1>1, <1>2, <1>4, Thrown, Advanced
<1>6. Moved(s)
  BY <1>4, <1>5 DEF Moved
<1>7. GuardStep
  BY <1>2, <1>3, GuardKept
<1>8. CountStep(s)
  <2>1. CASE Goes(s, scope[s].at + 1, "ready", scope[s].why, scope[s].id)
    BY <1>1, <1>2, <1>3, <2>1, CountedOnce
  <2>2. CASE Goes(s, scope[s].at, "threw", "fatal", scope[s].id)
    <3>1. Numbered(s)'
      BY <2>2 DEF Goes, Numbered
    <3> QED BY <1>1, <1>2, <3>1, CountAdds DEF CountStep
  <2> QED BY <1>5, <2>1, <2>2
<1>9. /\ MemoIsOwn'
      /\ \A o \in began' : o \in OwnOps(prog) /\ ~ShouldSkipStep(IdOf(prog, o))
  BY <1>2, <1>3, MemoStays
<1> QED BY <1>1, <1>2, <1>6, <1>7, <1>8, <1>9 DEF OperationStep, ContextTypes

LEMMA CompensateStep ==
  ASSUME StepAssumption, NoColons, StepInv, NEW s \in Scopes, Compensate(s)
  PROVE  OperationStep(s)
<1>1. /\ Ready(s, {"undo"}) /\ NoteFailure(s)
      /\ \/ \E error \in {"swallowed", "retry"} : Throw(s, error) /\ UNCHANGED undos
         \/ Advance(s) /\ undos' = Append(undos, Here(s).name)
      /\ UNCHANGED <<run, phase, counts, pending, cancelled, steps, response, took, began>>
  BY DEF Compensate
<1>2. /\ RunTypes /\ ScopeTypes /\ ContextTypes
      /\ phase = "running" /\ scope[s].st = "ready" /\ s \in ScopesIn(prog)
      /\ scope[s].at \in DOMAIN OpsIn(prog, s) /\ scope[s].at \in DOMAIN Ops(s)
      /\ Here(s).kind = "undo" /\ Here(s).name \in NamesIn(prog)
  BY <1>1, Begun
<1>3. UNCHANGED <<prog, rows, counts, pending, took, began>>
  BY <1>1 DEF run
<1>4. Here(s).kind \notin Durable
  BY <1>2 DEF Durable
<1>5. \/ Goes(s, scope[s].at + 1, "ready", scope[s].why, scope[s].id)
      \/ \E error \in Errors : Goes(s, scope[s].at, "threw", error, scope[s].id)
  <2>1. CASE \E error \in {"swallowed", "retry"} : Throw(s, error)
    <3>1. PICK error \in {"swallowed", "retry"} : Throw(s, error)
      BY <2>1
    <3>2. error \in Errors
      BY DEF Errors
    <3> QED BY <1>2, <3>1, <3>2, Thrown, Advanced
  <2>2. CASE Advance(s)
    BY <1>2, <2>2, Advanced
  <2> QED BY <1>1, <2>1, <2>2
<1>6. Moved(s)
  BY <1>5 DEF Moved
<1>7. GuardStep
  BY <1>1, <1>2, FailureNoted
<1>8. CountStep(s)
  BY <1>2, <1>3, <1>4, <1>5, <1>7, NotCounted DEF Goes
<1>9. /\ MemoIsOwn'
      /\ \A o \in began' : o \in OwnOps(prog) /\ ~ShouldSkipStep(IdOf(prog, o))
  BY <1>2, <1>3, MemoStays
<1>10. undos' \in Seq(NamesIn(prog))
  <2>1. undos \in Seq(NamesIn(prog))
    BY <1>2 DEF ContextTypes
  <2> QED BY <1>1, <1>2, <2>1
<1> QED BY <1>1, <1>2, <1>6, <1>7, <1>8, <1>9, <1>10 DEF OperationStep

LEMMA Operated ==
  ASSUME StepAssumption, NoColons, StepInv, NEW s \in Scopes, Operate(s)
  PROVE  OperationStep(s)
<1>1. CASE Refused(s)
  BY <1>1, RefusedStep
<1>2. CASE Memoized(s)
  BY <1>2, MemoizedStep
<1>3. CASE StepStarts(s)
  BY <1>3, StartsStep
<1>4. CASE Compensate(s)
  BY <1>4, CompensateStep
<1>5. CASE InvokeFails(s)
  BY <1>5, InvokeFailsStep
<1>6. CASE Sleep(s) \/ WaitForEvent(s) \/ Invoke(s) \/ InvokeAsync(s)
  <2>1. \E kind \in Durable : Ready(s, {kind}) /\ Clear(s) /\ YieldOf(s)
    BY <1>6 DEF Sleep, WaitForEvent, Invoke, InvokeAsync, Durable
  <2>2. PICK kind \in Durable : Ready(s, {kind}) /\ Clear(s) /\ YieldOf(s)
    BY <2>1
  <2>3. {kind} \in SUBSET Durable
    OBVIOUS
  <2> QED BY <2>2, <2>3, YieldStep
<1>7. CASE \E kind \in {"completed", "bad", "retry", "fatal"} : StepEnds(s, kind)
  BY <1>7, EndsStep
<1> QED BY <1>1, <1>2, <1>3, <1>4, <1>5, <1>6, <1>7 DEF Operate

-----------------------------------------------------------------------------
(* What that discipline preserves.                                         *)

\* Where the scope was, and where it may be now.
LEMMA Movement ==
  ASSUME StepAssumption, NoColons, StepInv, NEW s \in Scopes, OperationStep(s)
  PROVE  /\ prog' = prog /\ rows' = rows /\ s \in ScopesIn(prog) /\ prog \in Programs
         /\ scope[s].st \in {"ready", "body"} /\ scope[s].why # "yield"
         /\ scope[s].at \in Nat /\ scope[s].at \in 1 .. Len(OpsIn(prog, s))
         /\ Len(OpsIn(prog, s)) \in Nat
         /\ scope' \in [ScopesIn(prog) -> ScopeStates(prog)]
         /\ \A t \in ScopesIn(prog) : t # s => scope'[t] = scope[t]
         /\ \/ /\ scope'[s].at = scope[s].at + 1 /\ scope'[s].st = "ready"
               /\ scope'[s].why = scope[s].why /\ scope'[s].id = scope[s].id
            \/ /\ scope'[s].at = scope[s].at /\ scope'[s].st = "threw"
               /\ scope'[s].why \in Errors /\ scope'[s].id = scope[s].id
            \/ /\ scope'[s].at = scope[s].at /\ Own(s) \in OwnOps(prog)
               /\ scope'[s].id = IdOf(prog, Own(s))
               /\ \/ scope'[s].st = "threw" /\ scope'[s].why = "yield"
                  \/ scope'[s].st = "body" /\ scope'[s].why = scope[s].why
<1>1. /\ prog' = prog /\ rows' = rows /\ scope[s].st \in {"ready", "body"} /\ Moved(s)
      /\ scope[s].at \in DOMAIN OpsIn(prog, s) /\ prog \in Programs
  BY DEF OperationStep, run, StepInv, TypeInv, RunTypes
<1>2. s \in ScopesIn(prog)
  BY ScopesAre
<1>3. scope[s].why # "yield"
  BY <1>1, <1>2 DEF StepInv, PlaceInv
<1>4. scope[s].at \in 1 .. Len(OpsIn(prog, s)) /\ Len(OpsIn(prog, s)) \in Nat
  <2>1. OpsIn(prog, s) \in Seq(Operations)
    BY <1>1, <1>2, HandlerShape
  <2> QED BY <1>1, <2>1
<1>5. /\ scope' \in [ScopesIn(prog) -> ScopeStates(prog)]
      /\ \A t \in ScopesIn(prog) : t # s => scope'[t] = scope[t]
  BY <1>1 DEF Moved, Goes
<1>6. \/ /\ scope'[s].at = scope[s].at + 1 /\ scope'[s].st = "ready"
         /\ scope'[s].why = scope[s].why /\ scope'[s].id = scope[s].id
      \/ /\ scope'[s].at = scope[s].at /\ scope'[s].st = "threw"
         /\ scope'[s].why \in Errors /\ scope'[s].id = scope[s].id
      \/ /\ scope'[s].at = scope[s].at /\ Own(s) \in OwnOps(prog)
         /\ scope'[s].id = IdOf(prog, Own(s))
         /\ \/ scope'[s].st = "threw" /\ scope'[s].why = "yield"
            \/ scope'[s].st = "body" /\ scope'[s].why = scope[s].why
  BY <1>1 DEF Moved, Goes
<1> QED BY <1>1, <1>2, <1>3, <1>4, <1>5, <1>6

LEMMA OperationKeepsTypes ==
  ASSUME StepAssumption, NoColons, StepInv, NEW s \in Scopes, OperationStep(s)
  PROVE  TypeInv'
<1>1. /\ prog' = prog /\ s \in ScopesIn(prog)
      /\ scope[s].at \in 1 .. Len(OpsIn(prog, s)) /\ Len(OpsIn(prog, s)) \in Nat
      /\ scope' \in [ScopesIn(prog) -> ScopeStates(prog)]
      /\ \A t \in ScopesIn(prog) : t # s => scope'[t] = scope[t]
      /\ scope'[s].at = scope[s].at + 1 \/ scope'[s].at = scope[s].at
  BY Movement
<1>2. RunTypes /\ ScopeTypes /\ ContextTypes /\ ResultTypes
  BY DEF StepInv, TypeInv
<1>3. RunTypes'
  BY <1>2 DEF OperationStep, run, RunTypes
<1>4. ScopeTypes'
  <2>1. \A t \in ScopesIn(prog) : scope'[t].at \in 1 .. Len(OpsIn(prog, t)) + 1
    BY <1>1, <1>2 DEF ScopeTypes
  <2> QED BY <1>1, <2>1 DEF ScopeTypes
<1>5. ContextTypes'
  BY <1>1, <1>2 DEF OperationStep, CountStep, GuardStep, ContextTypes
<1>6. ResultTypes'
  <2>1. /\ response' = response /\ rows' = rows /\ phase = "running"
        /\ steps' = steps
           \/ \E r \in Results(prog) : r.status # "kept" /\ steps' = Append(steps, r)
    BY DEF OperationStep, run
  <2>2. steps \in Seq(Results(prog))
    BY <1>2 DEF ResultTypes
  <2>3. steps' \in Seq(Results(prog))
    BY <2>1, <2>2
  <2>4. /\ \A i \in DOMAIN steps : i \in DOMAIN steps' /\ steps'[i] = steps[i]
        /\ \A i \in DOMAIN steps' : i \in DOMAIN steps \/ steps'[i].status # "kept"
    BY <2>1, <2>2
  <2>5. \A i \in DOMAIN response.steps : /\ i \in DOMAIN steps' /\ response.steps[i] = steps'[i]
                                         /\ steps'[i].status # "bad"
    BY <1>2, <2>4 DEF ResultTypes
  <2>6. \A i \in DOMAIN steps' : steps'[i].status = "kept" => ShouldSkipStep(steps'[i].id)
    BY <1>2, <2>1, <2>4 DEF ResultTypes
  <2> QED BY <1>1, <1>2, <2>1, <2>3, <2>5, <2>6 DEF ResultTypes, ShouldSkipStep, Status
<1> QED BY <1>3, <1>4, <1>5, <1>6 DEF TypeInv

LEMMA OperationKeepsPlace ==
  ASSUME StepAssumption, NoColons, StepInv, NEW s \in Scopes, OperationStep(s)
  PROVE  PlaceInv'
<1>1. PlaceInv
  BY DEF StepInv
<1>2. ASSUME NEW t \in ScopesIn(prog)
      PROVE  /\ scope'[t].st = "body" =>
                  Own(t)' \in OwnOps(prog) /\ scope'[t].id = IdOf(prog, Own(t)')
             /\ scope'[t].st = "forked" => /\ t = 0 /\ scope'[0].at \in DOMAIN prog.root
                                           /\ prog.root[scope'[0].at].kind = "parallel"
             /\ scope'[t].why = "yield" => scope'[t].st \in {"threw", "over"}
  <2>1. CASE t = s
    <3>1. scope'[t].st = "body" =>
            Own(t)' \in OwnOps(prog) /\ scope'[t].id = IdOf(prog, Own(t)')
      BY <2>1, Movement DEF Own
    <3>2. scope'[t].st # "forked" /\ (scope'[t].why = "yield" => scope'[t].st = "threw")
      BY <2>1, Movement DEF Errors
    <3> QED BY <3>1, <3>2
  <2>2. CASE t # s
    <3>1. scope'[t] = scope[t] /\ Own(t)' = Own(t)
      BY <1>2, <2>2, Movement DEF Own
    <3> QED BY <1>1, <3>1 DEF PlaceInv
  <2> QED BY <2>1, <2>2
<1>3. ASSUME NEW i \in DOMAIN prog.root, prog.root[i].kind = "parallel",
             scope'[0].at < i \/ (scope'[0].at = i /\ scope'[0].st = "ready"),
             NEW b \in DOMAIN prog.branches
      PROVE  scope'[b].st = "off"
  <2>1. /\ 0 \in ScopesIn(prog) /\ b \in ScopesIn(prog) /\ b # 0 /\ i \in Nat
        /\ scope[0].at \in Nat
    <3>1. prog \in HandlerType
      BY Movement, ProgramsAre
    <3>2. b \in Nat \ {0} /\ i \in Nat
      BY <3>1 DEF HandlerType
    <3>3. 0 \in ScopesIn(prog) /\ b \in ScopesIn(prog)
      BY DEF ScopesIn
    <3>4. scope[0].at \in Nat
      BY <3>3 DEF StepInv, TypeInv, ScopeTypes, ScopeStates
    <3> QED BY <3>2, <3>3, <3>4
  <2>2. phase = "running"
    BY DEF OperationStep
  <2>3. scope[0].at < i \/ (scope[0].at = i /\ scope[0].st = "ready") => scope[b].st = "off"
    BY <1>1, <1>3, <2>2 DEF PlaceInv
  <2>4. CASE s = 0
    <3>1. scope'[b] = scope[b]
      BY <2>1, <2>4, Movement
    <3>2. scope[0].at < i \/ (scope[0].at = i /\ scope[0].st = "ready")
      <4>1. \/ scope'[0].at = scope[0].at + 1
            \/ scope'[0].at = scope[0].at /\ scope'[0].st # "ready"
        BY <2>4, Movement
      <4> QED BY <1>3, <2>1, <4>1
    <3> QED BY <2>3, <3>1, <3>2
  <2>5. CASE s # 0
    <3>1. scope'[0] = scope[0]
      BY <2>1, <2>5, Movement
    <3>2. \A c \in DOMAIN prog.branches : scope[c].st = "off"
      BY <1>1, <1>3, <2>2, <3>1 DEF PlaceInv
    <3>3. s \in DOMAIN prog.branches /\ scope[s].st # "off"
      BY <2>5, Movement DEF ScopesIn
    <3> QED BY <3>2, <3>3
  <2> QED BY <2>4, <2>5
<1>4. prog' = prog
  BY Movement
<1> QED BY <1>2, <1>3, <1>4 DEF PlaceInv

LEMMA OperationKeepsYield ==
  ASSUME StepAssumption, NoColons, StepInv, NEW s \in Scopes, OperationStep(s)
  PROVE  YieldInv'
<1>1. YieldInv
  BY DEF StepInv
<1>2. prog' = prog /\ Own(s)[1] = s
  BY Movement DEF Own
<1>3. ASSUME NEW b \in DOMAIN prog.branches
      PROVE  /\ scope'[b].id = None
                \/ \E o \in OwnOps(prog) : o[1] = b /\ scope'[b].id = IdOf(prog, o)
             /\ scope'[b].why = "yield" =>
                  Own(b)' \in OwnOps(prog) /\ scope'[b].id = IdOf(prog, Own(b)')
  <2>1. b \in ScopesIn(prog)
    BY DEF ScopesIn
  <2>2. CASE b = s
    <3>1. scope'[b].id = scope[b].id
          \/ (Own(s) \in OwnOps(prog) /\ scope'[b].id = IdOf(prog, Own(s)))
      BY <2>2, Movement
    <3>2. scope'[b].why = "yield" =>
                  Own(b)' \in OwnOps(prog) /\ scope'[b].id = IdOf(prog, Own(b)')
      BY <2>2, Movement DEF Own, Errors
    <3> QED BY <1>1, <1>2, <2>2, <3>1, <3>2 DEF YieldInv
  <2>3. CASE b # s
    <3>1. scope'[b] = scope[b] /\ Own(b)' = Own(b)
      BY <2>1, <2>3, Movement DEF Own
    <3> QED BY <1>1, <3>1 DEF YieldInv
  <2> QED BY <2>2, <2>3
<1>4. ASSUME scope'[0].why = "yield"
      PROVE  \/ Own(0)' \in OwnOps(prog) /\ scope'[0].id = IdOf(prog, Own(0)')
             \/ \E b \in DOMAIN prog.branches :
                  scope'[b].why = "yield" /\ scope'[b].id = scope'[0].id
  <2>1. 0 \in ScopesIn(prog)
    BY DEF ScopesIn
  <2>2. CASE s = 0
    BY <1>4, <2>2, Movement DEF Own, Errors
  <2>3. CASE s # 0
    <3>1. scope'[0] = scope[0] /\ Own(0)' = Own(0)
      BY <2>1, <2>3, Movement DEF Own
    <3>2. CASE Own(0) \in OwnOps(prog) /\ scope[0].id = IdOf(prog, Own(0))
      BY <3>1, <3>2
    <3>3. CASE \E b \in DOMAIN prog.branches :
                 scope[b].why = "yield" /\ scope[b].id = scope[0].id
      <4>1. PICK b \in DOMAIN prog.branches :
                   scope[b].why = "yield" /\ scope[b].id = scope[0].id
        BY <3>3
      <4>2. b \in ScopesIn(prog) /\ b # s
        BY <4>1, Movement DEF ScopesIn
      <4>3. scope'[b] = scope[b]
        BY <4>2, Movement
      <4> QED BY <3>1, <4>1, <4>3
    <3> QED BY <1>1, <1>4, <3>1, <3>2, <3>3 DEF YieldInv
  <2> QED BY <2>2, <2>3
<1> QED BY <1>2, <1>3, <1>4 DEF YieldInv

LEMMA OperationKeeps ==
  ASSUME StepAssumption, NoColons, StepInv, NEW s \in Scopes, OperationStep(s)
  PROVE  StepInv'
<1>1. TypeInv' /\ PlaceInv' /\ YieldInv'
  BY OperationKeepsTypes, OperationKeepsPlace, OperationKeepsYield
<1>2. CountInv'
  <2>1. ASSUME NEW t \in ScopesIn(prog), Clear(t)' PROVE Numbered(t)'
    <3>1. CASE t = s
      BY <2>1, <3>1 DEF OperationStep, CountStep
    <3>2. CASE t # s
      <4>1. Clear(t)
        BY <2>1, ClearIsLost DEF StepInv, TypeInv, OperationStep
      <4>2. Numbered(t)
        BY <4>1 DEF StepInv, CountInv, OperationStep
      <4>3. scope'[t] = scope[t] /\ prog' = prog
        BY <3>2, Movement
      <4>4. counts'[t] = counts[t]
        BY <3>2 DEF OperationStep, CountStep
      <4> QED BY <4>2, <4>3, <4>4 DEF Numbered
    <3> QED BY <3>1, <3>2
  <2>2. prog' = prog
    BY Movement
  <2> QED BY <2>1, <2>2 DEF CountInv
<1>3. AwaitInv'
  BY DEF StepInv, AwaitInv, OperationStep, run
<1>4. MemoInv'
  <2>1. prog' = prog /\ rows' = rows
    BY Movement
  <2>2. /\ MemoIsOwn'
        /\ \A o \in began' : o \in OwnOps(prog) /\ ~ShouldSkipStep(IdOf(prog, o))
    BY DEF OperationStep
  <2> QED BY <2>1, <2>2 DEF MemoInv, ShouldSkipStep, Status
<1> QED BY <1>1, <1>2, <1>3, <1>4 DEF StepInv

-----------------------------------------------------------------------------
(* The steps of a fan-out.                                                 *)

LEMMA EmptySeq == ASSUME NEW S PROVE <<>> \in Seq(S)
OBVIOUS

LEMMA LeastScope ==
  ASSUME NEW S \in SUBSET Nat, S # {}
  PROVE  \E m \in S : \A n \in S : m <= n
<1> DEFINE Less == OpToRel(<, Nat)
<1>1. IsWellFoundedOn(Less, Nat)
  BY NatLessThanWellFounded
<1>2. \A m, n \in Nat : m < n => <<m, n>> \in Less
  BY DEF Less, OpToRel
<1> HIDE DEF Less
<1>3. PICK m \in S : \A n \in S : <<n, m>> \notin Less
  BY <1>1, WFMin
<1>4. ASSUME NEW n \in S PROVE m <= n
  <2>1. m \in Nat /\ n \in Nat /\ ~(n < m)
    BY <1>2, <1>3
  <2> QED BY <2>1
<1> QED BY <1>4

\* A step that changes where scopes are, and what their guards know, and no more.
LEMMA RestKept ==
  ASSUME StepInv, phase = "running", GuardStep, cancelled' \in BOOLEAN,
         UNCHANGED <<run, phase, counts, steps, undos, response, took, began>>,
         ScopeTypes', PlaceInv', YieldInv', CountInv'
  PROVE  StepInv'
<1>1. UNCHANGED <<prog, rows>>
  BY DEF run
<1>2. TypeInv'
  <2>1. RunTypes'
    BY DEF StepInv, TypeInv, RunTypes, run
  <2>2. ContextTypes'
    BY <1>1 DEF StepInv, TypeInv, ContextTypes, GuardStep
  <2>3. ResultTypes'
    BY <1>1 DEF StepInv, TypeInv, ResultTypes, ShouldSkipStep, Status
  <2> QED BY <2>1, <2>2, <2>3 DEF TypeInv
<1>3. AwaitInv'
  BY DEF StepInv, AwaitInv, run
<1>4. MemoInv'
  BY <1>1 DEF StepInv, MemoInv, MemoIsOwn, ShouldSkipStep, Status
<1> QED BY <1>2, <1>3, <1>4 DEF StepInv

LEMMA CountKept ==
  ASSUME StepInv, phase = "running", GuardStep, UNCHANGED <<prog, counts>>,
         \A t \in ScopesIn(prog) :
           \/ scope'[t] = scope[t]
           \/ scope'[t].st \in {"over", "skipped"}
           \/ /\ scope[t].st \in {"off", "ready"} /\ scope'[t].at = scope[t].at
              /\ scope'[t].st \in {"off", "ready", "forked"}
           \/ CountStep(t)
  PROVE  CountInv'
<1>1. ASSUME NEW t \in ScopesIn(prog), Clear(t)' PROVE Numbered(t)'
  <2>1. Clear(t) /\ Numbered(t)
    BY <1>1, ClearIsLost DEF StepInv, TypeInv, CountInv
  <2>2. CASE scope'[t] = scope[t]
    BY <2>1, <2>2 DEF Numbered
  <2>3. CASE scope'[t].st \in {"over", "skipped"}
    BY <2>3 DEF Numbered
  <2>4. CASE /\ scope[t].st \in {"off", "ready"} /\ scope'[t].at = scope[t].at
             /\ scope'[t].st \in {"off", "ready", "forked"}
    BY <2>1, <2>4 DEF Numbered
  <2>5. CASE CountStep(t)
    BY <1>1, <2>5 DEF CountStep
  <2> QED BY <2>2, <2>3, <2>4, <2>5
<1> QED BY <1>1 DEF CountInv

\* The root is at its fan-out: it has no other, so that what follows is no fan-out.
LEMMA OneFork ==
  ASSUME StepAssumption, RunTypes, ScopeTypes, scope[0].at \in DOMAIN prog.root,
         prog.root[scope[0].at].kind = "parallel"
  PROVE  /\ 0 \in ScopesIn(prog) /\ scope[0].at \in Nat
         /\ \A i \in DOMAIN prog.root :
              prog.root[i].kind = "parallel" => i = scope[0].at
<1>1. prog \in Programs
  BY DEF RunTypes
<1>2. 0 \in ScopesIn(prog)
  BY DEF ScopesIn
<1>3. scope[0].at \in Nat
  BY <1>2 DEF ScopeTypes, ScopeStates
<1> QED BY <1>1, <1>2, <1>3 DEF StepAssumption

LEMMA BranchesAre ==
  ASSUME StepAssumption, RunTypes
  PROVE  /\ ScopesIn(prog) = {0} \cup DOMAIN prog.branches
         /\ DOMAIN prog.branches \subseteq Nat \ {0}
         /\ 0 \in ScopesIn(prog) /\ DOMAIN prog.branches \subseteq ScopesIn(prog)
<1>1. prog \in HandlerType
  BY ProgramsAre DEF RunTypes
<1>2. DOMAIN prog.branches \subseteq Nat \ {0}
  BY <1>1 DEF HandlerType
<1> QED BY <1>2 DEF ScopesIn

LEMMA ForkKeeps ==
  ASSUME StepAssumption, NoColons, StepInv, Fork
  PROVE  StepInv'
<1>1. /\ Ready(0, {"parallel"})
      /\ scope' = [s \in Scopes |->
                     IF s = 0 THEN [scope[0] EXCEPT !.st = "forked"]
                     ELSE [scope[s] EXCEPT !.st = IF prog.limit = 0 THEN "ready" ELSE "off"]]
      /\ cancelled' = FALSE
      /\ UNCHANGED <<run, phase, counts, pending, failed, steps, undos, response, took, began>>
  BY DEF Fork, hist
<1>2. /\ RunTypes /\ ScopeTypes /\ ContextTypes /\ phase = "running" /\ scope[0].st = "ready"
      /\ scope[0].at \in DOMAIN prog.root /\ prog.root[scope[0].at].kind = "parallel"
      /\ PlaceInv /\ YieldInv
  BY <1>1, ScopesAre DEF StepInv, TypeInv, Ready, OpsIn
<1>3. UNCHANGED <<prog, counts, pending, failed>>
  BY <1>1 DEF run
<1>4. \A i \in DOMAIN prog.root : prog.root[i].kind = "parallel" => i = scope[0].at
  BY <1>2, OneFork
<1>5. \A b \in DOMAIN prog.branches : scope[b].st = "off"
  BY <1>2 DEF PlaceInv
<1> DEFINE st == IF prog.limit = 0 THEN "ready" ELSE "off"
<1>6. /\ scope' \in [ScopesIn(prog) -> ScopeStates(prog)]
      /\ \A s \in ScopesIn(prog) : /\ scope'[s].at = scope[s].at /\ scope'[s].why = scope[s].why
                                   /\ scope'[s].id = scope[s].id
      /\ scope'[0].st = "forked"
      /\ \A b \in DOMAIN prog.branches : scope'[b].st \in {"ready", "off"}
  <2>1. scope \in [ScopesIn(prog) -> ScopeStates(prog)]
    BY <1>2 DEF ScopeTypes
  <2>2. ASSUME NEW r \in ScopeStates(prog), NEW x \in {"forked", "ready", "off"},
               NEW q, q = [r EXCEPT !.st = x]
        PROVE  /\ q \in ScopeStates(prog)
               /\ q.st = x /\ q.at = r.at /\ q.why = r.why /\ q.id = r.id
    BY <2>2 DEF ScopeStates
  <2>3. st \in {"forked", "ready", "off"}
    OBVIOUS
  <2>4. scope' = [s \in ScopesIn(prog) |-> IF s = 0 THEN [scope[0] EXCEPT !.st = "forked"]
                                           ELSE [scope[s] EXCEPT !.st = st]]
    BY <1>1, ScopesAre
  <2>5. st \in {"ready", "off"}
    OBVIOUS
  <2> HIDE DEF st
  <2>6. ASSUME NEW s \in ScopesIn(prog)
        PROVE  /\ scope'[s] \in ScopeStates(prog)
               /\ scope'[s].at = scope[s].at /\ scope'[s].why = scope[s].why
               /\ scope'[s].id = scope[s].id
               /\ scope'[s].st = IF s = 0 THEN "forked" ELSE st
    <3>1. PICK r \in ScopeStates(prog) : r = scope[s]
      BY <2>1
    <3>2. CASE s = 0
      <4>1. scope'[s] = [r EXCEPT !.st = "forked"]
        BY <2>4, <3>1, <3>2

      <4>2. /\ scope'[s] \in ScopeStates(prog)
            /\ scope'[s].st = "forked" /\ scope'[s].at = r.at
            /\ scope'[s].why = r.why /\ scope'[s].id = r.id
        BY <2>2, <4>1
      <4> QED BY <3>1, <3>2, <4>2
    <3>3. CASE s # 0
      <4>1. scope'[s] = [r EXCEPT !.st = st]
        BY <2>4, <3>1, <3>3
      <4>2. /\ scope'[s] \in ScopeStates(prog)
            /\ scope'[s].st = st /\ scope'[s].at = r.at
            /\ scope'[s].why = r.why /\ scope'[s].id = r.id
        BY <2>2, <2>3, <4>1
      <4> QED BY <3>1, <3>3, <4>2
    <3> QED BY <3>2, <3>3
  <2>7. scope' \in [ScopesIn(prog) -> ScopeStates(prog)]
    BY <2>4, <2>6
  <2>8. /\ 0 \in ScopesIn(prog)
        /\ \A b \in DOMAIN prog.branches : b \in ScopesIn(prog) /\ b # 0
    BY <1>2, BranchesAre
  <2> QED BY <2>5, <2>6, <2>7, <2>8
<1>7. \A s \in ScopesIn(prog) : scope[s].why # "yield"
  BY <1>2, <1>5, BranchesAre DEF PlaceInv
<1>8. ScopeTypes'
  BY <1>2, <1>3, <1>6 DEF ScopeTypes
<1>9. PlaceInv'
  <2>1. \A s \in ScopesIn(prog) :
          /\ scope'[s].st # "body" /\ scope'[s].why # "yield"
          /\ scope'[s].st = "forked" => s = 0
    BY <1>2, <1>6, <1>7, BranchesAre
  <2>2. 0 \in ScopesIn(prog) /\ scope'[0].at = scope[0].at /\ scope[0].at \in Nat
    BY <1>2, <1>6, BranchesAre, OneFork
  <2>3. \A i \in DOMAIN prog.root : prog.root[i].kind = "parallel" =>
          ~(scope'[0].at < i \/ (scope'[0].at = i /\ scope'[0].st = "ready"))
    BY <1>4, <1>6, <2>2
  <2> QED BY <1>2, <1>3, <2>1, <2>2, <2>3 DEF PlaceInv
<1>10. YieldInv'
  <2>1. \A b \in DOMAIN prog.branches : b \in ScopesIn(prog)
    BY <1>2, BranchesAre
  <2>2. 0 \in ScopesIn(prog)
    BY <1>2, BranchesAre
  <2> QED BY <1>2, <1>3, <1>6, <1>7, <2>1, <2>2 DEF YieldInv
<1>11. GuardStep
  BY <1>2, <1>3, GuardKept
<1>12. CountInv'
  <2>1. \A t \in ScopesIn(prog) :
           /\ scope[t].st \in {"off", "ready"} /\ scope'[t].at = scope[t].at
           /\ scope'[t].st \in {"off", "ready", "forked"}
    BY <1>2, <1>5, <1>6, BranchesAre
  <2> QED BY <1>2, <1>3, <1>11, <2>1, CountKept
<1> QED BY <1>1, <1>2, <1>8, <1>9, <1>10, <1>11, <1>12, RestKept

\* A branch that has started, or is passed over, is of a root that forked: no fan-out
\* is to come.
LEMMA Forked ==
  ASSUME PlaceInv, phase = "running", NEW i \in DOMAIN prog.root,
         prog.root[i].kind = "parallel", NEW b \in DOMAIN prog.branches, scope[b].st # "off"
  PROVE  ~(scope[0].at < i \/ (scope[0].at = i /\ scope[0].st = "ready"))
BY DEF PlaceInv

LEMMA BranchStartsKeeps ==
  ASSUME StepAssumption, NoColons, StepInv, NEW b \in Branches, BranchStarts(b)
  PROVE  StepInv'
<1> DEFINE st == IF cancelled /\ FailFast THEN "skipped" ELSE "ready"
<1>1. /\ phase = "running" /\ scope[0].st = "forked" /\ scope[b].st = "off"
      /\ scope' = [scope EXCEPT ![b].st = st]
      /\ UNCHANGED <<run, phase, counts, pending, failed, cancelled, steps, undos, response,
                     took, began>>
  BY DEF BranchStarts, ctx, hist
<1>2. /\ RunTypes /\ ScopeTypes /\ ContextTypes /\ PlaceInv /\ YieldInv
      /\ b \in DOMAIN prog.branches
  BY ScopesAre DEF StepInv, TypeInv
<1>3. UNCHANGED <<prog, counts, pending, failed>>
  BY <1>1 DEF run
<1>4. st \in {"ready", "skipped"}
  OBVIOUS
<1> HIDE DEF st
<1>5. /\ b \in ScopesIn(prog) /\ b # 0 /\ 0 \in ScopesIn(prog)
      /\ \A c \in DOMAIN prog.branches : c \in ScopesIn(prog) /\ c # 0
  BY <1>2, BranchesAre
<1>6. scope \in [ScopesIn(prog) -> ScopeStates(prog)]
  BY <1>2 DEF ScopeTypes
<1>7. /\ scope' \in [ScopesIn(prog) -> ScopeStates(prog)]
      /\ \A s \in ScopesIn(prog) : s # b => scope'[s] = scope[s]
      /\ scope'[b].st = st /\ scope'[b].at = scope[b].at
      /\ scope'[b].why = scope[b].why /\ scope'[b].id = scope[b].id
  <2>4. ASSUME NEW r \in ScopeStates(prog)
        PROVE  [r EXCEPT !.st = st] \in ScopeStates(prog)
    BY <1>4 DEF ScopeStates
  <2>5. scope' = [scope EXCEPT ![b] = [scope[b] EXCEPT !.st = st]]
    BY <1>1, <1>6
  <2>1. scope' \in [ScopesIn(prog) -> ScopeStates(prog)]
    BY <1>6, <2>4, <2>5
  <2>2. \A s \in ScopesIn(prog) : s # b => scope'[s] = scope[s]
    BY <1>1, <1>6
  <2>3. /\ scope'[b].st = st /\ scope'[b].at = scope[b].at
        /\ scope'[b].why = scope[b].why /\ scope'[b].id = scope[b].id
    BY <1>1, <1>5, <1>6 DEF ScopeStates
  <2> QED BY <2>1, <2>2, <2>3
<1>8. scope[b].why # "yield"
  BY <1>1, <1>2, <1>5 DEF PlaceInv
<1>9. ScopeTypes'
  BY <1>2, <1>3, <1>7 DEF ScopeTypes
<1>10. PlaceInv'
  <2>1. ASSUME NEW s \in ScopesIn(prog)
        PROVE  /\ scope'[s].st = "body" =>
                    Own(s)' \in OwnOps(prog) /\ scope'[s].id = IdOf(prog, Own(s)')
               /\ scope'[s].st = "forked" => /\ s = 0 /\ scope'[0].at \in DOMAIN prog.root
                                             /\ prog.root[scope'[0].at].kind = "parallel"
               /\ scope'[s].why = "yield" => scope'[s].st \in {"threw", "over"}
    <3>1. CASE s = b
      BY <1>4, <1>7, <1>8, <3>1
    <3>2. CASE s # b
      <4>1. scope'[s] = scope[s] /\ Own(s)' = Own(s) /\ scope'[0] = scope[0]
        BY <1>5, <1>7, <3>2 DEF Own
      <4> QED BY <1>2, <4>1 DEF PlaceInv
    <3> QED BY <3>1, <3>2
  <2>2. /\ scope[0].at \in DOMAIN prog.root /\ prog.root[scope[0].at].kind = "parallel"
    BY <1>1, <1>2, <1>5 DEF PlaceInv
  <2>3. \A i \in DOMAIN prog.root : prog.root[i].kind = "parallel" =>
          ~(scope'[0].at < i \/ (scope'[0].at = i /\ scope'[0].st = "ready"))
    <3>1. scope[0].at \in Nat /\ scope'[0] = scope[0]
      BY <1>2, <1>5, <1>7, <2>2, OneFork
    <3>2. \A i \in DOMAIN prog.root : prog.root[i].kind = "parallel" => i = scope[0].at
      BY <1>2, <2>2, OneFork
    <3> QED BY <1>1, <3>1, <3>2
  <2> QED BY <1>3, <2>1, <2>3 DEF PlaceInv
<1>11. YieldInv'
  <2>1. \A c \in DOMAIN prog.branches :
          /\ scope'[c].id = scope[c].id /\ scope'[c].why = scope[c].why
          /\ scope'[c].at = scope[c].at /\ Own(c)' = Own(c)
    BY <1>5, <1>7 DEF Own
  <2>2. scope'[0] = scope[0] /\ Own(0)' = Own(0)
    BY <1>5, <1>7 DEF Own
  <2> QED BY <1>2, <1>3, <2>1, <2>2 DEF YieldInv
<1>12. GuardStep
  BY <1>2, <1>3, GuardKept
<1>13. CountInv'
  <2>1. ASSUME NEW t \in ScopesIn(prog)
        PROVE  \/ scope'[t] = scope[t]
               \/ scope'[t].st \in {"over", "skipped"}
               \/ /\ scope[t].st \in {"off", "ready"} /\ scope'[t].at = scope[t].at
                  /\ scope'[t].st \in {"off", "ready", "forked"}
    BY <1>1, <1>4, <1>7
  <2> QED BY <1>1, <1>3, <1>12, <2>1, CountKept
<1>14. cancelled' \in BOOLEAN
  BY <1>1, <1>2 DEF ContextTypes
<1> QED BY <1>1, <1>9, <1>10, <1>11, <1>12, <1>13, <1>14, RestKept

LEMMA OutcomeIs ==
  ASSUME ContextTypes, NEW b \in ScopesIn(prog), ScopeTypes
  PROVE  /\ Outcome(b) \in {"none", "ok", "yield", "swallowed", "retry", "fatal"}
         /\ scope[b].st = "threw" /\ scope[b].why = "yield" => Outcome(b) = "yield"
         /\ Outcome(b) = "yield" => scope[b].st = "threw" /\ scope[b].why = "yield"
<1>1. scope[b].why \in {"none", "ok", "yield", "swallowed", "retry", "fatal"}
  BY DEF ScopeTypes, ScopeStates
<1> QED BY <1>1 DEF Outcome

LEMMA BranchEndsKeeps ==
  ASSUME StepAssumption, NoColons, StepInv, NEW b \in Branches, BranchEnds(b)
  PROVE  StepInv'
<1> DEFINE why == Outcome(b)
<1>1. /\ phase = "running" /\ scope[b].st \in {"threw", "ready"}
      /\ scope' = [scope EXCEPT ![b].st = "over", ![b].why = why]
      /\ UNCHANGED failed \/ NoteFailure(b)
      /\ cancelled' = (cancelled \/ why = "yield" \/ (why # "ok" /\ FailFast))
      /\ UNCHANGED <<run, phase, counts, pending, steps, undos, response, took, began>>
  BY DEF BranchEnds, hist
<1>2. /\ RunTypes /\ ScopeTypes /\ ContextTypes /\ PlaceInv /\ YieldInv
      /\ b \in DOMAIN prog.branches
  BY ScopesAre DEF StepInv, TypeInv
<1>3. UNCHANGED <<prog, counts, pending>>
  BY <1>1 DEF run
<1>5. /\ b \in ScopesIn(prog) /\ b # 0 /\ 0 \in ScopesIn(prog)
      /\ \A c \in DOMAIN prog.branches : c \in ScopesIn(prog) /\ c # 0
  BY <1>2, BranchesAre
<1>4. /\ why \in {"none", "ok", "yield", "swallowed", "retry", "fatal"}
      /\ why = "yield" <=> scope[b].why = "yield"
  <2>1. scope[b].why = "yield" => scope[b].st = "threw"
    BY <1>1, <1>2, <1>5 DEF PlaceInv
  <2> QED BY <1>2, <1>5, <2>1, OutcomeIs
<1> HIDE DEF why
<1>6. scope \in [ScopesIn(prog) -> ScopeStates(prog)]
  BY <1>2 DEF ScopeTypes
<1>7. /\ scope' \in [ScopesIn(prog) -> ScopeStates(prog)]
      /\ \A s \in ScopesIn(prog) : s # b => scope'[s] = scope[s]
      /\ scope'[b].st = "over" /\ scope'[b].at = scope[b].at
      /\ scope'[b].why = why /\ scope'[b].id = scope[b].id
  <2>4. ASSUME NEW r \in ScopeStates(prog)
        PROVE  [r EXCEPT !.st = "over", !.why = why] \in ScopeStates(prog)
    BY <1>4 DEF ScopeStates
  <2>5. scope' = [scope EXCEPT ![b] = [scope[b] EXCEPT !.st = "over", !.why = why]]
    BY <1>1, <1>6
  <2>1. scope' \in [ScopesIn(prog) -> ScopeStates(prog)]
    BY <1>6, <2>4, <2>5
  <2>2. \A s \in ScopesIn(prog) : s # b => scope'[s] = scope[s]
    BY <1>1, <1>6
  <2>3. /\ scope'[b].st = "over" /\ scope'[b].at = scope[b].at
        /\ scope'[b].why = why /\ scope'[b].id = scope[b].id
    BY <1>1, <1>5, <1>6 DEF ScopeStates
  <2> QED BY <2>1, <2>2, <2>3
<1>9. ScopeTypes'
  BY <1>2, <1>3, <1>7 DEF ScopeTypes
<1>10. PlaceInv'
  <2>1. ASSUME NEW s \in ScopesIn(prog)
        PROVE  /\ scope'[s].st = "body" =>
                    Own(s)' \in OwnOps(prog) /\ scope'[s].id = IdOf(prog, Own(s)')
               /\ scope'[s].st = "forked" => /\ s = 0 /\ scope'[0].at \in DOMAIN prog.root
                                             /\ prog.root[scope'[0].at].kind = "parallel"
               /\ scope'[s].why = "yield" => scope'[s].st \in {"threw", "over"}
    <3>1. CASE s = b
      BY <1>7, <3>1
    <3>2. CASE s # b
      <4>1. scope'[s] = scope[s] /\ Own(s)' = Own(s) /\ scope'[0] = scope[0]
        BY <1>5, <1>7, <3>2 DEF Own
      <4> QED BY <1>2, <4>1 DEF PlaceInv
    <3> QED BY <3>1, <3>2
  <2>2. \A i \in DOMAIN prog.root : prog.root[i].kind = "parallel" =>
          ~(scope'[0].at < i \/ (scope'[0].at = i /\ scope'[0].st = "ready"))
    <3>1. scope'[0] = scope[0] /\ scope[b].st # "off"
      BY <1>1, <1>5, <1>7
    <3> QED BY <1>1, <1>2, <3>1, Forked
  <2> QED BY <1>3, <2>1, <2>2 DEF PlaceInv
<1>11. YieldInv'
  <2>1. \A c \in DOMAIN prog.branches :
          /\ scope'[c].id = scope[c].id /\ (scope'[c].why = "yield" <=> scope[c].why = "yield")
          /\ scope'[c].at = scope[c].at /\ Own(c)' = Own(c)
    BY <1>4, <1>5, <1>7 DEF Own
  <2>2. scope'[0] = scope[0] /\ Own(0)' = Own(0)
    BY <1>5, <1>7 DEF Own
  <2> QED BY <1>2, <1>3, <2>1, <2>2 DEF YieldInv
<1>12. GuardStep
  BY <1>1, <1>2, <1>3, <1>5, GuardKept, FailureNoted
<1>13. CountInv'
  <2>1. ASSUME NEW t \in ScopesIn(prog)
        PROVE  scope'[t] = scope[t] \/ scope'[t].st \in {"over", "skipped"}
    BY <1>7
  <2> QED BY <1>1, <1>3, <1>12, <2>1, CountKept
<1>14. cancelled' \in BOOLEAN
  BY <1>1, <1>2 DEF ContextTypes
<1> QED BY <1>1, <1>9, <1>10, <1>11, <1>12, <1>13, <1>14, RestKept

\* The first branch that ended so.
LEMMA FirstIs ==
  ASSUME StepAssumption, RunTypes, NEW why, NEW c \in Branches, scope[c].why = why
  PROVE  First(why) \in Branches /\ scope[First(why)].why = why
<1> DEFINE S == {b \in Branches : scope[b].why = why}
<1>1. S \in SUBSET Nat /\ S # {}
  BY BranchesAre, ScopesAre
<1>2. PICK b \in S : \A d \in S : b <= d
  BY <1>1, LeastScope
<1>3. b \in Branches /\ scope[b].why = why
  OBVIOUS
<1>4. ASSUME NEW d \in Branches, d < b PROVE scope[d].why # why
  <2>1. d \in Nat /\ b \in Nat
    BY BranchesAre, ScopesAre
  <2>2. d \notin S
    BY <1>2, <1>4, <2>1
  <2> QED BY <2>2
<1> HIDE DEF S
<1>5. \E x \in Branches : scope[x].why = why /\ \A d \in Branches : d < x => scope[d].why # why
  BY <1>3, <1>4
<1> QED BY <1>5 DEF First

LEMMA JoinKeeps ==
  ASSUME StepAssumption, NoColons, StepInv, Join
  PROVE  StepInv'
<1>1. /\ phase = "running" /\ scope[0].st = "forked"
      /\ \/ \E error \in Errors : Throw(0, error) /\ UNCHANGED pending
         \/ Advance(0) /\ (UNCHANGED pending \/ pending' = [pending EXCEPT ![0] = TRUE])
         \/ /\ \E b \in Branches : scope[b].why = "yield"
            /\ pending' = [pending EXCEPT ![0] = TRUE]
            /\ scope' = [scope EXCEPT ![0].st = "threw", ![0].why = "yield",
                                      ![0].id = scope[First("yield")].id]
      /\ UNCHANGED <<run, phase, counts, failed, cancelled, steps, undos, response, took, began>>
  BY DEF Join, Errors
<1>2. /\ RunTypes /\ ScopeTypes /\ ContextTypes /\ PlaceInv /\ YieldInv /\ prog \in Programs
  BY DEF StepInv, TypeInv, RunTypes
<1>3. UNCHANGED <<prog, counts, failed>>
  BY <1>1 DEF run
<1>4. /\ 0 \in ScopesIn(prog) /\ 0 \in Scopes
      /\ \A b \in DOMAIN prog.branches : b \in ScopesIn(prog) /\ b # 0
  BY <1>2, BranchesAre, ScopesAre
<1>5. /\ scope[0].at \in DOMAIN prog.root /\ prog.root[scope[0].at].kind = "parallel"
      /\ scope[0].why # "yield"
  BY <1>1, <1>2, <1>4 DEF PlaceInv
<1>6. /\ scope[0].at \in Nat /\ scope[0].at \in DOMAIN Ops(0) /\ Here(0).kind = "parallel"
      /\ \A i \in DOMAIN prog.root : prog.root[i].kind = "parallel" => i = scope[0].at
  BY <1>2, <1>5, OneFork, ScopesAre DEF OpsIn
<1>7. \/ Goes(0, scope[0].at + 1, "ready", scope[0].why, scope[0].id)
      \/ \E error \in Errors : Goes(0, scope[0].at, "threw", error, scope[0].id)
      \/ \E b \in DOMAIN prog.branches :
           scope[b].why = "yield" /\ Goes(0, scope[0].at, "threw", "yield", scope[b].id)
  <2>1. CASE \E error \in Errors : Throw(0, error)
    BY <1>2, <1>4, <2>1, Thrown, Advanced
  <2>2. CASE Advance(0)
    BY <1>2, <1>4, <2>2, Advanced
  <2>3. CASE /\ \E b \in Branches : scope[b].why = "yield"
             /\ scope' = [scope EXCEPT ![0].st = "threw", ![0].why = "yield",
                                       ![0].id = scope[First("yield")].id]
    <3> DEFINE b == First("yield")
    <3>1. b \in DOMAIN prog.branches /\ scope[b].why = "yield"
      BY <1>2, <2>3, FirstIs, ScopesAre
    <3>2. scope[b].id \in Ids(prog)
      BY <1>2, <1>4, <3>1 DEF ScopeTypes, ScopeStates
    <3>3. scope' = [scope EXCEPT ![0].st = "threw", ![0].why = "yield", ![0].id = scope[b].id]
      BY <2>3
    <3> HIDE DEF b
    <3>4. Goes(0, scope[0].at, "threw", "yield", scope[b].id)
      BY <1>2, <1>4, <3>2, <3>3, Located
    <3> QED BY <3>1, <3>4
  <2> QED BY <1>1, <2>1, <2>2, <2>3
<1>8. /\ scope' \in [ScopesIn(prog) -> ScopeStates(prog)]
      /\ \A b \in DOMAIN prog.branches : scope'[b] = scope[b] /\ Own(b)' = Own(b)
      /\ \/ scope'[0].st = "ready" /\ scope'[0].at = scope[0].at + 1
         \/ scope'[0].st = "threw" /\ scope'[0].at = scope[0].at
      /\ scope'[0].why = "yield" =>
           /\ scope'[0].st = "threw"
           /\ \E b \in DOMAIN prog.branches :
                scope[b].why = "yield" /\ scope[b].id = scope'[0].id
  <2>1. /\ scope' \in [ScopesIn(prog) -> ScopeStates(prog)]
        /\ \A b \in DOMAIN prog.branches : scope'[b] = scope[b]
    BY <1>4, <1>7 DEF Goes
  <2>2. /\ \/ scope'[0].st = "ready" /\ scope'[0].at = scope[0].at + 1
           \/ scope'[0].st = "threw" /\ scope'[0].at = scope[0].at
        /\ scope'[0].why = "yield" =>
             /\ scope'[0].st = "threw"
             /\ \E b \in DOMAIN prog.branches :
                  scope[b].why = "yield" /\ scope[b].id = scope'[0].id
    BY <1>5, <1>7 DEF Goes, Errors
  <2> QED BY <2>1, <2>2 DEF Own
<1>9. \A s \in ScopesIn(prog) : s # 0 => s \in DOMAIN prog.branches
  BY DEF ScopesIn
<1>10. ScopeTypes'
  <2>1. scope'[0].at \in 1 .. Len(OpsIn(prog, 0)) + 1
    <3>1. scope[0].at \in 1 .. Len(OpsIn(prog, 0)) /\ Len(OpsIn(prog, 0)) \in Nat
      <4>1. OpsIn(prog, 0) \in Seq(Operations)
        BY <1>2, <1>4, HandlerShape
      <4>2. scope[0].at \in DOMAIN OpsIn(prog, 0)
        BY <1>6, ScopesAre
      <4> QED BY <4>1, <4>2
    <3> QED BY <1>8, <3>1
  <2>2. \A s \in ScopesIn(prog) : scope'[s].at \in 1 .. Len(OpsIn(prog, s)) + 1
    BY <1>2, <1>8, <1>9, <2>1 DEF ScopeTypes
  <2> QED BY <1>3, <1>8, <2>2 DEF ScopeTypes
<1>11. PlaceInv'
  <2>1. ASSUME NEW s \in ScopesIn(prog)
        PROVE  /\ scope'[s].st = "body" =>
                    Own(s)' \in OwnOps(prog) /\ scope'[s].id = IdOf(prog, Own(s)')
               /\ scope'[s].st # "forked" \/ (s # 0 /\ scope[s].st = "forked")
               /\ scope'[s].why = "yield" => scope'[s].st \in {"threw", "over"}
    <3>1. CASE s = 0
      BY <1>8, <3>1
    <3>2. CASE s # 0
      <4>1. scope'[s] = scope[s] /\ Own(s)' = Own(s)
        BY <1>8, <1>9, <3>2
      <4> QED BY <1>2, <3>2, <4>1 DEF PlaceInv
    <3> QED BY <3>1, <3>2
  <2>2. \A s \in ScopesIn(prog) : scope'[s].st # "forked"
    BY <1>2, <2>1 DEF PlaceInv
  <2>3. \A i \in DOMAIN prog.root : prog.root[i].kind = "parallel" =>
          ~(scope'[0].at < i \/ (scope'[0].at = i /\ scope'[0].st = "ready"))
    BY <1>6, <1>8
  <2> QED BY <1>3, <2>1, <2>2, <2>3 DEF PlaceInv
<1>12. YieldInv'
  BY <1>2, <1>3, <1>8 DEF YieldInv
<1>13. GuardStep
  <2>1. CASE UNCHANGED pending
    BY <1>2, <1>3, <2>1, GuardKept
  <2>2. CASE pending' = [pending EXCEPT ![0] = TRUE]
    BY <1>2, <1>3, <1>4, <2>2, YieldNoted
  <2> QED BY <1>1, <2>1, <2>2
<1>14. CountInv'
  <2>1. CountStep(0)
    BY <1>1, <1>3, <1>4, <1>6, <1>8, <1>13, NotCounted DEF Durable
  <2>2. ASSUME NEW t \in ScopesIn(prog)
        PROVE  scope'[t] = scope[t] \/ CountStep(t)
    BY <1>8, <1>9, <2>1
  <2> QED BY <1>1, <1>3, <1>13, <2>2, CountKept
<1>15. cancelled' \in BOOLEAN
  BY <1>1, <1>2 DEF ContextTypes
<1> QED BY <1>1, <1>10, <1>11, <1>12, <1>13, <1>14, <1>15, RestKept

-----------------------------------------------------------------------------
(* The invocation around a handler.                                        *)

ResponseStatuses == {"none", "completed", "yielded", "failed"}

ResponseType(h, ss) == [status : ResponseStatuses, retryable : BOOLEAN, steps : {ss}, id : Ids(h)]

LEMMA NoResponseIs ==
  ASSUME NEW h
  PROVE  /\ NoResponse \in ResponseType(h, <<>>)
         /\ NoResponse.status = "none" /\ NoResponse.steps = <<>> /\ NoResponse.retryable = FALSE
BY DEF NoResponse, ResponseType, ResponseStatuses, Ids



\* What an answer must be, for the invariant: its steps are those of the invocation
\* that JSON can encode, and it yields for what the root yielded for.
Answerable(r) ==
  /\ r \in ResponseType(prog, r.steps)
  /\ \A i \in DOMAIN r.steps : /\ i \in DOMAIN steps /\ r.steps[i] = steps[i]
                               /\ steps[i].status # "bad"
  /\ r.status = "yielded" => scope[0].why = "yield" /\ r.id = scope[0].id

\* The handler, or its compensations, are over.
LEMMA AnsweredKeeps ==
  ASSUME StepInv, phase \in {"running", "undoing"}, phase' \in {"undoing", "answered"},
         UNCHANGED <<run, scope, ctx, hist>>, Answerable(response')
  PROVE  StepInv'
<1>1. UNCHANGED <<prog, rows, awaited, resume, counts, pending, failed, cancelled, steps, undos,
                  scope, took, began>>
  BY DEF run, ctx, hist
<1>2. TypeInv'
  <2>1. RunTypes'
    BY DEF StepInv, TypeInv, RunTypes, run
  <2>2. ScopeTypes' /\ ContextTypes'
    BY <1>1 DEF StepInv, TypeInv, ScopeTypes, ContextTypes
  <2>3. ResultTypes'
    <3>1. steps' \in Seq(Results(prog'))
      BY <1>1 DEF StepInv, TypeInv, ResultTypes
    <3>2. /\ response' \in [status : {"none", "completed", "yielded", "failed"},
                            retryable : BOOLEAN, steps : {response'.steps}, id : Ids(prog')]
          /\ \A i \in DOMAIN response'.steps :
               /\ i \in DOMAIN steps' /\ response'.steps[i] = steps'[i]
               /\ steps'[i].status # "bad"
      BY <1>1 DEF Answerable, ResponseType, ResponseStatuses
    <3>3. /\ \A id \in DOMAIN rows' : /\ rows'[id].status \in RowStatuses
                                      /\ GoodPair(prog', id, rows'[id].op)
          /\ \A i \in DOMAIN steps' : steps'[i].status = "kept" => ShouldSkipStep(steps'[i].id)
      BY <1>1 DEF StepInv, TypeInv, ResultTypes
    <3> QED BY <1>1, <3>1, <3>2, <3>3 DEF ResultTypes, ShouldSkipStep, Status
  <2> QED BY <2>1, <2>2, <2>3 DEF TypeInv
<1>3. PlaceInv' /\ YieldInv' /\ CountInv'
  <2>1. phase' # "running"
    OBVIOUS
  <2> QED BY <1>1, <2>1 DEF StepInv, PlaceInv, YieldInv, CountInv, Own
<1>4. AwaitInv'
  BY <1>1 DEF StepInv, AwaitInv, Answerable
<1>5. MemoInv'
  BY <1>1 DEF StepInv, MemoInv, MemoIsOwn
<1> QED BY <1>2, <1>3, <1>4, <1>5 DEF StepInv

LEMMA ReportedIs ==
  ASSUME NEW i \in DOMAIN Reported
  PROVE  i \in DOMAIN steps /\ Reported[i] = steps[i] /\ steps[i].status # "bad"
BY DEF Reported

LEMMA HandlerEndsKeeps ==
  ASSUME StepInv, HandlerEnds
  PROVE  StepInv'
<1> DEFINE retryable == Error = "retry"
           undoing == [NoResponse EXCEPT !.retryable = retryable]
           failing == [NoResponse EXCEPT !.status = "failed", !.retryable = retryable,
                                         !.steps = Reported]
           whole   == [NoResponse EXCEPT !.status = "completed", !.steps = steps]
           yielding == [NoResponse EXCEPT !.status = "yielded", !.steps = steps,
                                          !.id = scope[0].id]
<1>1. /\ phase = "running" /\ UNCHANGED <<run, scope, ctx, hist>>
      /\ \/ Encodable /\ phase' = "answered" /\ response' = whole
         \/ Error = "yield" /\ Encodable /\ phase' = "answered" /\ response' = yielding
         \/ phase' = "undoing" /\ response' = undoing
         \/ phase' = "answered" /\ response' = failing
  BY DEF HandlerEnds, Fails, Answer
<1>2. PICK rt \in BOOLEAN : rt = retryable
  BY Zenon
<1>3. scope[0].id \in Ids(prog)
  <2>1. 0 \in ScopesIn(prog)
    BY DEF ScopesIn
  <2> QED BY <2>1 DEF StepInv, TypeInv, ScopeTypes, ScopeStates
<1>4. Error = "yield" => scope[0].why = "yield"
  BY DEF Error
<1>5. /\ NoResponse \in ResponseType(prog, <<>>)
      /\ NoResponse.status = "none" /\ NoResponse.steps = <<>>
  BY NoResponseIs
<1>6. None \in Ids(prog)
  BY DEF Ids
<1>7. ASSUME Encodable, response' = whole PROVE Answerable(response')
  <2>1. /\ response' \in ResponseType(prog, response'.steps)
        /\ response'.status = "completed" /\ response'.steps = steps
    BY <1>5, <1>7 DEF ResponseType, ResponseStatuses
  <2> QED BY <1>7, <2>1 DEF Answerable, Encodable
<1>8. ASSUME Error = "yield", Encodable, response' = yielding PROVE Answerable(response')
  <2>1. PICK id \in Ids(prog) : id = scope[0].id
    BY <1>3
  <2>3. response' = [NoResponse EXCEPT !.status = "yielded", !.steps = steps, !.id = id]
    BY <1>8, <2>1
  <2>2. /\ response' \in ResponseType(prog, response'.steps)
        /\ response'.steps = steps /\ response'.id = scope[0].id
    BY <1>5, <2>1, <2>3 DEF ResponseType, ResponseStatuses
  <2> QED BY <1>4, <1>8, <2>1, <2>2 DEF Answerable, Encodable
<1>9. ASSUME response' = undoing PROVE Answerable(response')
  <2>1. /\ response' \in ResponseType(prog, response'.steps)
        /\ response'.status = "none" /\ response'.steps = <<>>
    <3>1. response' = [NoResponse EXCEPT !.retryable = rt]
      BY <1>2, <1>9
    <3> QED BY <1>2, <1>5, <3>1 DEF ResponseType, ResponseStatuses
  <2> QED BY <2>1 DEF Answerable
<1>10. ASSUME response' = failing PROVE Answerable(response')
  <2>1. /\ response' \in ResponseType(prog, response'.steps)
        /\ response'.status = "failed" /\ response'.steps = Reported
    <3>1. response' = [NoResponse EXCEPT !.status = "failed", !.retryable = rt,
                                         !.steps = Reported]
      BY <1>2, <1>10
    <3> QED BY <1>2, <1>5, <3>1 DEF ResponseType, ResponseStatuses
  <2>2. \A i \in DOMAIN response'.steps :
          /\ i \in DOMAIN steps /\ response'.steps[i] = steps[i] /\ steps[i].status # "bad"
    BY <2>1, ReportedIs
  <2> QED BY <2>1, <2>2 DEF Answerable
<1> HIDE DEF retryable, undoing, failing, whole, yielding
<1>11. Answerable(response')
  BY <1>1, <1>7, <1>8, <1>9, <1>10
<1> QED BY <1>1, <1>11, AnsweredKeeps

LEMMA AllUndoneKeeps ==
  ASSUME StepInv, AllUndone
  PROVE  StepInv'
<1>1. /\ phase = "undoing" /\ phase' = "answered" /\ UNCHANGED <<run, scope, ctx, hist>>
      /\ response' = [response EXCEPT !.status = "failed", !.steps = Reported]
  BY DEF AllUndone, Answer
<1>2. response \in ResponseType(prog, response.steps)
  BY DEF StepInv, TypeInv, ResultTypes, ResponseType, ResponseStatuses
<1>3. /\ response' \in ResponseType(prog, response'.steps)
      /\ response'.status = "failed" /\ response'.steps = Reported
  BY <1>1, <1>2 DEF ResponseType, ResponseStatuses
<1>4. Answerable(response')
  BY <1>3, ReportedIs DEF Answerable
<1> QED BY <1>1, <1>4, AnsweredKeeps

LEMMA UndoneIsNat ==
  ASSUME StepInv PROVE Undone \in Nat
<1> DEFINE S == {i \in DOMAIN steps : steps[i].status \in {"undone", "not undone", "kept"}}
<1>1. Len(steps) \in Nat /\ DOMAIN steps = 1 .. Len(steps)
  BY DEF StepInv, TypeInv, ResultTypes
<1>2. S \subseteq 1 .. Len(steps)
  BY <1>1
<1>4. IsFiniteSet(1 .. Len(steps))
  BY <1>1, FS_Interval
<1>3. IsFiniteSet(S)
  BY <1>2, <1>4, FS_Subset
<1> QED BY <1>3, FS_CardinalityType DEF Undone

LEMMA CompensationIs ==
  ASSUME StepAssumption, NoColons, RunTypes, NEW name \in NamesIn(prog)
  PROVE  CompensationId(name) = UndoIdOf(name)
<1>1. prog \in Programs
  BY DEF RunTypes
<1>2. PICK s \in ScopesIn(prog) : \E i \in DOMAIN OpsIn(prog, s) : name = OpsIn(prog, s)[i].name
  BY DEF NamesIn
<1>3. name \in Seq(STRING) /\ Len(name) = 1
  BY <1>1, <1>2, HandlerShape
<1>4. Escaped(name) = <<name>> /\ Unescaped(name) = <<name>>
  BY <1>3, OnePart
<1> QED BY <1>4 DEF CompensationId, PreferLegacyStepId, UndoIdOf

UndoStatuses == {"undone", "not undone", "kept"}

LEMMA UndoNextKeeps ==
  ASSUME StepAssumption, NoColons, StepInv, NEW kind \in UndoStatuses, UndoNext(kind)
  PROVE  StepInv'
<1> DEFINE name == undos[Len(undos) - Undone]
           id   == CompensationId(name)
           r    == Result(id, NoOp, kind)
<1>1. /\ phase = "undoing" /\ Undone < Len(undos) /\ (ShouldSkipStep(id) <=> kind = "kept")
      /\ steps' = Append(steps, r)
      /\ UNCHANGED <<run, phase, scope, counts, pending, failed, cancelled, undos,
                     response, took, began>>
  BY DEF UndoNext, hist
<1>2. UNCHANGED <<prog, rows, awaited, resume, scope>>
  BY <1>1 DEF run
<1>3. /\ RunTypes /\ steps \in Seq(Results(prog)) /\ undos \in Seq(NamesIn(prog))
  BY DEF StepInv, TypeInv, ContextTypes, ResultTypes
<1>4. name \in NamesIn(prog)
  <2>1. Undone \in Nat
    BY UndoneIsNat
  <2>2. Undone < Len(undos)
    BY <1>1
  <2>3. Len(undos) - Undone \in DOMAIN undos
    BY <1>3, <2>1, <2>2
  <2> QED BY <1>3, <2>3
<1>5. id = UndoIdOf(name) /\ Len(id) = 3
  BY <1>3, <1>4, CompensationIs, UndoIdShape
<1> HIDE DEF id, name
<1>6. r \in Results(prog) /\ r.status = kind /\ r.id = id
  <2>1. GoodPair(prog, id, NoOp)
    BY <1>5 DEF GoodPair
  <2>2. id \in Ids(prog) \cup {UndoIdOf(n) : n \in NamesIn(prog)}
    BY <1>4, <1>5
  <2>3. kind \in ResultStatuses
    BY DEF ResultStatuses, UndoStatuses
  <2> QED BY <2>1, <2>2, <2>3 DEF Result, Results
<1> HIDE DEF r
<1>7. /\ steps' \in Seq(Results(prog))
      /\ \A i \in DOMAIN steps : i \in DOMAIN steps' /\ steps'[i] = steps[i]
      /\ \A i \in DOMAIN steps' : i \in DOMAIN steps \/ steps'[i] = r
  BY <1>1, <1>3, <1>6
<1>8. TypeInv'
  <2>1. RunTypes'
    BY <1>1 DEF StepInv, TypeInv, RunTypes, run
  <2>2. ScopeTypes' /\ ContextTypes'
    BY <1>1, <1>2 DEF StepInv, TypeInv, ScopeTypes, ContextTypes
  <2>3. ResultTypes'
    <3>1. \A i \in DOMAIN response.steps : /\ i \in DOMAIN steps' /\ response.steps[i] = steps'[i]
                                           /\ steps'[i].status # "bad"
      BY <1>7 DEF StepInv, TypeInv, ResultTypes
    <3>2. \A i \in DOMAIN steps' : steps'[i].status = "kept" => ShouldSkipStep(steps'[i].id)
      <4>1. \A i \in DOMAIN steps : steps[i].status = "kept" => ShouldSkipStep(steps[i].id)
        BY <1>1 DEF StepInv, TypeInv, ResultTypes
      <4> QED BY <1>1, <1>6, <1>7, <4>1
    <3> QED BY <1>1, <1>2, <1>7, <3>1, <3>2 DEF StepInv, TypeInv, ResultTypes, ShouldSkipStep, Status
  <2> QED BY <2>1, <2>2, <2>3 DEF TypeInv
<1>9. PlaceInv' /\ YieldInv' /\ CountInv'
  <2>1. phase' # "running"
    BY <1>1
  <2> QED BY <1>2, <2>1 DEF StepInv, PlaceInv, YieldInv, CountInv, Own
<1>10. AwaitInv' /\ MemoInv'
  BY <1>1, <1>2 DEF StepInv, AwaitInv, MemoInv, MemoIsOwn
<1> QED BY <1>8, <1>9, <1>10 DEF StepInv

-----------------------------------------------------------------------------
(* The engine.                                                             *)

LEMMA FreshIs ==
  ASSUME NEW h, NEW r, r = Fresh \/ r = [Fresh EXCEPT !.st = "ready"]
  PROVE  /\ r \in ScopeStates(h) /\ r.at = 1 /\ r.why = "none" /\ r.id = None
         /\ r.st \in {"off", "ready"} /\ (r = Fresh => r.st = "off")
<1>1. /\ Fresh \in ScopeStates(h) /\ Fresh.at = 1 /\ Fresh.why = "none" /\ Fresh.id = None
      /\ Fresh.st = "off"
  BY DEF Fresh, ScopeStates, Ids
<1>2. CASE r = Fresh
  BY <1>1, <1>2
<1>3. CASE r = [Fresh EXCEPT !.st = "ready"]
  BY <1>1, <1>3 DEF ScopeStates
<1> QED BY <1>2, <1>3

\* What an invocation begins with.
Begins ==
  /\ scope' \in [ScopesIn(prog) -> ScopeStates(prog)]
  /\ \A s \in ScopesIn(prog) :
       /\ scope'[s].at = 1 /\ scope'[s].why = "none" /\ scope'[s].id = None
       /\ scope'[s].st \in {"off", "ready"} /\ (s # 0 => scope'[s].st = "off")
  /\ counts' = [s \in ScopesIn(prog) |-> [n \in NamesIn(prog) |-> 0]]
  /\ pending' = [s \in ScopesIn(prog) |-> FALSE]
  /\ failed' = FALSE /\ cancelled' = FALSE /\ steps' = <<>> /\ undos' = <<>>
  /\ took' = {} /\ began' = {}
  /\ phase' \in {"none", "running", "answered"}
  /\ response' \in ResponseType(prog', <<>>) /\ response'.status # "yielded"

LEMMA BeginningHolds ==
  ASSUME StepAssumption, NoColons, RunTypes', prog' = prog, awaited' = None, resume'.kind = "none"
         \/ resume'.id \in DOMAIN rows',
         \A id \in DOMAIN rows' :
           rows'[id].status \in RowStatuses /\ GoodPair(prog', id, rows'[id].op),
         Begins
  PROVE  StepInv'
<1>1. prog \in Programs /\ prog' = prog
  BY DEF RunTypes
<1>2. ScopeTypes'
  <2>1. ASSUME NEW s \in ScopesIn(prog) PROVE 1 \in 1 .. Len(OpsIn(prog, s)) + 1
    <3>1. Len(OpsIn(prog, s)) \in Nat
      BY <1>1, HandlerShape
    <3> QED BY <3>1
  <2> QED BY <1>1, <2>1 DEF Begins, ScopeTypes
<1>3. ContextTypes'
  <2>1. counts' \in [ScopesIn(prog) -> [NamesIn(prog) -> Nat]]
    BY DEF Begins
  <2>2. pending' \in [ScopesIn(prog) -> BOOLEAN]
    BY DEF Begins
  <2>3. failed' = FALSE /\ cancelled' = FALSE /\ undos' = <<>>
    BY DEF Begins
  <2>4. <<>> \in Seq(NamesIn(prog))
    BY EmptySeq
  <2> QED BY <1>1, <2>1, <2>2, <2>3, <2>4 DEF ContextTypes
<1>4. ResultTypes'
  <2>1. response'.steps = <<>> /\ response' \in ResponseType(prog', response'.steps)
    BY DEF Begins, ResponseType
  <2> QED BY <2>1 DEF Begins, ResultTypes, ResponseType, ResponseStatuses
<1>5. PlaceInv'
  <2>1. \A b \in DOMAIN prog.branches : b \in ScopesIn(prog) /\ b # 0
    BY <1>1, BranchesAre, ProgramsAre DEF ScopesIn
  <2> QED BY <1>1, <2>1 DEF Begins, PlaceInv
<1>6. YieldInv'
  <2>1. \A b \in DOMAIN prog.branches : b \in ScopesIn(prog)
    BY DEF ScopesIn
  <2>2. 0 \in ScopesIn(prog)
    BY DEF ScopesIn
  <2> QED BY <1>1, <2>1, <2>2 DEF Begins, YieldInv
<1>7. CountInv'
  <2>1. ASSUME NEW s \in ScopesIn(prog), NEW name \in NamesIn(prog)
        PROVE  counts'[s][name] = Nth(prog, s, 1, name)
    BY NthFirst DEF Begins
  <2> QED BY <1>1, <2>1 DEF Begins, CountInv, Numbered
<1>8. AwaitInv'
  BY DEF Begins, AwaitInv
<1>9. MemoInv'
  BY DEF Begins, MemoInv, MemoIsOwn
<1> QED BY <1>2, <1>3, <1>4, <1>5, <1>6, <1>7, <1>8, <1>9 DEF StepInv, TypeInv

LEMMA EngineInvokesKeeps ==
  ASSUME StepAssumption, NoColons, StepInv, EngineInvokes
  PROVE  StepInv'
<1>1. /\ awaited = None /\ UNCHANGED run
      /\ scope' = [s \in Scopes |-> IF s = 0 THEN [Fresh EXCEPT !.st = "ready"] ELSE Fresh]
      /\ counts' = [s \in Scopes |-> [n \in Names |-> 0]]
      /\ pending' = [s \in Scopes |-> FALSE]
      /\ failed' = FALSE /\ cancelled' = FALSE /\ steps' = <<>> /\ undos' = <<>>
      /\ took' = {} /\ began' = {}
      /\ \/ phase' = "running" /\ response' = NoResponse
         \/ phase' = "answered" /\ response' = [NoResponse EXCEPT !.status = "failed"]
  BY DEF EngineInvokes, Answer
<1>2. UNCHANGED <<prog, attempt, over, rows, resume, awaited>>
  BY <1>1 DEF run
<1>3. RunTypes' /\ RunTypes
  BY <1>1, <1>2 DEF StepInv, TypeInv, RunTypes
<1>4. /\ resume'.kind = "none" \/ resume'.id \in DOMAIN rows'
      /\ \A id \in DOMAIN rows' :
           rows'[id].status \in RowStatuses /\ GoodPair(prog', id, rows'[id].op)
  BY <1>2 DEF StepInv, AwaitInv, TypeInv, ResultTypes
<1>5. Begins
  <2>1. scope' = [s \in ScopesIn(prog) |-> IF s = 0 THEN [Fresh EXCEPT !.st = "ready"] ELSE Fresh]
    BY <1>1, ScopesAre
  <2>2. ASSUME NEW s \in ScopesIn(prog)
        PROVE  /\ scope'[s] \in ScopeStates(prog)
               /\ scope'[s].at = 1 /\ scope'[s].why = "none" /\ scope'[s].id = None
               /\ scope'[s].st \in {"off", "ready"} /\ (s # 0 => scope'[s].st = "off")
    <3>1. scope'[s] = IF s = 0 THEN [Fresh EXCEPT !.st = "ready"] ELSE Fresh
      BY <2>1
    <3>2. CASE s = 0
      BY <3>1, <3>2, FreshIs
    <3>3. CASE s # 0
      BY <3>1, <3>3, FreshIs
    <3> QED BY <3>2, <3>3
  <2>3. scope' \in [ScopesIn(prog) -> ScopeStates(prog)]
    BY <2>1, <2>2
  <2>4. /\ counts' = [s \in ScopesIn(prog) |-> [n \in NamesIn(prog) |-> 0]]
        /\ pending' = [s \in ScopesIn(prog) |-> FALSE]
    BY <1>1, ScopesAre
  <2>5. response' \in ResponseType(prog', <<>>) /\ response'.status # "yielded"
    BY <1>1, NoResponseIs DEF ResponseType, ResponseStatuses
  <2> QED BY <1>1, <2>2, <2>3, <2>4, <2>5 DEF Begins
<1> QED BY <1>1, <1>2, <1>3, <1>4, <1>5, BeginningHolds

\* A step of the engine alone: the invocation it last heard of stays as it was.
LEMMA EngineKeeps ==
  ASSUME StepInv, UNCHANGED <<prog, scope, ctx, response, hist>>, phase' = "none",
         RunTypes', AwaitInv',
         \A id \in DOMAIN rows' :
           rows'[id].status \in RowStatuses /\ GoodPair(prog, id, rows'[id].op)
  PROVE  StepInv'
<1>1. UNCHANGED <<prog, counts, pending, failed, cancelled, steps, undos, scope, response,
                  took, began>>
  BY DEF ctx, hist
<1>2. TypeInv'
  <2>1. ScopeTypes' /\ ContextTypes'
    BY <1>1 DEF StepInv, TypeInv, ScopeTypes, ContextTypes
  <2>2. ResultTypes'
    BY <1>1 DEF StepInv, TypeInv, ResultTypes
  <2> QED BY <2>1, <2>2 DEF TypeInv
<1>3. PlaceInv' /\ YieldInv' /\ CountInv' /\ MemoInv'
  <2>1. phase' # "running"
    OBVIOUS
  <2> QED BY <1>1, <2>1
          DEF StepInv, PlaceInv, YieldInv, CountInv, MemoInv, MemoIsOwn, Own
<1> QED BY <1>2, <1>3 DEF StepInv

\* Every row that the engine keeps of a response is a result of its invocation.
LEMMA PersistIs ==
  ASSUME StepInv, phase # "none", NEW rs, rs = response.steps, NEW id \in DOMAIN Persist(rs)
  PROVE  /\ Persist(rs)[id].status \in RowStatuses
         /\ GoodPair(prog, id, Persist(rs)[id].op)
<1> DEFINE ids == {rs[i].id : i \in {k \in DOMAIN rs : rs[k].status # "kept"}}
           Last(i) == rs[i].id = id /\ \A k \in DOMAIN rs : rs[k].id = id => k <= i
           last == CHOOSE i \in DOMAIN rs : Last(i)
<1>1. /\ steps \in Seq(Results(prog))
      /\ \A i \in DOMAIN rs : i \in DOMAIN steps /\ rs[i] = steps[i] /\ steps[i].status # "bad"
      /\ \A i \in DOMAIN steps : steps[i].status = "kept" => ShouldSkipStep(steps[i].id)
      /\ \A x \in DOMAIN rows : rows[x].status \in RowStatuses /\ GoodPair(prog, x, rows[x].op)
  BY DEF StepInv, TypeInv, ResultTypes
<1>2. /\ id \in DOMAIN rows \cup ids
      /\ Persist(rs)[id] = IF id \notin ids \/ ShouldSkipStep(id) THEN rows[id]
                           ELSE Stored(rs[last])
  BY DEF Persist
<1>3. ShouldSkipStep(id) => id \in DOMAIN rows
  BY DEF ShouldSkipStep, Status
<1>4. CASE id \notin ids \/ ShouldSkipStep(id)
  BY <1>1, <1>2, <1>3, <1>4
<1>5. CASE id \in ids /\ ~ShouldSkipStep(id)
  <2> DEFINE S == {i \in DOMAIN rs : rs[i].id = id}
             len == Len(steps)
             T == {len - i : i \in S}
  <2>1. S # {} /\ S \subseteq 1 .. len /\ len \in Nat
    BY <1>1, <1>5
  <2>2. T \in SUBSET Nat /\ T # {}
    BY <2>1
  <2>3. PICK t \in T : \A n \in T : t <= n
    BY <2>2, LeastScope
  <2> HIDE DEF len
  <2>4. PICK m \in S : t = len - m
    BY <2>3
  <2>5. ASSUME NEW k \in DOMAIN rs, rs[k].id = id PROVE k <= m
    <3>1. k \in S /\ len - k \in T
      BY <2>5
    <3>2. len - m <= len - k
      BY <2>3, <2>4, <3>1
    <3>3. k \in Nat /\ m \in Nat
      BY <2>1, <2>4, <3>1
    <3> QED BY <2>1, <3>2, <3>3
  <2>6. m \in DOMAIN rs /\ Last(m)
    BY <2>4, <2>5
  <2> HIDE DEF Last
  <2>7. last \in DOMAIN rs /\ Last(last)
    BY <2>6
  <2>8. /\ rs[last] \in Results(prog) /\ rs[last].id = id
        /\ rs[last].status \notin {"bad", "kept"}
    <3>1. rs[last].id = id /\ last \in DOMAIN steps /\ rs[last] = steps[last]
          /\ rs[last].status # "bad"
      BY <1>1, <2>7 DEF Last
    <3>2. steps[last] \in Results(prog)
      BY <1>1, <3>1
    <3>3. steps[last].status # "kept"
      BY <1>1, <1>5, <3>1
    <3> QED BY <3>1, <3>2, <3>3
  <2> HIDE DEF last
  <2>9. PICK r \in Results(prog) : r = rs[last]
    BY <2>8
  <2>10. /\ Stored(r).status \in RowStatuses /\ Stored(r).op = r.op
         /\ GoodPair(prog, r.id, r.op)
    BY <2>8, <2>9 DEF Stored, Results, ResultStatuses, RowStatuses
  <2> QED BY <1>2, <1>5, <2>8, <2>9, <2>10
<1> QED BY <1>4, <1>5

LEMMA EngineHearsKeeps ==
  ASSUME StepAssumption, StepInv, EngineHears
  PROVE  StepInv'
<1>1. /\ phase = "answered" /\ phase' = "none" /\ resume' = NoResume
      /\ rows' = Persist(response.steps)
      /\ \/ over' \in {"completed", "failed", "paused"} /\ UNCHANGED <<attempt, awaited>>
         \/ response.status = "yielded" /\ awaited' = response.id /\ UNCHANGED <<attempt, over>>
         \/ attempt < MaxAttempts /\ attempt' = attempt + 1 /\ UNCHANGED <<awaited, over>>
      /\ UNCHANGED <<prog, policy, losses, scope, ctx, response, hist>>
  BY DEF EngineHears, Exhausted
<1>2. RunTypes'
  BY <1>1, BoundsAre DEF StepInv, TypeInv, RunTypes
<1>3. AwaitInv'
  <2>1. awaited' = None \/ (scope[0].why = "yield" /\ awaited' = scope[0].id)
    BY <1>1 DEF StepInv, AwaitInv
  <2>2. resume'.kind = "none"
    BY <1>1 DEF NoResume
  <2> QED BY <1>1, <2>1, <2>2 DEF AwaitInv
<1>4. \A id \in DOMAIN rows' :
        rows'[id].status \in RowStatuses /\ GoodPair(prog, id, rows'[id].op)
  BY <1>1, PersistIs
<1> QED BY <1>1, <1>2, <1>3, <1>4, EngineKeeps

LEMMA ResponseLostKeeps ==
  ASSUME StepInv, ResponseLost
  PROVE  StepInv'
<1>1. /\ phase = "answered" /\ phase' = "none"
      /\ UNCHANGED <<prog, attempt, rows, resume, awaited, over, scope, ctx, response, hist>>
  BY DEF ResponseLost
<1>2. RunTypes'
  BY <1>1 DEF StepInv, TypeInv, RunTypes
<1>3. AwaitInv'
  BY <1>1 DEF StepInv, AwaitInv
<1>4. \A id \in DOMAIN rows' :
        rows'[id].status \in RowStatuses /\ GoodPair(prog, id, rows'[id].op)
  BY <1>1 DEF StepInv, TypeInv, ResultTypes
<1> QED BY <1>1, <1>2, <1>3, <1>4, EngineKeeps

\* What the run waits for is the row of the one operation that yielded for it.
LEMMA YieldedIs ==
  ASSUME StepAssumption, NoColons, StepInv, awaited # None
  PROVE  Yielded \in OwnOps(prog) /\ awaited = IdOf(prog, Yielded)
<1> DEFINE Good(s) == scope[s].why = "yield" /\ scope[s].id = awaited
                      /\ (s = 0 => \A b \in Branches : scope[b].id # awaited)
           y == CHOOSE s \in Scopes : Good(s)
<1>1. prog \in Programs /\ YieldInv /\ scope[0].why = "yield" /\ awaited = scope[0].id
  BY DEF StepInv, TypeInv, RunTypes, AwaitInv
<1>2. /\ 0 \in Scopes /\ Branches = DOMAIN prog.branches /\ Branches \subseteq Scopes
      /\ \A b \in Branches : b # 0
  BY BranchesAre, ScopesAre DEF StepInv, TypeInv
<1>3. ASSUME NEW s \in Scopes, Good(s)
      PROVE  Own(s) \in OwnOps(prog) /\ awaited = IdOf(prog, Own(s))
  <2>1. CASE s = 0
    <3>1. ~\E b \in DOMAIN prog.branches : scope[b].why = "yield" /\ scope[b].id = scope[0].id
      BY <1>1, <1>2, <1>3, <2>1
    <3> QED BY <1>1, <2>1, <3>1 DEF YieldInv
  <2>2. CASE s # 0
    <3>1. s \in DOMAIN prog.branches
      BY <2>2, ScopesAre DEF ScopesIn
    <3> QED BY <1>1, <1>3, <3>1 DEF YieldInv
  <2> QED BY <2>1, <2>2
<1>4. \E s \in Scopes : Good(s)
  <2>1. CASE \E b \in Branches : scope[b].why = "yield" /\ scope[b].id = awaited
    BY <1>2, <2>1
  <2>2. CASE ~\E b \in Branches : scope[b].why = "yield" /\ scope[b].id = awaited
    <3>1. Own(0) \in OwnOps(prog) /\ awaited = IdOf(prog, Own(0))
      BY <1>1, <1>2, <2>2 DEF YieldInv
    <3>2. ASSUME NEW b \in Branches, scope[b].id = awaited PROVE FALSE
      <4>1. PICK o \in OwnOps(prog) : o[1] = b /\ awaited = IdOf(prog, o)
        BY <1>1, <1>2, <3>2 DEF YieldInv
      <4>2. o = Own(0)
        BY <1>1, <3>1, <4>1, IdsDiffer
      <4> QED BY <1>2, <4>1, <4>2 DEF Own
    <3> QED BY <1>1, <1>2, <3>2
  <2> QED BY <2>1, <2>2
<1> HIDE DEF Good
<1>5. y \in Scopes /\ Good(y)
  BY <1>4
<1>6. Yielded = Own(y)
  BY DEF Yielded, Own, Good
<1> QED BY <1>3, <1>5, <1>6

LEMMA AwokenKeeps ==
  ASSUME StepAssumption, NoColons, StepInv, NEW status \in RowStatuses, Awoken(status)
  PROVE  StepInv'
<1>1. /\ phase = "none" /\ awaited # None /\ awaited' = None
      /\ rows' = [id \in DOMAIN rows \cup {awaited} |->
                    IF id = awaited THEN [status |-> status, op |-> Yielded] ELSE rows[id]]
      /\ resume' = NoResume \/ \E kind : resume' = [id |-> awaited, kind |-> kind]
      /\ UNCHANGED <<prog, policy, attempt, over, losses, phase, scope, ctx, response, hist>>
  BY DEF Awoken
<1>2. RunTypes'
  BY <1>1 DEF StepInv, TypeInv, RunTypes
<1>3. AwaitInv'
  <2>1. resume'.kind = "none" \/ resume'.id = awaited
    BY <1>1 DEF NoResume
  <2>2. awaited \in DOMAIN rows'
    BY <1>1
  <2> QED BY <1>1, <2>1, <2>2 DEF AwaitInv
<1>4. ASSUME NEW id \in DOMAIN rows'
      PROVE  rows'[id].status \in RowStatuses /\ GoodPair(prog, id, rows'[id].op)
  <2>1. CASE id = awaited
    <3>1. rows'[id].status = status /\ rows'[id].op = Yielded
      BY <1>1, <2>1
    <3>2. Yielded \in OwnOps(prog) /\ id = IdOf(prog, Yielded)
      BY <1>1, <2>1, YieldedIs
    <3>3. Yielded # NoOp
      BY <3>2, OwnShape DEF StepInv, TypeInv, RunTypes
    <3> QED BY <3>1, <3>2, <3>3 DEF GoodPair
  <2>2. CASE id # awaited
    BY <1>1, <2>2 DEF StepInv, TypeInv, ResultTypes
  <2> QED BY <2>1, <2>2
<1> QED BY <1>1, <1>2, <1>3, <1>4, EngineKeeps

-----------------------------------------------------------------------------
(* The invariant holds, and what it says.                                  *)

LEMMA StepInvInit ==
  ASSUME StepAssumption, NoColons, Init
  PROVE  StepInv
<1>1. prog \in Programs /\ RunTypes
  BY BoundsAre DEF Init, RunTypes
<1>2. ScopeTypes
  <2>1. scope = [s \in ScopesIn(prog) |-> Fresh]
    BY ScopesAre DEF Init
  <2>2. Fresh \in ScopeStates(prog) /\ Fresh.at = 1
    BY FreshIs
  <2>3. ASSUME NEW s \in ScopesIn(prog) PROVE 1 \in 1 .. Len(OpsIn(prog, s)) + 1
    <3>1. Len(OpsIn(prog, s)) \in Nat
      BY <1>1, HandlerShape
    <3> QED BY <3>1
  <2> QED BY <2>1, <2>2, <2>3 DEF ScopeTypes
<1>3. /\ \A s \in ScopesIn(prog) : /\ scope[s].why = "none" /\ scope[s].id = None
                                   /\ scope[s].st = "off"
      /\ phase = "none" /\ rows = <<>> /\ awaited = None /\ resume = NoResume
      /\ steps = <<>> /\ response = NoResponse /\ took = {} /\ began = {}
  BY FreshIs, ScopesAre DEF Init
<1>4. ContextTypes
  <2>1. /\ counts = [s \in ScopesIn(prog) |-> [n \in NamesIn(prog) |-> 0]]
        /\ pending = [s \in ScopesIn(prog) |-> FALSE]
        /\ failed = FALSE /\ cancelled = FALSE /\ undos = <<>>
    BY ScopesAre DEF Init
  <2>2. counts \in [ScopesIn(prog) -> [NamesIn(prog) -> Nat]]
    BY <2>1
  <2>3. <<>> \in Seq(NamesIn(prog))
    BY EmptySeq
  <2> QED BY <2>1, <2>2, <2>3 DEF ContextTypes
<1>5. ResultTypes
  <2>1. /\ response \in ResponseType(prog, response.steps) /\ response.steps = <<>>
    BY <1>3, NoResponseIs
  <2> QED BY <1>3, <2>1 DEF ResultTypes, ResponseType, ResponseStatuses
<1>6. /\ 0 \in ScopesIn(prog) /\ DOMAIN prog.branches \subseteq ScopesIn(prog)
  BY DEF ScopesIn
<1>7. PlaceInv /\ YieldInv /\ CountInv
  BY <1>3, <1>6 DEF PlaceInv, YieldInv, CountInv
<1>8. AwaitInv /\ MemoInv
  BY <1>3 DEF AwaitInv, MemoInv, MemoIsOwn, NoResume
<1> QED BY <1>1, <1>2, <1>4, <1>5, <1>7, <1>8 DEF StepInv, TypeInv

LEMMA StepInvNext ==
  ASSUME StepAssumption, NoColons, StepInv, [Next]_vars
  PROVE  StepInv'
<1>1. ASSUME NEW s \in Scopes, Operate(s) PROVE StepInv'
  BY <1>1, Operated, OperationKeeps
<1>2. CASE Fork
  BY <1>2, ForkKeeps
<1>3. CASE Join
  BY <1>3, JoinKeeps
<1>4. ASSUME NEW b \in Branches, BranchStarts(b) \/ BranchEnds(b) PROVE StepInv'
  BY <1>4, BranchStartsKeeps, BranchEndsKeeps
<1>5. CASE EngineInvokes
  BY <1>5, EngineInvokesKeeps
<1>6. CASE HandlerEnds
  BY <1>6, HandlerEndsKeeps
<1>7. ASSUME NEW kind \in UndoStatuses, UndoNext(kind) PROVE StepInv'
  BY <1>7, UndoNextKeeps
<1>8. CASE AllUndone
  BY <1>8, AllUndoneKeeps
<1>9. CASE EngineHears
  BY <1>9, EngineHearsKeeps
<1>10. CASE ResponseLost
  BY <1>10, ResponseLostKeeps
<1>11. ASSUME NEW status \in RowStatuses, Awoken(status) PROVE StepInv'
  BY <1>11, AwokenKeeps
<1>12. CASE UNCHANGED vars
  <2>1. UNCHANGED <<prog, attempt, over, rows, resume, awaited, phase, scope, counts, pending,
                    failed, cancelled, steps, undos, response, took, began>>
    BY <1>12 DEF vars, run, ctx, hist
  <2>2. TypeInv'
    BY <2>1 DEF StepInv, TypeInv, RunTypes, ScopeTypes, ContextTypes, ResultTypes,
                ShouldSkipStep, Status
  <2>3. PlaceInv' /\ YieldInv'
    BY <2>1 DEF StepInv, PlaceInv, YieldInv, Own
  <2>4. CountInv' /\ AwaitInv' /\ MemoInv'
    BY <2>1 DEF StepInv, CountInv, AwaitInv, MemoInv, MemoIsOwn, Numbered, Clear,
                ShouldSkipStep, Status
  <2> QED BY <2>2, <2>3, <2>4 DEF StepInv
<1> QED
  BY <1>1, <1>2, <1>3, <1>4, <1>5, <1>6, <1>7, <1>8, <1>9, <1>10, <1>11, <1>12
  DEF Next, UndoStatuses, RowStatuses

LEMMA StepInductive ==
  ASSUME StepAssumption, NoColons PROVE Spec => []StepInv
<1>1. Init => StepInv
  BY StepInvInit
<1>2. StepInv /\ [Next]_vars => StepInv'
  BY StepInvNext
<1> QED BY <1>1, <1>2, PTL DEF Spec

\* The variables of the invocation and of the engine have their types.
THEOREM StepTypes ==
  ASSUME StepAssumption, NoColons PROVE Spec => []TypeOK
<1>1. StepInv => TypeOK
  <2> SUFFICES ASSUME StepInv PROVE TypeOK
    OBVIOUS
  <2>1. /\ RunTypes /\ ScopeTypes /\ ContextTypes /\ ResultTypes
    BY DEF StepInv, TypeInv
  <2>2. ASSUME NEW s \in Scopes
        PROVE  /\ scope[s].at \in 1 .. Len(Ops(s)) + 1
               /\ scope[s].st \in {"off", "ready", "body", "forked", "threw", "over", "skipped"}
               /\ scope[s].why \in {"none", "ok", "yield", "swallowed", "retry", "fatal"}
    BY <2>1, ScopesAre DEF ScopeTypes, ScopeStates
  <2>3. pending \in [Scopes -> BOOLEAN] /\ failed \in BOOLEAN /\ cancelled \in BOOLEAN
    BY <2>1, ScopesAre DEF ContextTypes
  <2>4. \A id \in DOMAIN rows : rows[id].status \in {"completed", "failed", "timed_out"}
    BY <2>1 DEF ResultTypes, RowStatuses
  <2>5. response.status \in {"none", "completed", "yielded", "failed"}
    BY <2>1 DEF ResultTypes
  <2> QED BY <2>1, <2>2, <2>3, <2>4, <2>5 DEF TypeOK, RunTypes
<1> QED BY <1>1, StepInductive, PTL

\* A memoized output goes to the operation it came from, and no effect is started whose
\* completion the engine has: after a retry, a resume or a lost response, and however
\* the branches interleave.
THEOREM StepsRunOnce ==
  ASSUME StepAssumption, NoColons PROVE Spec => []MemoIsOwn /\ []EffectsOnce
<1>1. StepInv => MemoIsOwn
  BY DEF StepInv, MemoInv
<1>2. StepInv => EffectsOnce
  <2> SUFFICES ASSUME StepInv, phase = "running", NEW o \in began, NEW id \in DOMAIN rows,
                      rows[id].op = o
               PROVE  ~ShouldSkipStep(id)
    BY DEF EffectsOnce
  <2>1. o \in OwnOps(prog) /\ ~ShouldSkipStep(IdOf(prog, o)) /\ prog \in Programs
    BY DEF StepInv, MemoInv, TypeInv, RunTypes
  <2>2. GoodPair(prog, id, o)
    BY DEF StepInv, TypeInv, ResultTypes
  <2>3. o # NoOp
    BY <2>1, OwnShape
  <2> QED BY <2>1, <2>2, <2>3 DEF GoodPair
<1> QED BY <1>1, <1>2, StepInductive, PTL

-----------------------------------------------------------------------------
(* How an invocation ends: what a handler swallowed, and what it undoes.   *)

\* A guard that is still asked holds a yield its scope does not end with.
Live(s) == s = 0 \/ scope[s].st \in {"ready", "body", "threw"}

Uncaught == \E s \in ScopesIn(prog) : pending[s] /\ scope[s].why # "yield" /\ Live(s)

SwallowInv ==
  /\ phase = "running" =>
       /\ swallowed => failed \/ Uncaught
       /\ scope[0].st = "forked" => ~pending[0]
       /\ scope[0].st # "forked" =>
            \A b \in DOMAIN prog.branches : scope[b].st \notin {"ready", "body", "threw"}
  /\ phase = "undoing" /\ swallowed => ~response.retryable
  /\ SwallowedFails

\* An identifier of three parts is of a compensation.
OfUndo(id) == Len(id) = 3

\* The compensation of undos[i] has its step among ss.
Undid(ss, i) == \E k \in DOMAIN ss : ss[k].id = UndoIdOf(undos[i]) /\ ss[k].status \in UndoStatuses

\* Nothing is undone before the failure of the run is terminal, and then from the last on.
UndoInv ==
  /\ policy \in {"", "pause", "fail"}
  /\ phase # "none" => over = "no"
  /\ over # "failed" => \A id \in DOMAIN rows : ~OfUndo(id)
  /\ over = "failed" /\ policy # "" => \A i \in DOMAIN undos : UndoIdOf(undos[i]) \in DOMAIN rows
  /\ phase = "running" =>
       \A k \in DOMAIN steps : ~OfUndo(steps[k].id) /\ steps[k].status \notin UndoStatuses
  /\ phase = "undoing" =>
       /\ response.status = "none" /\ IsTerminalFailure(response.retryable)
       /\ \A i \in DOMAIN undos : i > Len(undos) - Undone => Undid(steps, i)
  /\ phase = "answered" =>
       /\ response.status # "none"
       /\ response.status = "failed" /\ IsTerminalFailure(response.retryable) =>
            \A i \in DOMAIN undos : Undid(response.steps, i)
       /\ \A k \in DOMAIN response.steps :
            OfUndo(response.steps[k].id) =>
              response.status = "failed" /\ IsTerminalFailure(response.retryable)

EndInv == SwallowInv /\ UndoInv

-----------------------------------------------------------------------------
(* What one operation does to them.                                        *)

\* A yield is swallowed where the guard holds it, and a guard that holds one keeps it
\* or has noted the failure.
GuardsAt(s) ==
  /\ \A t \in ScopesIn(prog) : t # s => pending'[t] = pending[t]
  /\ failed => failed'
  /\ scope'[s].st # "forked"
  /\ swallowed' => swallowed \/ (pending'[s] /\ scope'[s].st = "ready")
  /\ pending[s] => failed' \/ /\ pending'[s] /\ scope'[s].st \in {"ready", "threw"}
                              /\ scope'[s].why # "yield"

\* The step of an operation, if it has one, is none of a compensation.
StepsAt ==
  \/ steps' = steps
  \/ \E r \in Results(prog) : /\ ~OfUndo(r.id) /\ r.status \notin UndoStatuses
                              /\ steps' = Append(steps, r)

LEMMA Rejected ==
  ASSUME ScopeTypes, NEW s \in ScopesIn(prog), scope[s].why # "yield",
         NEW error \in Errors, Throw(s, error)
  PROVE  /\ swallowed' => swallowed
         /\ scope'[s].st \in {"ready", "threw"} /\ scope'[s].why # "yield"
<1>1. error # "yield"
  BY DEF Errors
<1>2. swallowed' => swallowed
  BY <1>1 DEF Throw
<1>3. \/ Goes(s, scope[s].at + 1, "ready", scope[s].why, scope[s].id)
      \/ Goes(s, scope[s].at, "threw", error, scope[s].id)
  BY Thrown, Advanced
<1> QED BY <1>1, <1>2, <1>3 DEF Goes

LEMMA OperationGuards ==
  ASSUME StepAssumption, NoColons, StepInv, NEW s \in Scopes, Operate(s)
  PROVE  GuardsAt(s)
<1>1. /\ ScopeTypes /\ ContextTypes /\ s \in ScopesIn(prog) /\ scope[s].why # "yield"
      /\ scope'[s].st # "forked" /\ (failed => failed')
  <2>1. OperationStep(s)
    BY Operated
  <2>2. scope'[s].st # "forked"
    BY <2>1, Movement
  <2>3. failed => failed'
    BY <2>1 DEF OperationStep, GuardStep
  <2>4. s \in ScopesIn(prog) /\ scope[s].why # "yield"
    BY <2>1, Movement
  <2> QED BY <2>2, <2>3, <2>4 DEF StepInv, TypeInv
<1>2. ASSUME UNCHANGED pending, pending[s] => failed', swallowed' => swallowed
      PROVE  GuardsAt(s)
  BY <1>1, <1>2 DEF GuardsAt
<1>3. CASE Refused(s)
  <2>1. /\ UNCHANGED pending /\ NoteFailure(s) /\ Throw(s, "swallowed")
    BY <1>3 DEF Refused
  <2>2. swallowed' => swallowed
    BY <2>1 DEF Throw
  <2> QED BY <1>2, <2>1, <2>2 DEF NoteFailure
<1>4. CASE Memoized(s) \/ StepStarts(s)
  BY <1>2, <1>4 DEF Memoized, StepStarts, Clear
<1>5. CASE Compensate(s)
  <2>1. UNCHANGED pending /\ NoteFailure(s)
    BY <1>5 DEF Compensate
  <2>2. swallowed' => swallowed
    BY <1>5 DEF Compensate, Throw
  <2> QED BY <1>2, <2>1, <2>2 DEF NoteFailure
<1>6. CASE InvokeFails(s)
  <2>1. UNCHANGED pending /\ Clear(s) /\ Throw(s, "fatal")
    BY <1>6 DEF InvokeFails
  <2>2. swallowed' => swallowed
    BY <2>1 DEF Throw
  <2> QED BY <1>2, <2>1, <2>2 DEF Clear
<1>7. CASE \E kind \in {"completed", "bad", "retry", "fatal"} : StepEnds(s, kind)
  <2>1. UNCHANGED <<pending, failed>>
    BY <1>7 DEF StepEnds
  <2>2. CASE \E error \in Errors : Throw(s, error)
    <3>1. /\ swallowed' => swallowed
          /\ scope'[s].st \in {"ready", "threw"} /\ scope'[s].why # "yield"
      BY <1>1, <2>2, Rejected
    <3> QED BY <1>1, <2>1, <3>1 DEF GuardsAt
  <2>3. CASE Advance(s) /\ UNCHANGED swallowed
    <3>1. scope'[s].st = "ready" /\ scope'[s].why = scope[s].why
      BY <1>1, <2>3, Advanced DEF Goes
    <3> QED BY <1>1, <2>1, <2>3, <3>1 DEF GuardsAt
  <2> QED BY <1>7, <2>2, <2>3 DEF StepEnds, Errors
<1>8. CASE Sleep(s) \/ WaitForEvent(s) \/ Invoke(s) \/ InvokeAsync(s)
  <2>1. Clear(s) /\ YieldOf(s)
    BY <1>8 DEF Sleep, WaitForEvent, Invoke, InvokeAsync
  <2>2. pending' = [pending EXCEPT ![s] = TRUE] /\ (Advance(s) \/ UNCHANGED swallowed)
    BY <2>1 DEF YieldOf
  <2>3. pending'[s] /\ \A t \in ScopesIn(prog) : t # s => pending'[t] = pending[t]
    BY <1>1, <2>2 DEF ContextTypes
  <2>4. Advance(s) => scope'[s].st = "ready"
    BY <1>1, Advanced DEF Goes
  <2>5. ~pending[s]
    BY <2>1 DEF Clear
  <2> QED BY <1>1, <2>2, <2>3, <2>4, <2>5 DEF GuardsAt
<1> QED BY <1>3, <1>4, <1>5, <1>6, <1>7, <1>8 DEF Operate

LEMMA OwnIsNoUndo ==
  ASSUME StepAssumption, NoColons, NEW h \in Programs, NEW o \in OwnOps(h)
  PROVE  ~OfUndo(IdOf(h, o))
<1>1. Len(IdOf(h, o)) = IF o[1] = 0 THEN 2 ELSE 4
  BY OwnShape
<1> QED BY <1>1 DEF OfUndo

LEMMA OperationSteps ==
  ASSUME StepAssumption, NoColons, StepInv, NEW s \in Scopes, Operate(s)
  PROVE  StepsAt
<1>1. CASE \E kind \in {"completed", "bad", "retry", "fatal"} : StepEnds(s, kind)
  <2>1. PICK kind \in {"completed", "bad", "retry", "fatal"} : StepEnds(s, kind)
    BY <1>1
  <2> DEFINE status == IF kind \in {"retry", "fatal"} THEN "failed" ELSE kind
             r == Result(scope[s].id, Own(s), status)
  <2>2. steps' = Append(steps, r) /\ scope[s].st = "body"
    BY <2>1 DEF StepEnds, Own
  <2>3. s \in ScopesIn(prog) /\ prog \in Programs
    BY ScopesAre DEF StepInv, TypeInv, RunTypes
  <2>4. Own(s) \in OwnOps(prog) /\ scope[s].id = IdOf(prog, Own(s))
    BY <2>2, <2>3 DEF StepInv, PlaceInv
  <2>5. ~OfUndo(scope[s].id) /\ scope[s].id \in Ids(prog)
    BY <2>3, <2>4, OwnIsNoUndo DEF Ids
  <2>6. GoodPair(prog, scope[s].id, Own(s))
    BY <2>3, <2>4, OwnShape DEF GoodPair
  <2>7. status \in ResultStatuses /\ status \notin UndoStatuses
    BY DEF ResultStatuses, UndoStatuses
  <2> HIDE DEF status
  <2>8. r \in Results(prog) /\ r.id = scope[s].id /\ r.status = status
    BY <2>4, <2>5, <2>6, <2>7 DEF Result, Results
  <2> HIDE DEF r
  <2> QED BY <2>2, <2>5, <2>7, <2>8 DEF StepsAt
<1>2. CASE ~\E kind \in {"completed", "bad", "retry", "fatal"} : StepEnds(s, kind)
  <2>1. steps' = steps
    BY <1>2 DEF Operate, Refused, Memoized, StepStarts, Compensate, Sleep, WaitForEvent, Invoke,
               InvokeAsync, InvokeFails, YieldOf
  <2> QED BY <2>1 DEF StepsAt
<1> QED BY <1>1, <1>2

\* While the handler runs, nothing is undone: the rows stay, and so does how the run is.
LEMMA RunningUndoes ==
  ASSUME StepInv, UndoInv, phase = "running", phase' = "running", UNCHANGED run, StepsAt
  PROVE  UndoInv'
<1>1. /\ over = "no" /\ over' = "no" /\ policy \in {"", "pause", "fail"} /\ policy' = policy
      /\ \A id \in DOMAIN rows' : ~OfUndo(id)
      /\ \A k \in DOMAIN steps : ~OfUndo(steps[k].id) /\ steps[k].status \notin UndoStatuses
  BY DEF UndoInv, run
<1>2. steps \in Seq(Results(prog))
  BY DEF StepInv, TypeInv, ResultTypes
<1>3. \A k \in DOMAIN steps' : ~OfUndo(steps'[k].id) /\ steps'[k].status \notin UndoStatuses
  <2>1. CASE steps' = steps
    BY <1>1, <2>1
  <2>2. CASE \E r \in Results(prog) : /\ ~OfUndo(r.id) /\ r.status \notin UndoStatuses
                                      /\ steps' = Append(steps, r)
    <3>1. PICK r \in Results(prog) : /\ ~OfUndo(r.id) /\ r.status \notin UndoStatuses
                                     /\ steps' = Append(steps, r)
      BY <2>2
    <3>2. \A k \in DOMAIN steps' : (k \in DOMAIN steps /\ steps'[k] = steps[k]) \/ steps'[k] = r
      BY <1>2, <3>1
    <3> QED BY <1>1, <3>1, <3>2
  <2> QED BY <2>1, <2>2 DEF StepsAt
<1> QED BY <1>1, <1>3 DEF UndoInv

LEMMA OperationEnds ==
  ASSUME StepAssumption, NoColons, StepInv, EndInv, NEW s \in Scopes, Operate(s)
  PROVE  EndInv'
<1>1. /\ OperationStep(s) /\ GuardsAt(s) /\ StepsAt
  BY Operated, OperationGuards, OperationSteps
<1>2. /\ phase = "running" /\ phase' = "running" /\ UNCHANGED <<run, prog, response>>
      /\ s \in ScopesIn(prog) /\ scope[s].st \in {"ready", "body"}
      /\ \A t \in ScopesIn(prog) : t # s => scope'[t] = scope[t]
  <2>1. phase = "running" /\ phase' = "running" /\ UNCHANGED <<run, prog, response>>
    BY <1>1 DEF OperationStep, run
  <2> QED BY <1>1, <2>1, Movement
<1>3. UndoInv'
  BY <1>1, <1>2, RunningUndoes DEF EndInv
<1>4. /\ 0 \in ScopesIn(prog) /\ \A b \in DOMAIN prog.branches : b \in ScopesIn(prog) /\ b # 0
      /\ s # 0 => s \in DOMAIN prog.branches
  BY <1>2, BranchesAre DEF StepInv, TypeInv, ScopesIn
<1>5. swallowed' => failed' \/ Uncaught'
  <2> SUFFICES ASSUME swallowed', ~failed' PROVE Uncaught'
    OBVIOUS
  <2>1. \A t \in ScopesIn(prog) : t # s => pending'[t] = pending[t] /\ (Live(t)' <=> Live(t))
    BY <1>1, <1>2 DEF GuardsAt, Live
  <2>2. pending[s] => pending'[s] /\ scope'[s].why # "yield" /\ Live(s)'
    BY <1>1 DEF GuardsAt, Live
  <2>3. CASE swallowed
    <3>1. PICK t \in ScopesIn(prog) : pending[t] /\ scope[t].why # "yield" /\ Live(t)
      BY <1>1, <1>2, <2>3 DEF EndInv, SwallowInv, Uncaught, GuardsAt
    <3>2. pending'[t] /\ scope'[t].why # "yield" /\ Live(t)'
      BY <1>2, <2>1, <2>2, <3>1
    <3> QED BY <1>2, <3>1, <3>2 DEF Uncaught
  <2>4. CASE ~swallowed
    <3>1. pending'[s] /\ scope'[s].st = "ready"
      BY <1>1, <2>4 DEF GuardsAt
    <3>2. scope'[s].why # "yield"
      <4>1. StepInv'
        BY <1>1, OperationKeeps
      <4> QED BY <1>2, <3>1, <4>1 DEF StepInv, PlaceInv
    <3>3. Live(s)'
      BY <3>1 DEF Live
    <3> QED BY <1>2, <3>1, <3>2, <3>3 DEF Uncaught
  <2> QED BY <2>3, <2>4
<1>6. /\ scope'[0].st = "forked" => ~pending'[0]
      /\ scope'[0].st # "forked" =>
           \A b \in DOMAIN prog.branches : scope'[b].st \notin {"ready", "body", "threw"}
  <2>1. /\ scope[0].st = "forked" => ~pending[0]
        /\ scope[0].st # "forked" =>
             \A b \in DOMAIN prog.branches : scope[b].st \notin {"ready", "body", "threw"}
    BY <1>2 DEF EndInv, SwallowInv
  <2>2. CASE s = 0
    <3>1. scope[0].st # "forked" /\ scope'[0].st # "forked"
      BY <1>1, <1>2, <2>2 DEF GuardsAt
    <3> QED BY <1>2, <1>4, <2>1, <2>2, <3>1
  <2>3. CASE s # 0
    <3>1. scope[0].st = "forked" /\ scope'[0] = scope[0] /\ pending'[0] = pending[0]
      BY <1>1, <1>2, <1>4, <2>1, <2>3 DEF GuardsAt
    <3> QED BY <2>1, <3>1
  <2> QED BY <2>2, <2>3
<1>7. SwallowInv'
  BY <1>2, <1>5, <1>6 DEF SwallowInv, SwallowedFails
<1> QED BY <1>3, <1>7 DEF EndInv

\* A step of a fan-out, or one with nothing to undo.
LEMMA NoStepAt == ASSUME UNCHANGED steps PROVE StepsAt
BY DEF StepsAt

LEMMA RootAndBranches ==
  ASSUME StepAssumption, StepInv
  PROVE  /\ 0 \in ScopesIn(prog) /\ Branches = DOMAIN prog.branches /\ Scopes = ScopesIn(prog)
         /\ \A b \in DOMAIN prog.branches : b \in ScopesIn(prog) /\ b # 0
         /\ \A s \in ScopesIn(prog) : s # 0 => s \in DOMAIN prog.branches
         /\ scope \in [ScopesIn(prog) -> ScopeStates(prog)]
         /\ pending \in [ScopesIn(prog) -> BOOLEAN] /\ failed \in BOOLEAN
<1>1. /\ 0 \in ScopesIn(prog)
      /\ \A b \in DOMAIN prog.branches : b \in ScopesIn(prog) /\ b # 0
      /\ \A s \in ScopesIn(prog) : s # 0 => s \in DOMAIN prog.branches
  BY BranchesAre DEF StepInv, TypeInv
<1>2. /\ scope \in [ScopesIn(prog) -> ScopeStates(prog)]
      /\ pending \in [ScopesIn(prog) -> BOOLEAN] /\ failed \in BOOLEAN
  BY DEF StepInv, TypeInv, ScopeTypes, ContextTypes
<1> QED BY <1>1, <1>2, ScopesAre

LEMMA ForkEnds ==
  ASSUME StepAssumption, StepInv, EndInv, Fork
  PROVE  EndInv'
<1>1. /\ phase = "running" /\ phase' = "running" /\ scope[0].st = "ready" /\ Clear(0)
      /\ UNCHANGED <<run, prog, steps, pending, failed, swallowed>>
      /\ scope' = [s \in Scopes |->
                     IF s = 0 THEN [scope[0] EXCEPT !.st = "forked"]
                     ELSE [scope[s] EXCEPT !.st = IF prog.limit = 0 THEN "ready" ELSE "off"]]
  BY DEF Fork, Ready, run, hist
<1>2. UndoInv'
  BY <1>1, NoStepAt, RunningUndoes DEF EndInv
<1>3. ~swallowed
  <2>1. ~failed /\ ~pending[0]
    BY <1>1 DEF Clear
  <2>2. ASSUME NEW t \in ScopesIn(prog), Live(t) PROVE t = 0
    BY <1>1, <2>2, RootAndBranches DEF EndInv, SwallowInv, Live
  <2> QED BY <1>1, <2>1, <2>2 DEF EndInv, SwallowInv, Uncaught
<1>4. scope'[0].st = "forked"
  BY <1>1, RootAndBranches DEF ScopeStates
<1>5. SwallowInv'
  BY <1>1, <1>3, <1>4 DEF SwallowInv, SwallowedFails, Clear
<1> QED BY <1>2, <1>5 DEF EndInv

LEMMA BranchStartsEnds ==
  ASSUME StepAssumption, StepInv, EndInv, NEW b \in Branches, BranchStarts(b)
  PROVE  EndInv'
<1>1. /\ phase = "running" /\ phase' = "running" /\ scope[0].st = "forked" /\ scope[b].st = "off"
      /\ UNCHANGED <<run, prog, steps, pending, failed, swallowed>>
      /\ scope' = [scope EXCEPT ![b].st = IF cancelled /\ FailFast THEN "skipped" ELSE "ready"]
  BY DEF BranchStarts, run, hist, ctx
<1>2. UndoInv'
  BY <1>1, NoStepAt, RunningUndoes DEF EndInv
<1>3. \A t \in ScopesIn(prog) : t # b => scope'[t] = scope[t]
  BY <1>1, RootAndBranches
<1>4. scope'[0].st = "forked" /\ ~pending'[0] /\ b # 0
  BY <1>1, <1>3, RootAndBranches DEF EndInv, SwallowInv
<1>5. Uncaught => Uncaught'
  <2> SUFFICES ASSUME NEW t \in ScopesIn(prog), pending[t], scope[t].why # "yield", Live(t)
               PROVE  Uncaught'
    BY DEF Uncaught
  <2>1. t # b
    BY <1>1, <1>4 DEF Live
  <2>2. pending'[t] /\ scope'[t] = scope[t] /\ Live(t)'
    BY <1>1, <1>3, <2>1 DEF Live
  <2> QED BY <1>1, <2>2 DEF Uncaught
<1>6. SwallowInv'
  BY <1>1, <1>4, <1>5 DEF EndInv, SwallowInv, SwallowedFails
<1> QED BY <1>2, <1>6 DEF EndInv

LEMMA BranchEndsEnds ==
  ASSUME StepAssumption, StepInv, EndInv, NEW b \in Branches, BranchEnds(b)
  PROVE  EndInv'
<1>1. /\ phase = "running" /\ phase' = "running" /\ scope[b].st \in {"threw", "ready"}
      /\ UNCHANGED <<run, prog, steps, pending, swallowed>>
      /\ scope' = [scope EXCEPT ![b].st = "over", ![b].why = Outcome(b)]
      /\ IF Outcome(b) = "yield" THEN UNCHANGED failed ELSE NoteFailure(b)
  BY DEF BranchEnds, run, hist
<1>2. UndoInv'
  BY <1>1, NoStepAt, RunningUndoes DEF EndInv
<1>3. \A t \in ScopesIn(prog) : t # b => scope'[t] = scope[t]
  BY <1>1, RootAndBranches
<1>4. scope'[0].st = "forked" /\ ~pending'[0] /\ b # 0
  <2>1. scope[0].st = "forked"
    BY <1>1, RootAndBranches DEF EndInv, SwallowInv
  <2> QED BY <1>1, <1>3, <2>1, RootAndBranches DEF EndInv, SwallowInv
<1>5. failed => failed'
  BY <1>1 DEF NoteFailure
<1>6. Uncaught => failed' \/ Uncaught'
  <2> SUFFICES ASSUME NEW t \in ScopesIn(prog), pending[t], scope[t].why # "yield", Live(t),
                      ~failed'
               PROVE  Uncaught'
    BY DEF Uncaught
  <2>1. t # b
    <3>1. pending[b] /\ scope[b].why # "yield" => Outcome(b) # "yield"
      BY DEF Outcome, Clear
    <3> QED BY <1>1, <3>1 DEF NoteFailure
  <2>2. pending'[t] /\ scope'[t] = scope[t] /\ Live(t)'
    BY <1>1, <1>3, <2>1 DEF Live
  <2> QED BY <1>1, <2>2 DEF Uncaught
<1>7. SwallowInv'
  BY <1>1, <1>4, <1>5, <1>6 DEF EndInv, SwallowInv, SwallowedFails
<1> QED BY <1>2, <1>7 DEF EndInv

LEMMA JoinEnds ==
  ASSUME StepAssumption, NoColons, StepInv, EndInv, Join
  PROVE  EndInv'
<1>1. /\ phase = "running" /\ phase' = "running" /\ scope[0].st = "forked"
      /\ \A b \in Branches : scope[b].st \in {"over", "skipped"}
      /\ UNCHANGED <<run, prog, steps, failed>>
      /\ \/ \E error \in Errors : Throw(0, error) /\ UNCHANGED pending
         \/ Advance(0) /\ UNCHANGED <<pending, swallowed>>
         \/ /\ pending' = [pending EXCEPT ![0] = TRUE]
            /\ \/ Advance(0)
               \/ scope' = [scope EXCEPT ![0].st = "threw", ![0].why = "yield",
                                         ![0].id = scope[First("yield")].id]
                  /\ UNCHANGED swallowed
  BY DEF Join, run, Errors
<1>2. UndoInv'
  BY <1>1, NoStepAt, RunningUndoes DEF EndInv
<1>3. /\ ScopeTypes /\ scope[0].why # "yield" /\ 0 \in ScopesIn(prog)
  BY <1>1, RootAndBranches DEF StepInv, TypeInv, PlaceInv
<1>4. swallowed => failed
  <2>1. ~Uncaught
    <3>1. ~pending[0]
      BY <1>1 DEF EndInv, SwallowInv
    <3>2. ASSUME NEW t \in ScopesIn(prog), t # 0 PROVE ~Live(t)
      <4>1. scope[t].st \in {"over", "skipped"}
        BY <1>1, <3>2, RootAndBranches
      <4> QED BY <3>2, <4>1 DEF Live
    <3> QED BY <3>1, <3>2 DEF Uncaught
  <2> QED BY <1>1, <2>1 DEF EndInv, SwallowInv
<1>5. /\ scope'[0].st \in {"ready", "threw"}
      /\ \A b \in DOMAIN prog.branches : scope'[b] = scope[b]
      /\ swallowed' => swallowed \/ (pending'[0] /\ scope'[0].why # "yield")
  <2>1. CASE \E error \in Errors : Throw(0, error)
    <3>1. PICK error \in Errors : Throw(0, error)
      BY <2>1
    <3>2. (swallowed' => swallowed) /\ scope'[0].st \in {"ready", "threw"}
      BY <1>3, <3>1, Rejected
    <3>3. \A b \in DOMAIN prog.branches : scope'[b] = scope[b]
      BY <1>3, <3>1, RootAndBranches, Thrown, Advanced DEF Goes
    <3> QED BY <3>2, <3>3
  <2>2. CASE Advance(0)
    <3>1. /\ scope'[0].st = "ready" /\ scope'[0].why = scope[0].why
          /\ \A b \in DOMAIN prog.branches : scope'[b] = scope[b]
      BY <1>3, <2>2, RootAndBranches, Advanced DEF Goes
    <3>2. pending' = [pending EXCEPT ![0] = TRUE] => pending'[0]
      BY RootAndBranches
    <3>3. CASE UNCHANGED <<pending, swallowed>>
      BY <3>1, <3>3
    <3>4. CASE pending' = [pending EXCEPT ![0] = TRUE]
      BY <1>3, <3>1, <3>2, <3>4
    <3>5. CASE \E error \in Errors : Throw(0, error)
      BY <2>1, <3>5
    <3> QED BY <1>1, <3>3, <3>4, <3>5
  <2>3. CASE /\ scope' = [scope EXCEPT ![0].st = "threw", ![0].why = "yield",
                                       ![0].id = scope[First("yield")].id]
             /\ UNCHANGED swallowed
    <3>1. scope'[0].st = "threw" /\ \A b \in DOMAIN prog.branches : scope'[b] = scope[b]
      BY <2>3, RootAndBranches DEF ScopeStates
    <3> QED BY <2>3, <3>1
  <2> QED BY <1>1, <2>1, <2>2, <2>3
<1>6. swallowed' => failed' \/ Uncaught'
  <2> SUFFICES ASSUME swallowed', ~failed' PROVE Uncaught'
    OBVIOUS
  <2>1. pending'[0] /\ scope'[0].why # "yield"
    BY <1>1, <1>4, <1>5
  <2> QED BY <1>1, <1>3, <2>1 DEF Uncaught, Live
<1>7. SwallowInv'
  BY <1>1, <1>5, <1>6, RootAndBranches DEF SwallowInv, SwallowedFails
<1> QED BY <1>2, <1>7 DEF EndInv

-----------------------------------------------------------------------------
(* How they end: the invocation, its compensations and the engine.         *)

LEMMA EngineInvokesEnds ==
  ASSUME StepAssumption, StepInv, EndInv, EngineInvokes
  PROVE  EndInv'
<1>1. /\ over = "no" /\ UNCHANGED <<run, prog, policy, rows, over>>
      /\ scope' = [s \in Scopes |-> IF s = 0 THEN [Fresh EXCEPT !.st = "ready"] ELSE Fresh]
      /\ pending' = [s \in Scopes |-> FALSE]
      /\ steps' = <<>> /\ undos' = <<>> /\ swallowed' = FALSE
      /\ \/ phase' = "running"
         \/ phase' = "answered" /\ response' = [NoResponse EXCEPT !.status = "failed"]
  BY DEF EngineInvokes, Answer, run
<1>2. ASSUME NEW b \in DOMAIN prog.branches PROVE scope'[b].st = "off"
  <2>1. scope'[b] = Fresh
    BY <1>1, RootAndBranches
  <2> QED BY <2>1, FreshIs
<1>3. scope'[0].st # "forked"
  <2>1. scope'[0] = [Fresh EXCEPT !.st = "ready"]
    BY <1>1, RootAndBranches
  <2> QED BY <2>1, FreshIs
<1>4. phase' = "answered" => response'.status = "failed" /\ response'.steps = <<>>
  BY <1>1 DEF NoResponse
<1>5. SwallowInv'
  BY <1>1, <1>2, <1>3 DEF SwallowInv, SwallowedFails
<1>6. UndoInv'
  <2>1. /\ policy \in {"", "pause", "fail"} /\ \A id \in DOMAIN rows : ~OfUndo(id)
    BY <1>1 DEF EndInv, UndoInv
  <2>2. /\ \A k \in DOMAIN steps' : FALSE
        /\ \A i \in DOMAIN undos' : FALSE
        /\ phase' = "answered" => \A k \in DOMAIN response'.steps : FALSE
    BY <1>1, <1>4
  <2> QED BY <1>1, <1>4, <2>1, <2>2 DEF UndoInv
<1> QED BY <1>5, <1>6 DEF EndInv

\* A handler that swallowed a yield is found out.
LEMMA ErrorIs ==
  ASSUME StepAssumption, StepInv, EndInv, HandlerEnds, swallowed
  PROVE  Error = "swallowed"
<1>1. phase = "running" /\ scope[0].st \in {"threw", "ready"}
  BY DEF HandlerEnds
<1>2. failed \/ (pending[0] /\ scope[0].why # "yield")
  <2>1. ASSUME NEW t \in ScopesIn(prog), Live(t) PROVE t = 0
    BY <1>1, <2>1, RootAndBranches DEF EndInv, SwallowInv, Live
  <2> QED BY <1>1, <2>1 DEF EndInv, SwallowInv, Uncaught
<1> QED BY <1>2 DEF Error, Clear

LEMMA NothingUndone ==
  ASSUME StepInv, UndoInv, phase = "running" PROVE Undone = 0
<1>1. {i \in DOMAIN steps : steps[i].status \in UndoStatuses} = {}
  BY DEF UndoInv
<1> QED BY <1>1, FS_EmptySet DEF Undone, UndoStatuses

LEMMA HandlerEndsEnds ==
  ASSUME StepAssumption, StepInv, EndInv, HandlerEnds
  PROVE  EndInv'
<1> DEFINE retryable == Error = "retry"
           undoing == [NoResponse EXCEPT !.retryable = retryable]
           failing == [NoResponse EXCEPT !.status = "failed", !.retryable = retryable,
                                         !.steps = Reported]
           whole   == [NoResponse EXCEPT !.status = "completed", !.steps = steps]
           yielding == [NoResponse EXCEPT !.status = "yielded", !.steps = steps,
                                          !.id = scope[0].id]
<1>1. /\ phase = "running" /\ UNCHANGED <<run, prog, policy, attempt, rows, over, scope, steps,
                                         undos, swallowed>>
      /\ \/ Error = "ok" /\ phase' = "answered" /\ response' = whole
         \/ Error = "yield" /\ phase' = "answered" /\ response' = yielding
         \/ phase' = "undoing" /\ response' = undoing /\ IsTerminalFailure(retryable)
         \/ /\ phase' = "answered" /\ response' = failing
            /\ undos = <<>> \/ ~IsTerminalFailure(retryable)
  BY DEF HandlerEnds, Fails, Answer, run, ctx, hist
<1>2. swallowed => Error = "swallowed"
  BY ErrorIs
<1>3. PICK rt \in BOOLEAN : rt = retryable
  BY Zenon
<1>4. /\ response' = whole => response'.status = "completed" /\ response'.steps = steps
      /\ response' = yielding => response'.status = "yielded" /\ response'.steps = steps
  BY DEF NoResponse
<1>5. response' = undoing => response'.status = "none" /\ response'.retryable = rt
  <2>1. undoing = [NoResponse EXCEPT !.retryable = rt]
    BY <1>3
  <2> QED BY <2>1 DEF NoResponse
<1>6. response' = failing =>
        response'.status = "failed" /\ response'.retryable = rt /\ response'.steps = Reported
  <2>1. failing = [NoResponse EXCEPT !.status = "failed", !.retryable = rt, !.steps = Reported]
    BY <1>3
  <2> QED BY <2>1 DEF NoResponse
<1> HIDE DEF undoing, failing, whole, yielding
<1>7. SwallowInv'
  <2>1. swallowed => ~rt
    BY <1>2, <1>3
  <2>3. phase' # "running" /\ swallowed' = swallowed
    BY <1>1
  <2>4. CASE ~swallowed
    BY <2>3, <2>4 DEF SwallowInv, SwallowedFails
  <2>5. CASE swallowed
    <3>1. response' = undoing \/ response' = failing
      BY <1>1, <1>2, <2>5
    <3>2. ~response'.retryable
      BY <1>5, <1>6, <2>1, <2>5, <3>1
    <3>3. phase' = "answered" => response'.status = "failed"
      BY <1>1, <1>2, <1>6, <2>5
    <3> QED BY <2>3, <3>2, <3>3 DEF SwallowInv, SwallowedFails
  <2> QED BY <2>4, <2>5
<1>8. /\ over = "no" /\ policy \in {"", "pause", "fail"}
      /\ \A id \in DOMAIN rows : ~OfUndo(id)
      /\ \A k \in DOMAIN steps : ~OfUndo(steps[k].id) /\ steps[k].status \notin UndoStatuses
  BY <1>1 DEF EndInv, UndoInv
<1>9. ASSUME NEW k \in DOMAIN Reported PROVE ~OfUndo(Reported[k].id)
  BY <1>8, ReportedIs
<1>10. /\ response'.status = "none" => IsTerminalFailure(rt) /\ response'.retryable = rt
       /\ response'.status = "failed" => /\ undos = <<>> \/ ~IsTerminalFailure(rt)
                                         /\ response'.retryable = rt
  <2>1. IsTerminalFailure(retryable) <=> IsTerminalFailure(rt)
    BY <1>3
  <2> QED BY <1>1, <1>4, <1>5, <1>6, <2>1
<1>11. \A r \in BOOLEAN : IsTerminalFailure(r)' <=> IsTerminalFailure(r)
  BY <1>1 DEF IsTerminalFailure
<1>12. ASSUME phase' = "undoing" PROVE UndoInv'
  <2>1. response'.status = "none" /\ response'.retryable = rt
    BY <1>1, <1>5, <1>12
  <2>2. IsTerminalFailure(response.retryable)'
    BY <1>10, <1>11, <2>1
  <2>3. \A i \in DOMAIN undos : ~(i > Len(undos) - 0)
    BY DEF StepInv, TypeInv, ContextTypes
  <2>4. Undone' = 0
    <3>1. Undone = 0
      BY <1>1, NothingUndone DEF EndInv
    <3> QED BY <1>1, <3>1 DEF Undone
  <2> QED BY <1>1, <1>8, <1>12, <2>1, <2>2, <2>3, <2>4 DEF UndoInv
<1>13. ASSUME phase' = "answered" PROVE UndoInv'
  <2>1. /\ response'.status # "none"
        /\ response'.steps = steps \/ response'.steps = Reported
    BY <1>1, <1>4, <1>6, <1>13
  <2>2. \A k \in DOMAIN response'.steps : ~OfUndo(response'.steps[k].id)
    BY <1>8, <1>9, <2>1
  <2>3. response'.status = "failed" /\ IsTerminalFailure(response.retryable)' =>
          \A i \in DOMAIN undos' : Undid(response.steps, i)'
    BY <1>1, <1>10, <1>11
  <2> QED BY <1>1, <1>8, <1>13, <2>1, <2>2, <2>3 DEF UndoInv
<1> QED BY <1>1, <1>7, <1>12, <1>13 DEF EndInv

LEMMA UndoNextEnds ==
  ASSUME StepAssumption, NoColons, StepInv, EndInv, NEW kind \in UndoStatuses, UndoNext(kind)
  PROVE  EndInv'
<1> DEFINE last == Len(undos) - Undone
           r    == Result(CompensationId(undos[last]), NoOp, kind)
           S    == {i \in DOMAIN steps : steps[i].status \in UndoStatuses}
<1>1. /\ phase = "undoing" /\ phase' = "undoing" /\ Undone < Len(undos)
      /\ steps' = Append(steps, r)
      /\ UNCHANGED <<prog, policy, attempt, rows, over, scope, undos, response, swallowed>>
  BY DEF UndoNext, run, hist
<1>2. /\ RunTypes /\ steps \in Seq(Results(prog)) /\ undos \in Seq(NamesIn(prog))
      /\ Undone \in Nat
  BY UndoneIsNat DEF StepInv, TypeInv, ContextTypes, ResultTypes
<1>3. last \in DOMAIN undos /\ undos[last] \in NamesIn(prog)
  BY <1>1, <1>2
<1>4. r.id = UndoIdOf(undos[last]) /\ r.status = kind
  BY <1>2, <1>3, CompensationIs DEF Result
<1> HIDE DEF r
<1>5. /\ Len(steps) \in Nat /\ DOMAIN steps = 1 .. Len(steps)
      /\ DOMAIN steps' = 1 .. Len(steps) + 1 /\ steps'[Len(steps) + 1] = r
      /\ \A k \in DOMAIN steps : steps'[k] = steps[k]
  BY <1>1, <1>2
<1>6. Undone' = Undone + 1
  <2>1. Undone = Cardinality(S) /\ Undone' = Cardinality(S')
    BY DEF Undone, UndoStatuses
  <2>2. S' = S \cup {Len(steps) + 1} /\ Len(steps) + 1 \notin S
    BY <1>4, <1>5
  <2>3. IsFiniteSet(S)
    <3>1. IsFiniteSet(1 .. Len(steps))
      BY <1>5, FS_Interval
    <3> QED BY <1>5, <3>1, FS_Subset
  <2> QED BY <2>1, <2>2, <2>3, FS_AddElement
<1>7. ASSUME NEW i \in DOMAIN undos, i > Len(undos) - Undone'
      PROVE  Undid(steps, i)'
  <2>1. CASE i = last
    BY <1>1, <1>4, <1>5, <2>1 DEF Undid
  <2>2. CASE i # last
    <3>1. i > Len(undos) - Undone
      BY <1>2, <1>6, <1>7, <2>2
    <3>2. Undid(steps, i)
      BY <1>1, <3>1 DEF EndInv, UndoInv
    <3> QED BY <1>1, <1>5, <3>2 DEF Undid
  <2> QED BY <2>1, <2>2
<1>8. UndoInv'
  <2>1. /\ over = "no" /\ policy \in {"", "pause", "fail"}
        /\ \A id \in DOMAIN rows : ~OfUndo(id)
        /\ response.status = "none" /\ IsTerminalFailure(response.retryable)
    BY <1>1 DEF EndInv, UndoInv
  <2>2. IsTerminalFailure(response.retryable)'
    BY <1>1, <2>1 DEF IsTerminalFailure
  <2> QED BY <1>1, <1>7, <2>1, <2>2 DEF UndoInv
<1>9. SwallowInv'
  BY <1>1 DEF EndInv, SwallowInv, SwallowedFails
<1> QED BY <1>8, <1>9 DEF EndInv

\* What JSON can encode is reported, and a compensation leaves no output.
LEMMA AllUndoneEnds ==
  ASSUME StepAssumption, StepInv, EndInv, AllUndone
  PROVE  EndInv'
<1>1. /\ phase = "undoing" /\ phase' = "answered" /\ Undone = Len(undos)
      /\ response' = [response EXCEPT !.status = "failed", !.steps = Reported]
      /\ UNCHANGED <<prog, policy, attempt, rows, over, undos, swallowed>>
  BY DEF AllUndone, Answer, run, ctx, hist
<1>2. /\ over = "no" /\ policy \in {"", "pause", "fail"}
      /\ \A id \in DOMAIN rows : ~OfUndo(id)
      /\ IsTerminalFailure(response.retryable)
      /\ \A i \in DOMAIN undos : i > Len(undos) - Undone => Undid(steps, i)
      /\ swallowed => ~response.retryable
  BY <1>1 DEF EndInv, UndoInv, SwallowInv
<1>3. response \in ResponseType(prog, response.steps)
  BY DEF StepInv, TypeInv, ResultTypes, ResponseType, ResponseStatuses
<1>4. /\ response'.status = "failed" /\ response'.steps = Reported
      /\ response'.retryable = response.retryable
  BY <1>1, <1>3 DEF ResponseType
<1>5. IsTerminalFailure(response.retryable)'
  BY <1>1, <1>2, <1>4 DEF IsTerminalFailure
<1>6. ASSUME NEW i \in DOMAIN undos PROVE Undid(response.steps, i)'
  <2>1. i > Len(undos) - Undone
    BY <1>1 DEF StepInv, TypeInv, ContextTypes
  <2>2. PICK k \in DOMAIN steps : /\ steps[k].id = UndoIdOf(undos[i])
                                  /\ steps[k].status \in UndoStatuses
    BY <1>2, <2>1 DEF Undid
  <2>3. "bad" \notin UndoStatuses
    BY DEF UndoStatuses
  <2>4. k \in DOMAIN Reported /\ Reported[k] = steps[k]
    BY <2>2, <2>3 DEF Reported
  <2> QED BY <1>1, <1>4, <2>2, <2>4 DEF Undid
<1>7. UndoInv'
  BY <1>1, <1>2, <1>4, <1>5, <1>6 DEF UndoInv
<1>8. SwallowInv'
  BY <1>1, <1>2, <1>4 DEF SwallowInv, SwallowedFails
<1> QED BY <1>7, <1>8 DEF EndInv

\* A row the engine has after a response it had before, or is a step of it.
LEMMA PersistOnly ==
  ASSUME NEW rs
  PROVE  /\ \A id \in DOMAIN rows : id \in DOMAIN Persist(rs)
         /\ \A k \in DOMAIN rs : rs[k].status # "kept" => rs[k].id \in DOMAIN Persist(rs)
         /\ \A id \in DOMAIN Persist(rs) :
              id \in DOMAIN rows \/ \E k \in DOMAIN rs : rs[k].id = id
<1> DEFINE ids == {rs[i].id : i \in {k \in DOMAIN rs : rs[k].status # "kept"}}
<1>1. DOMAIN Persist(rs) = DOMAIN rows \cup ids
  BY DEF Persist
<1> QED BY <1>1

\* The run is over as its last response says: failed for good, and undone, or not.
LEMMA EngineHearsEnds ==
  ASSUME StepAssumption, StepInv, EndInv, EngineHears
  PROVE  EndInv'
<1> DEFINE final == IsTerminalFailure(response.retryable)
<1>1. /\ phase = "answered" /\ phase' = "none" /\ rows' = Persist(response.steps)
      /\ UNCHANGED <<prog, policy, undos, response>>
  BY DEF EngineHears, ctx
<1>2. /\ over = "no" /\ policy \in {"", "pause", "fail"}
      /\ \A id \in DOMAIN rows : ~OfUndo(id)
      /\ response.status # "none"
      /\ response.status = "failed" /\ final =>
           \A i \in DOMAIN undos : Undid(response.steps, i)
      /\ \A k \in DOMAIN response.steps :
           OfUndo(response.steps[k].id) => response.status = "failed" /\ final
  BY <1>1 DEF EndInv, UndoInv
<1>3. /\ response.status \in ResponseStatuses /\ response.retryable \in BOOLEAN
      /\ attempt \in 1 .. MaxAttempts
  BY DEF StepInv, TypeInv, RunTypes, ResultTypes, ResponseStatuses
<1>4. /\ over' # "failed" => ~(response.status = "failed" /\ final)
      /\ over' = "failed" /\ policy # "" => response.status = "failed" /\ final
  <2>1. CASE response.status \in {"completed", "yielded"}
    <3>1. over' = "completed" \/ over' = over
      BY <2>1 DEF EngineHears
    <3> QED BY <1>2, <2>1, <3>1
  <2>2. CASE response.status = "failed" /\ response.retryable /\ attempt < MaxAttempts
    <3>1. over' = over
      BY <2>2 DEF EngineHears
    <3>2. ~final
      BY <1>3, <2>2, BoundsAre DEF IsTerminalFailure
    <3> QED BY <1>2, <3>1, <3>2
  <2>3. CASE response.status = "failed" /\ ~(response.retryable /\ attempt < MaxAttempts)
    <3>1. over' = IF response.retryable THEN Exhausted ELSE "failed"
      BY <2>3 DEF EngineHears
    <3>2. CASE ~response.retryable
      BY <2>3, <3>1, <3>2 DEF IsTerminalFailure
    <3>3. CASE response.retryable
      <4>1. attempt >= MaxAttempts
        BY <1>3, <2>3, <3>3, BoundsAre
      <4>2. over' = IF policy = "pause" THEN "paused" ELSE "failed"
        BY <3>1, <3>3 DEF Exhausted
      <4>3. final <=> policy = "fail"
        BY <3>3, <4>1 DEF IsTerminalFailure
      <4> QED BY <1>2, <2>3, <4>2, <4>3
    <3> QED BY <3>2, <3>3
  <2> QED BY <1>2, <1>3, <2>1, <2>2, <2>3 DEF ResponseStatuses
<1> HIDE DEF final
<1>5. ASSUME over' # "failed", NEW id \in DOMAIN rows' PROVE ~OfUndo(id)
  <2>1. id \in DOMAIN rows \/ \E k \in DOMAIN response.steps : response.steps[k].id = id
    BY <1>1, <1>5, PersistOnly
  <2> QED BY <1>2, <1>4, <1>5, <2>1
<1>6. ASSUME over' = "failed", policy # "", NEW i \in DOMAIN undos
      PROVE  UndoIdOf(undos[i]) \in DOMAIN rows'
  <2>1. PICK k \in DOMAIN response.steps : response.steps[k].id = UndoIdOf(undos[i])
    BY <1>2, <1>4, <1>6 DEF Undid
  <2>2. CASE response.steps[k].status # "kept"
    BY <1>1, <2>1, <2>2, PersistOnly
  <2>3. CASE response.steps[k].status = "kept"
    <3>1. ShouldSkipStep(response.steps[k].id)
      BY <1>1, <2>3 DEF StepInv, TypeInv, ResultTypes
    <3>2. response.steps[k].id \in DOMAIN rows
      BY <3>1 DEF ShouldSkipStep, Status
    <3> QED BY <1>1, <2>1, <3>2, PersistOnly
  <2> QED BY <2>2, <2>3
<1>7. UndoInv'
  BY <1>1, <1>2, <1>5, <1>6 DEF UndoInv
<1>8. SwallowInv'
  BY <1>1 DEF SwallowInv, SwallowedFails
<1> QED BY <1>7, <1>8 DEF EndInv

LEMMA ResponseLostEnds ==
  ASSUME EndInv, ResponseLost
  PROVE  EndInv'
<1>1. /\ phase = "answered" /\ phase' = "none" /\ UNCHANGED <<policy, rows, over, undos>>
  BY DEF ResponseLost, ctx
<1> QED BY <1>1 DEF EndInv, UndoInv, SwallowInv, SwallowedFails

LEMMA AwokenEnds ==
  ASSUME StepAssumption, NoColons, StepInv, EndInv, NEW status \in RowStatuses, Awoken(status)
  PROVE  EndInv'
<1>1. /\ awaited # None /\ phase' = "none" /\ UNCHANGED <<policy, over, undos>>
      /\ DOMAIN rows' = DOMAIN rows \cup {awaited}
  BY DEF Awoken, ctx
<1>2. ~OfUndo(awaited)
  <2>1. Yielded \in OwnOps(prog) /\ awaited = IdOf(prog, Yielded)
    BY <1>1, YieldedIs
  <2> QED BY <2>1, OwnIsNoUndo DEF StepInv, TypeInv, RunTypes
<1> QED BY <1>1, <1>2 DEF EndInv, UndoInv, SwallowInv, SwallowedFails

LEMMA EndInvNext ==
  ASSUME StepAssumption, NoColons, StepInv, EndInv, [Next]_vars
  PROVE  EndInv'
<1>1. ASSUME NEW s \in Scopes, Operate(s) PROVE EndInv'
  BY <1>1, OperationEnds
<1>2. CASE Fork
  BY <1>2, ForkEnds
<1>3. CASE Join
  BY <1>3, JoinEnds
<1>4. ASSUME NEW b \in Branches, BranchStarts(b) \/ BranchEnds(b) PROVE EndInv'
  BY <1>4, BranchStartsEnds, BranchEndsEnds
<1>5. CASE EngineInvokes
  BY <1>5, EngineInvokesEnds
<1>6. CASE HandlerEnds
  BY <1>6, HandlerEndsEnds
<1>7. ASSUME NEW kind \in UndoStatuses, UndoNext(kind) PROVE EndInv'
  BY <1>7, UndoNextEnds
<1>8. CASE AllUndone
  BY <1>8, AllUndoneEnds
<1>9. CASE EngineHears
  BY <1>9, EngineHearsEnds
<1>10. CASE ResponseLost
  BY <1>10, ResponseLostEnds
<1>11. ASSUME NEW status \in RowStatuses, Awoken(status) PROVE EndInv'
  BY <1>11, AwokenEnds
<1>12. CASE UNCHANGED vars
  <2>1. UNCHANGED <<prog, policy, attempt, rows, over, phase, scope, pending, failed, steps, undos,
                    response, swallowed>>
    BY <1>12 DEF vars, run, ctx, hist
  <2>2. SwallowInv'
    BY <2>1 DEF EndInv, SwallowInv, SwallowedFails, Uncaught, Live
  <2>3. UndoInv'
    BY <2>1 DEF EndInv, UndoInv, Undid, IsTerminalFailure, Undone
  <2> QED BY <2>2, <2>3 DEF EndInv
<1> QED
  BY <1>1, <1>2, <1>3, <1>4, <1>5, <1>6, <1>7, <1>8, <1>9, <1>10, <1>11, <1>12
  DEF Next, UndoStatuses, RowStatuses

LEMMA EndInvInit == ASSUME StepAssumption, Init PROVE EndInv
<1>1. /\ phase = "none" /\ over = "no" /\ rows = <<>> /\ policy \in Policies
  BY DEF Init
<1>2. Policies \subseteq {"", "pause", "fail"}
  BY DEF StepAssumption
<1>3. \A id \in DOMAIN rows : FALSE
  BY <1>1
<1> QED BY <1>1, <1>2, <1>3 DEF EndInv, SwallowInv, SwallowedFails, UndoInv

\* A handler that swallows a yield, in whatever branch, neither completes nor yields and is
\* not tried again; and what is to be undone is undone when the run has failed for good,
\* and not before: however the branches interleave and responses are lost.
THEOREM StepsEndAsTold ==
  ASSUME StepAssumption, NoColons PROVE Spec => []SwallowedFails /\ []UndoneIffFailed
<1>1. Init => StepInv /\ EndInv
  BY StepInvInit, EndInvInit
<1>2. StepInv /\ EndInv /\ [Next]_vars => (StepInv /\ EndInv)'
  BY StepInvNext, EndInvNext
<1>3. EndInv => SwallowedFails
  BY DEF EndInv, SwallowInv
<1>4. StepInv /\ EndInv => UndoneIffFailed
  <2> SUFFICES ASSUME StepInv, EndInv PROVE UndoneIffFailed
    OBVIOUS
  <2>1. ASSUME NEW i \in DOMAIN undos
        PROVE  CompensationId(undos[i]) = UndoIdOf(undos[i]) /\ OfUndo(UndoIdOf(undos[i]))
    <3>1. undos[i] \in NamesIn(prog) /\ RunTypes
      BY DEF StepInv, TypeInv, ContextTypes
    <3> QED BY <3>1, CompensationIs, UndoIdShape DEF OfUndo
  <2>2. ASSUME over \in {"no", "completed", "paused"}, NEW i \in DOMAIN undos
        PROVE  Status(CompensationId(undos[i])) = "none"
    <3>1. CompensationId(undos[i]) \notin DOMAIN rows
      BY <2>1, <2>2 DEF EndInv, UndoInv
    <3> QED BY <3>1 DEF Status
  <2>3. ASSUME over = "failed" /\ policy # "", NEW i \in DOMAIN undos
        PROVE  Status(CompensationId(undos[i])) # "none"
    <3>1. CompensationId(undos[i]) \in DOMAIN rows
      BY <2>1, <2>3 DEF EndInv, UndoInv
    <3>2. rows[CompensationId(undos[i])].status \in RowStatuses
      BY <3>1 DEF StepInv, TypeInv, ResultTypes
    <3> QED BY <3>1, <3>2 DEF Status, RowStatuses
  <2> QED BY <2>2, <2>3 DEF UndoneIffFailed
<1> QED BY <1>1, <1>2, <1>3, <1>4, PTL DEF Spec
=============================================================================
