----------------------------- MODULE StepEngine -----------------------------
(***************************************************************************)
(* The durable steps of @ironflow/node in push mode: the step client       *)
(* (step.ts) over an ExecutionContext and its branches                     *)
(* (internal/context.ts), guarded by YieldGuard (internal/errors.ts), and  *)
(* the invocation around them (serve.ts, executeHandler).                  *)
(*                                                                         *)
(* The engine is external: it invokes the function with the rows it has of *)
(* the run, keeps the steps a response carries, and invokes it again after *)
(* a yield, after a retryable failure, or when no response came.           *)
(*                                                                         *)
(* A handler (StepHandlers) is a program: operations in order, one of which *)
(* may fan out to branches, each a program of its own with the step client *)
(* of its scope.  The branches interleave at every await.                  *)
(*                                                                         *)
(* Abstracted: outputs (a row knows the operation it came from), durations,*)
(* arguments and their validation; sleepUntil is a sleep, publish a run,   *)
(* map a parallel.  Contexts of a worker, which can be aborted, are in     *)
(* JobWorker and StreamingWorker.                                          *)
(***************************************************************************)
EXTENDS Integers, Sequences, FiniteSets

CONSTANTS
  Programs,     \* the handlers
  Policies,     \* onExhausted of the run: "", "pause", "fail"
  MaxAttempts,  \* max_attempts
  MaxLost,      \* bound: responses that do not reach the engine
  Numerals      \* of 0, 1, ..., as many as a handler needs

Durable == {"run", "sleep", "wait", "invoke", "invokeAsync"}

Operations == [kind : Durable \cup {"undo", "parallel"}, name : Seq(STRING), caught : BOOLEAN]

HandlerType == [root : Seq(Operations), fork : Seq(STRING), branches : Seq(Seq(Operations)),
                settled : BOOLEAN, limit : Nat]

StepAssumption ==
  /\ MaxAttempts \in Nat \ {0} /\ MaxLost \in Nat /\ Policies \subseteq {"", "pause", "fail"}
  /\ Numerals \in Seq(STRING)
  /\ \A m, n \in DOMAIN Numerals : Numerals[m] = Numerals[n] => m = n
  /\ Programs \subseteq HandlerType
  /\ \A h \in Programs : /\ Len(h.root) < Len(Numerals) /\ Len(h.branches) < Len(Numerals)
                         /\ \A b \in DOMAIN h.branches : Len(h.branches[b]) < Len(Numerals)
                         /\ \A i, k \in DOMAIN h.root :
                              h.root[i].kind = "parallel" /\ h.root[k].kind = "parallel" => i = k

\* Names without a colon or a backslash: one part of an identifier, escaped or not.
NoColons ==
  \A h \in Programs :
    /\ \A i \in DOMAIN h.root : Len(h.root[i].name) = 1
    /\ \A b \in DOMAIN h.branches :
         Len(h.fork) = 1 /\ \A i \in DOMAIN h.branches[b] : Len(h.branches[b][i].name) = 1

NoOp == <<0, 0>>
None == <<>>
NoResume == [id |-> None, kind |-> "none"]

VARIABLES
  prog, policy,  \* the handler and the policy of the run
  attempt,       \* engine: the attempt
  rows,          \* engine: [status, op] of each step id it has
  resume,        \* engine: the sleep this invocation resumes from
  awaited,       \* engine: what the run sleeps for, or the call it waits for
  over,          \* engine: how the run ended: no, completed, failed, paused
  losses,        \* bound: responses lost so far
  phase,         \* of the invocation: none, running, undoing, answered
  scope,         \* where the root (0) and each branch is
  counts,        \* stepCounters of each scope
  pending,       \* yieldGuard.pending of each scope
  failed,        \* yieldGuard.invocation.failed
  cancelled,     \* executeParallel: cancelled
  steps,         \* executedSteps
  undos,         \* compensationOrder, as registered
  response,      \* the response on its way
  took,          \* history: outputs handed out, <<to, from>>
  began,         \* history: operations whose effect this invocation started
  swallowed,     \* history: this invocation caught a yield
  owed           \* history: compensations ever registered

run  == <<prog, policy, attempt, rows, resume, awaited, over, losses>>
ctx  == <<counts, pending, failed, cancelled, steps, undos>>
hist == <<took, began, swallowed, owed>>
vars == <<run, phase, scope, ctx, response, hist>>

Branches == DOMAIN prog.branches
Scopes   == {0} \cup Branches
Ops(s)   == IF s = 0 THEN prog.root ELSE prog.branches[s]
Here(s)  == Ops(s)[scope[s].at]
Names    == {o.name : o \in UNION {{Ops(s)[i] : i \in DOMAIN Ops(s)} : s \in Scopes}}

-----------------------------------------------------------------------------
(* Step identifiers.                                                        *)

Digit(n) == <<Numerals[n + 1]>>

\* An escaped name is one part of an identifier, an unescaped one as many as it has.
Escaped(name)   == <<name>>
Unescaped(name) == [i \in DOMAIN name |-> <<name[i]>>]

\* The identifier in scope s, of the parts of the fan-out and of the operation.
Path(s, fork, name, n) ==
  (IF s = 0 THEN <<>> ELSE fork \o <<Digit(s - 1)>>) \o name \o <<Digit(n)>>

\* The unescaped identifier, if a row has it and none has the escaped one.
PreferLegacyStepId(id, legacy) ==
  IF id \notin DOMAIN rows /\ legacy \in DOMAIN rows THEN legacy ELSE id

\* Mutant of GenerateStepId: the branches of a fan-out share a scope.
GenerateStepIdShared(s, name) ==
  PreferLegacyStepId(
    Path(0, Escaped(prog.fork), Escaped(name), counts[s][name]),
    Path(0, Unescaped(prog.fork), Unescaped(name), counts[s][name]))

GenerateStepId(s, name) ==
  PreferLegacyStepId(
    Path(s, Escaped(prog.fork), Escaped(name), counts[s][name]),
    Path(s, Unescaped(prog.fork), Unescaped(name), counts[s][name]))

\* The step of a compensation, in a name space of its own.
CompensationId(name) ==
  PreferLegacyStepId(<<<<"compensate">>>> \o Escaped(name) \o <<Digit(0)>>,
                     <<<<"compensate">>>> \o Unescaped(name) \o <<Digit(0)>>)

Status(id) == IF id \in DOMAIN rows THEN rows[id].status ELSE "none"

ShouldSkipStep(id) == Status(id) = "completed"

-----------------------------------------------------------------------------
(* One operation of one scope.                                              *)

\* assertClear, which notes a pending yield that was swallowed.
Clear(s) == ~pending[s] /\ ~failed

NoteFailure(s) == failed' = (failed \/ pending[s])

Advance(s) == scope' = [scope EXCEPT ![s].at = @ + 1, ![s].st = "ready"]

\* The operation rejects: the application catches it, or the scope ends with it.
Throw(s, error) ==
  IF Here(s).caught
  THEN Advance(s) /\ swallowed' = (swallowed \/ error = "yield")
  ELSE scope' = [scope EXCEPT ![s].st = "threw", ![s].why = error] /\ UNCHANGED swallowed

Ready(s, kinds) == /\ phase = "running" /\ scope[s].st = "ready"
                   /\ scope[s].at \in DOMAIN Ops(s) /\ Here(s).kind \in kinds

Count(s) == counts' = [counts EXCEPT ![s][Here(s).name] = @ + 1]

\* After a swallowed yield no operation starts.
Refused(s) ==
  /\ Ready(s, Durable \cup {"parallel"}) /\ ~Clear(s)
  /\ NoteFailure(s) /\ Throw(s, "swallowed")
  /\ UNCHANGED <<run, phase, counts, pending, cancelled, steps, undos, response,
                 took, began, owed>>

IsResumingFrom(s, id) == resume = [id |-> id, kind |-> Here(s).kind]

\* Mutant of Memoized: only what runs is counted.
MemoizedUncounted(s) ==
  LET id == GenerateStepId(s, Here(s).name)
  IN  /\ Ready(s, Durable) /\ Clear(s)
      /\ ShouldSkipStep(id) \/ IsResumingFrom(s, id)
      /\ took' = took \cup {<<<<s, scope[s].at>>, rows[id].op>>}
      /\ Advance(s)
      /\ UNCHANGED <<run, phase, counts, pending, failed, cancelled, steps, undos, response,
                     began, swallowed, owed>>

\* The output of the row of its identifier is handed out.
Memoized(s) ==
  LET id == GenerateStepId(s, Here(s).name)
  IN  /\ Ready(s, Durable) /\ Clear(s)
      /\ ShouldSkipStep(id) \/ IsResumingFrom(s, id)
      /\ took' = took \cup {<<<<s, scope[s].at>>, rows[id].op>>}
      /\ Count(s) /\ Advance(s)
      /\ UNCHANGED <<run, phase, pending, failed, cancelled, steps, undos, response,
                     began, swallowed, owed>>

\* Mutant of StepStarts: a branch does not ask whether to skip.
StepStartsInBranch(s) ==
  /\ Ready(s, {"run"}) /\ Clear(s)
  /\ s = 0 => ~ShouldSkipStep(GenerateStepId(s, Here(s).name))
  /\ scope' = [scope EXCEPT ![s].st = "body", ![s].id = GenerateStepId(s, Here(s).name)]
  /\ began' = began \cup {<<s, scope[s].at>>}
  /\ Count(s)
  /\ UNCHANGED <<run, phase, pending, failed, cancelled, steps, undos, response,
                 took, swallowed, owed>>

\* executeStep until the body is awaited.
StepStarts(s) ==
  /\ Ready(s, {"run"}) /\ Clear(s) /\ ~ShouldSkipStep(GenerateStepId(s, Here(s).name))
  /\ scope' = [scope EXCEPT ![s].st = "body", ![s].id = GenerateStepId(s, Here(s).name)]
  /\ began' = began \cup {<<s, scope[s].at>>}
  /\ Count(s)
  /\ UNCHANGED <<run, phase, pending, failed, cancelled, steps, undos, response,
                 took, swallowed, owed>>

Result(id, op, status) == [id |-> id, op |-> op, status |-> status]

\* "bad" is completed with an output that JSON cannot encode.
StepEnds(s, kind) ==
  /\ phase = "running" /\ scope[s].st = "body"
  /\ steps' = Append(steps, Result(scope[s].id, <<s, scope[s].at>>,
                                   IF kind \in {"retry", "fatal"} THEN "failed" ELSE kind))
  /\ IF kind \in {"retry", "fatal"} THEN Throw(s, kind)
     ELSE Advance(s) /\ UNCHANGED swallowed
  /\ UNCHANGED <<run, phase, counts, pending, failed, cancelled, undos, response,
                 took, began, owed>>

\* The guard of the scope keeps the yield, also when it is caught.
YieldOf(s) ==
  LET id == GenerateStepId(s, Here(s).name)
  IN  /\ pending' = [pending EXCEPT ![s] = TRUE]
      /\ Count(s)
      /\ IF Here(s).caught
         THEN Advance(s) /\ swallowed' = TRUE
         ELSE /\ scope' = [scope EXCEPT ![s].st = "threw", ![s].why = "yield", ![s].id = id]
              /\ UNCHANGED swallowed
      /\ UNCHANGED <<run, phase, failed, cancelled, steps, undos, response, took, began, owed>>

\* Neither memoized nor resumed from.
Unmet(s) == LET id == GenerateStepId(s, Here(s).name)
            IN  ~ShouldSkipStep(id) /\ ~IsResumingFrom(s, id)

Sleep(s) == Ready(s, {"sleep"}) /\ Clear(s) /\ Unmet(s) /\ YieldOf(s)

WaitForEvent(s) == Ready(s, {"wait"}) /\ Clear(s) /\ Unmet(s) /\ YieldOf(s)

Invoke(s) == /\ Ready(s, {"invoke"}) /\ Clear(s)
             /\ Status(GenerateStepId(s, Here(s).name)) = "none"
             /\ YieldOf(s)

InvokeAsync(s) == /\ Ready(s, {"invokeAsync"}) /\ Clear(s)
                  /\ Status(GenerateStepId(s, Here(s).name)) \notin {"completed", "failed"}
                  /\ YieldOf(s)

\* What was called failed, or did not end in time: InvokeError.
InvokeFails(s) ==
  /\ Ready(s, {"invoke", "invokeAsync"}) /\ Clear(s)
  /\ \/ Status(GenerateStepId(s, Here(s).name)) = "failed"
     \/ Here(s).kind = "invoke" /\ Status(GenerateStepId(s, Here(s).name)) = "timed_out"
  /\ Count(s) /\ Throw(s, "fatal")
  /\ UNCHANGED <<run, phase, pending, failed, cancelled, steps, undos, response,
                 took, began, owed>>

\* compensate(): a name is registered once, also after another scope swallowed a yield.
Compensate(s) ==
  LET name == Here(s).name
      twice == \E i \in DOMAIN undos : undos[i] = name
  IN  /\ Ready(s, {"undo"})
      /\ NoteFailure(s)
      /\ IF pending[s] THEN Throw(s, "swallowed") /\ UNCHANGED <<undos, owed>>
         ELSE IF twice THEN Throw(s, "retry") /\ UNCHANGED <<undos, owed>>
         ELSE /\ undos' = Append(undos, name) /\ owed' = owed \cup {name}
              /\ Advance(s) /\ UNCHANGED swallowed
      /\ UNCHANGED <<run, phase, counts, pending, cancelled, steps, response, took, began>>

-----------------------------------------------------------------------------
(* executeParallel.                                                         *)

FailFast == ~prog.settled

\* Without a limit every branch starts now.
Fork ==
  /\ Ready(0, {"parallel"}) /\ Clear(0)
  /\ scope' = [s \in Scopes |->
                 IF s = 0 THEN [scope[0] EXCEPT !.st = "forked"]
                 ELSE [scope[s] EXCEPT !.st = IF prog.limit = 0 THEN "ready" ELSE "off"]]
  /\ cancelled' = FALSE
  /\ UNCHANGED <<run, phase, counts, pending, failed, steps, undos, response, hist>>

\* With one they start in order as others end, until one cancels the rest.
BranchStarts(b) ==
  /\ phase = "running" /\ scope[0].st = "forked" /\ scope[b].st = "off"
  /\ \A c \in Branches : c < b => scope[c].st # "off"
  /\ Cardinality({c \in Branches : scope[c].st \in {"ready", "body", "threw"}}) < prog.limit
  /\ scope' = [scope EXCEPT ![b].st = IF cancelled /\ FailFast THEN "skipped" ELSE "ready"]
  /\ UNCHANGED <<run, phase, ctx, response, hist>>

\* How a branch ends: what it threw, unless the guard finds a swallowed yield.
Outcome(b) ==
  IF scope[b].st = "threw" /\ scope[b].why = "yield" THEN "yield"
  ELSE IF ~Clear(b) THEN "swallowed"
  ELSE IF scope[b].st = "threw" THEN scope[b].why ELSE "ok"

BranchEnds(b) ==
  /\ phase = "running"
  /\ \/ scope[b].st = "threw"
     \/ scope[b].st = "ready" /\ scope[b].at \notin DOMAIN Ops(b)
  /\ scope' = [scope EXCEPT ![b].st = "over", ![b].why = Outcome(b)]
  /\ IF Outcome(b) = "yield" THEN UNCHANGED failed ELSE NoteFailure(b)
  /\ cancelled' = (cancelled \/ Outcome(b) = "yield" \/ (Outcome(b) # "ok" /\ FailFast))
  /\ UNCHANGED <<run, phase, counts, pending, steps, undos, response, hist>>

First(why) == CHOOSE b \in Branches :
                scope[b].why = why /\ \A c \in Branches : c < b => scope[c].why # why

\* All are over: a swallowed yield goes before a yield, a yield before an error.
Join ==
  /\ phase = "running" /\ scope[0].st = "forked"
  /\ \A b \in Branches : scope[b].st \in {"over", "skipped"}
  /\ LET ended(why) == \E b \in Branches : scope[b].why = why
     IN  \/ /\ ended("swallowed")
            /\ Throw(0, "swallowed") /\ UNCHANGED pending
         \/ /\ ~ended("swallowed") /\ ended("yield")
            /\ pending' = [pending EXCEPT ![0] = TRUE]
            /\ IF Here(0).caught THEN Advance(0) /\ swallowed' = TRUE
               ELSE /\ scope' = [scope EXCEPT ![0].st = "threw", ![0].why = "yield",
                                              ![0].id = scope[First("yield")].id]
                    /\ UNCHANGED swallowed
         \/ /\ ~ended("swallowed") /\ ~ended("yield") /\ UNCHANGED pending
            /\ \/ \E b \in Branches :
                    /\ FailFast /\ scope[b].why \in {"retry", "fatal"}
                    /\ \A c \in Branches : c < b => scope[c].why \notin {"retry", "fatal"}
                    /\ Throw(0, scope[b].why)
               \/ /\ FailFast => ~ended("retry") /\ ~ended("fatal")
                  /\ Advance(0) /\ UNCHANGED swallowed
  /\ UNCHANGED <<run, phase, counts, failed, cancelled, steps, undos, response,
                 took, began, owed>>

-----------------------------------------------------------------------------
(* executeHandler.                                                          *)

Fresh == [at |-> 1, st |-> "off", why |-> "none", id |-> None]

Answer(r) == phase' = "answered" /\ response' = r

NoResponse == [status |-> "none", retryable |-> FALSE, steps |-> <<>>, id |-> None]

\* The engine invokes the function; an event that cannot be upcast fails at once.
EngineInvokes ==
  /\ phase = "none" /\ over = "no" /\ awaited = None
  /\ scope' = [s \in Scopes |-> IF s = 0 THEN [Fresh EXCEPT !.st = "ready"] ELSE Fresh]
  /\ counts' = [s \in Scopes |-> [n \in Names |-> 0]]
  /\ pending' = [s \in Scopes |-> FALSE]
  /\ failed' = FALSE /\ cancelled' = FALSE /\ steps' = <<>> /\ undos' = <<>>
  /\ took' = {} /\ began' = {} /\ swallowed' = FALSE /\ UNCHANGED owed
  /\ \/ phase' = "running" /\ response' = NoResponse
     \/ rows = <<>> /\ Answer([NoResponse EXCEPT !.status = "failed"])
  /\ UNCHANGED run

Encodable == \A i \in DOMAIN steps : steps[i].status # "bad"

\* dropUnencodable: the others keep their order.
Reported == [i \in {k \in DOMAIN steps : steps[k].status # "bad"} |-> steps[i]]

\* What the root ended with, once the guard has looked at it.
Error ==
  LET e == IF scope[0].st = "threw" THEN scope[0].why ELSE "ok"
  IN  IF e = "yield" /\ ~failed THEN "yield"
      ELSE IF ~Clear(0) THEN "swallowed"
      ELSE e

\* Mutant of IsTerminalFailure: every last attempt ends the run.
IsTerminalFailureLast(retryable) == ~retryable \/ attempt >= MaxAttempts

IsTerminalFailure(retryable) ==
  ~retryable \/ (policy = "fail" /\ attempt >= MaxAttempts)

Fails(retryable) ==
  IF undos # <<>> /\ IsTerminalFailure(retryable)
  THEN phase' = "undoing" /\ response' = [NoResponse EXCEPT !.retryable = retryable]
  ELSE Answer([NoResponse EXCEPT !.status = "failed", !.retryable = retryable,
                                 !.steps = Reported])

HandlerEnds ==
  /\ phase = "running"
  /\ \/ scope[0].st = "threw"
     \/ scope[0].st = "ready" /\ scope[0].at \notin DOMAIN Ops(0)
  /\ CASE Error = "ok" /\ Encodable ->
            Answer([NoResponse EXCEPT !.status = "completed", !.steps = steps])
       [] Error = "yield" /\ Encodable ->
            Answer([NoResponse EXCEPT !.status = "yielded", !.steps = steps,
                                      !.id = scope[0].id])
       [] OTHER -> Fails(Error = "retry")
  /\ UNCHANGED <<run, scope, ctx, hist>>

\* executeCompensations: the last registered that has no step in this invocation.
Undone == Cardinality({i \in DOMAIN steps : steps[i].status \in {"undone", "not undone", "kept"}})

UndoNext(kind) ==
  LET name == undos[Len(undos) - Undone]
      id == CompensationId(name)
  IN  /\ phase = "undoing" /\ Undone < Len(undos)
      /\ ShouldSkipStep(id) <=> kind = "kept"
      /\ steps' = Append(steps, Result(id, NoOp, kind))
      /\ UNCHANGED <<run, phase, scope, counts, pending, failed, cancelled, undos,
                     response, hist>>

AllUndone ==
  /\ phase = "undoing" /\ Undone = Len(undos)
  /\ Answer([response EXCEPT !.status = "failed", !.steps = Reported])
  /\ UNCHANGED <<run, scope, ctx, hist>>

-----------------------------------------------------------------------------
(* The engine hears the response, or not.                                   *)

Stored(r) == [status |-> CASE r.status = "undone" -> "completed"
                           [] r.status = "not undone" -> "failed"
                           [] OTHER -> r.status,
              op |-> r.op]

\* A completed row stays; "kept" is no step of the response.
Persist(rs) ==
  LET ids == {rs[i].id : i \in {k \in DOMAIN rs : rs[k].status # "kept"}}
      last(id) == CHOOSE i \in DOMAIN rs :
                    rs[i].id = id /\ \A k \in DOMAIN rs : rs[k].id = id => k <= i
  IN  [id \in DOMAIN rows \cup ids |->
         IF id \notin ids \/ ShouldSkipStep(id) THEN rows[id] ELSE Stored(rs[last(id)])]

Exhausted == CASE policy = "pause" -> "paused" [] OTHER -> "failed"

EngineHears ==
  /\ phase = "answered"
  /\ phase' = "none" /\ resume' = NoResume
  /\ rows' = Persist(response.steps)
  /\ CASE response.status = "completed" -> over' = "completed" /\ UNCHANGED <<attempt, awaited>>
       [] response.status = "yielded" -> awaited' = response.id /\ UNCHANGED <<attempt, over>>
       [] response.status = "failed" /\ response.retryable /\ attempt < MaxAttempts ->
            attempt' = attempt + 1 /\ UNCHANGED <<awaited, over>>
       [] OTHER -> /\ over' = IF response.retryable THEN Exhausted ELSE "failed"
                   /\ UNCHANGED <<attempt, awaited>>
  /\ UNCHANGED <<prog, policy, losses, scope, ctx, response, hist>>

\* The same attempt again, with the rows there were.
ResponseLost ==
  /\ phase = "answered" /\ losses < MaxLost
  /\ phase' = "none" /\ losses' = losses + 1
  /\ UNCHANGED <<prog, policy, attempt, rows, resume, awaited, over, scope, ctx, response, hist>>

\* The operation that yielded.
Yielded == LET s == CHOOSE s \in Scopes : scope[s].why = "yield" /\ scope[s].id = awaited
                                          /\ (s = 0 => \A b \in Branches : scope[b].id # awaited)
           IN  <<s, scope[s].at>>

\* What was waited for has happened; a call may have failed.
Awoken(status) ==
  LET o == Ops(Yielded[1])[Yielded[2]]
  IN  /\ phase = "none" /\ awaited # None
      /\ status \in CASE o.kind = "invoke" -> {"completed", "failed", "timed_out"}
                      [] o.kind = "invokeAsync" -> {"completed", "failed"}
                      [] OTHER -> {"completed"}
      /\ rows' = [id \in DOMAIN rows \cup {awaited} |->
                    IF id = awaited THEN [status |-> status, op |-> Yielded] ELSE rows[id]]
      /\ resume' = IF o.kind \in {"sleep", "wait"} THEN [id |-> awaited, kind |-> o.kind]
                   ELSE NoResume
      /\ awaited' = None
      /\ UNCHANGED <<prog, policy, attempt, over, losses, phase, scope, ctx, response, hist>>

-----------------------------------------------------------------------------
Init ==
  /\ prog \in Programs /\ policy \in Policies
  /\ attempt = 1 /\ rows = <<>> /\ resume = NoResume /\ awaited = None
  /\ over = "no" /\ losses = 0
  /\ phase = "none" /\ scope = [s \in Scopes |-> Fresh]
  /\ counts = [s \in Scopes |-> [n \in Names |-> 0]]
  /\ pending = [s \in Scopes |-> FALSE]
  /\ failed = FALSE /\ cancelled = FALSE /\ steps = <<>> /\ undos = <<>>
  /\ response = NoResponse
  /\ took = {} /\ began = {} /\ swallowed = FALSE /\ owed = {}

Operate(s) ==
  \/ Refused(s) \/ Memoized(s) \/ StepStarts(s) \/ Compensate(s)
  \/ Sleep(s) \/ WaitForEvent(s) \/ Invoke(s) \/ InvokeAsync(s) \/ InvokeFails(s)
  \/ \E kind \in {"completed", "bad", "retry", "fatal"} : StepEnds(s, kind)

Next ==
  \/ \E s \in Scopes : Operate(s)
  \/ Fork \/ Join
  \/ \E b \in Branches : BranchStarts(b) \/ BranchEnds(b)
  \/ EngineInvokes \/ HandlerEnds
  \/ \E kind \in {"undone", "not undone", "kept"} : UndoNext(kind)
  \/ AllUndone
  \/ EngineHears \/ ResponseLost
  \/ \E status \in {"completed", "failed", "timed_out"} : Awoken(status)

Spec == Init /\ [][Next]_vars

-----------------------------------------------------------------------------
\* The variables of the invocation (context.ts, step.ts) and of the engine have
\* their types.
TypeOK ==
  /\ attempt \in 1 .. MaxAttempts /\ over \in {"no", "completed", "failed", "paused"}
  /\ phase \in {"none", "running", "undoing", "answered"}
  /\ \A s \in Scopes :
       /\ scope[s].at \in 1 .. Len(Ops(s)) + 1
       /\ scope[s].st \in {"off", "ready", "body", "forked", "threw", "over", "skipped"}
       /\ scope[s].why \in {"none", "ok", "yield", "swallowed", "retry", "fatal"}
  /\ pending \in [Scopes -> BOOLEAN] /\ failed \in BOOLEAN /\ cancelled \in BOOLEAN
  /\ \A id \in DOMAIN rows : rows[id].status \in {"completed", "failed", "timed_out"}
  /\ response.status \in {"none", "completed", "yielded", "failed"}

\* A memoized output goes to the operation it came from, in whatever order
\* branches ran, now and then (generateStepId, createBranchContext).
MemoIsOwn == \A t \in took : t[1] = t[2]

\* No effect is started whose completion the engine has: not after a retry, a
\* resume, or a branch that ran in another order (shouldSkipStep, recordStep).
EffectsOnce ==
  phase = "running" =>
    \A o \in began : \A id \in DOMAIN rows : ~(rows[id].op = o /\ ShouldSkipStep(id))

\* A handler that swallows a yield, wherever and whatever it does then, neither
\* completes nor yields, and is not tried again (YieldGuard, executeParallel).
SwallowedFails ==
  phase = "answered" /\ swallowed => response.status = "failed" /\ ~response.retryable

\* Compensations are steps of a run that failed, and of no other: none runs
\* before the last attempt, and every one registered in it has its step, once and
\* in reverse order (isTerminalFailure, executeCompensations).
UndoneIffFailed ==
  LET comps == {CompensationId(undos[i]) : i \in DOMAIN undos}
  IN  /\ over \in {"no", "completed", "paused"} => \A id \in comps : Status(id) = "none"
      /\ over = "failed" /\ policy # "" => \A id \in comps : Status(id) # "none"

\* Compensations ensure that the effects before a failure are rolled back: what
\* was registered once for a step that completed is run when the run fails.
EffectsRolledBack ==
  over = "failed" /\ policy # "" => \A name \in owed : Status(CompensationId(name)) # "none"

=============================================================================
