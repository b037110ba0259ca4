--------------------------- MODULE DrainOnSignal ---------------------------
(***************************************************************************)
(* SIGINT and SIGTERM while workers run (internal/drain-on-signal.ts): one *)
(* registry for the process holds the drain of every running worker, and   *)
(* one once-listener per signal drains them all and then exits, unless the *)
(* application listens for the signal too.                                 *)
(*                                                                         *)
(* External: Node removes a once-listener before it calls it, calls ours   *)
(* first, and ends the process on a signal nobody listens for; a worker    *)
(* registers in start() and removes itself in stop(), which ends a drain.  *)
(***************************************************************************)
EXTENDS FiniteSets

CONSTANTS Workers, Signals

VARIABLES
  drains,   \* registry.drains
  ours,     \* signals our listener is attached to
  apps,     \* signals the application has a once-listener for
  worker,   \* idle, running, draining, stopped
  waits,    \* Promise.allSettled of each signal: whom it waits for, whether it exits
  process,  \* up, exited by us, killed by Node
  raised,   \* history: who was to shut down at each signal our listener got
  late      \* history: workers started after a signal

vars == <<drains, ours, apps, worker, waits, process, raised, late>>

Add(w) == /\ drains' = drains \cup {w}
          /\ ours' = IF drains = {} THEN Signals ELSE ours

Remove(w) == /\ drains' = drains \ {w}
             /\ ours' = IF drains \subseteq {w} THEN {} ELSE ours

Start(w) == /\ process = "up" /\ worker[w] = "idle"
            /\ worker' = [worker EXCEPT ![w] = "running"]
            /\ Add(w)
            /\ late' = IF raised = {} THEN late ELSE late \cup {w}
            /\ UNCHANGED <<apps, waits, process, raised>>

\* drain() of one worker, called by the application or the engine.
Drain(w) == /\ process = "up" /\ worker[w] = "running"
            /\ worker' = [worker EXCEPT ![w] = "draining"]
            /\ UNCHANGED <<drains, ours, apps, waits, process, raised, late>>

\* stop(), which a drain ends with.
Stop(w) == /\ process = "up" /\ worker[w] \in {"running", "draining"}
           /\ worker' = [worker EXCEPT ![w] = "stopped"]
           /\ Remove(w)
           /\ UNCHANGED <<apps, waits, process, raised, late>>

\* Mutant of OnSignal: waits for the first worker alone.
OnSignalFirst(s) ==
  /\ waits' = waits \cup {[of |-> {w}, sig |-> s, exits |-> s \notin apps] : w \in drains}
  /\ worker' = [w \in Workers |-> IF w \in drains /\ worker[w] = "running"
                                  THEN "draining" ELSE worker[w]]

\* The listeners are counted now: ours is removed, what is left is the application's.
OnSignal(s) ==
  /\ waits' = waits \cup {[of |-> drains, sig |-> s, exits |-> s \notin apps]}
  /\ worker' = [w \in Workers |-> IF w \in drains /\ worker[w] = "running"
                                  THEN "draining" ELSE worker[w]]

Signal(s) ==
  /\ process = "up"
  /\ IF s \in ours
     THEN OnSignal(s) /\ raised' = raised \cup {IF s \in apps THEN "app" ELSE "us"}
     ELSE UNCHANGED <<waits, worker, raised>>
  /\ process' = IF s \in ours \cup apps THEN "up" ELSE "killed"
  /\ ours' = ours \ {s} /\ apps' = apps \ {s}
  /\ UNCHANGED <<drains, late>>

Settled(p) == \A w \in p.of : worker[w] = "stopped"

\* Mutant of Exit: counts the listeners after the drain.
ExitCountsLate(p) == /\ process = "up" /\ p \in waits /\ Settled(p)
                     /\ waits' = waits \ {p}
                     /\ process' = IF p.sig \in apps THEN process ELSE "exited"
                     /\ UNCHANGED <<drains, ours, apps, worker, raised, late>>

Exit(p) == /\ process = "up" /\ p \in waits /\ Settled(p)
           /\ waits' = waits \ {p}
           /\ process' = IF p.exits THEN "exited" ELSE process
           /\ UNCHANGED <<drains, ours, apps, worker, raised, late>>

Init == /\ drains = {} /\ ours = {} /\ apps \in SUBSET Signals
        /\ worker = [w \in Workers |-> "idle"]
        /\ waits = {} /\ process = "up"
        /\ raised = {} /\ late = {}

Next == \/ \E w \in Workers : Start(w) \/ Drain(w) \/ Stop(w)
        \/ \E s \in Signals : Signal(s)
        \/ \E p \in waits : Exit(p)

Spec == Init /\ [][Next]_vars

\* The registry, the listeners and the pending drains (drain-on-signal.ts) have
\* their types.
TypeOK ==
  /\ drains \subseteq Workers /\ ours \subseteq Signals /\ apps \subseteq Signals
  /\ worker \in [Workers -> {"idle", "running", "draining", "stopped"}]
  /\ waits \subseteq [of : SUBSET Workers, sig : Signals, exits : BOOLEAN]
  /\ process \in {"up", "exited", "killed"}
  /\ raised \subseteq {"app", "us"} /\ late \subseteq Workers

\* The process exits by itself only when every worker that ran at the signal has
\* drained, and only for a signal the application does not handle, though its
\* handler may be gone by then (onSignal).
ExitsWhenDrained ==
  process = "exited" =>
    /\ "us" \in raised
    /\ \A w \in Workers \ late : worker[w] \in {"idle", "stopped"}

\* A drain ends by its deadline, and a promise that is settled is run.
Fair(k) ==
  CASE k = 1 -> \E w \in Workers : worker[w] = "draining" /\ Stop(w)
    [] k = 2 -> \E p \in waits : Exit(p)
    [] OTHER -> FALSE

Fairness == \A k \in {1, 2} : WF_vars(Fair(k))

\* A signal only this library handles ends the process.
SignalExits == []<>("us" \in raised => process # "up")

FairSpec == Spec /\ Fairness

=============================================================================
