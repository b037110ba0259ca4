---------------------------- MODULE StepHandlers ----------------------------
(***************************************************************************)
(* Handlers of durable functions, as values: the programs StepEngine runs. *)
(* A name is the sequence of its parts between colons.                     *)
(***************************************************************************)
EXTENDS Sequences

\* No handler here needs more of them.
Decimals == <<"0", "1", "2", "3", "4", "5", "6", "7", "8", "9">>

\* An operation; name is a step name, or that of a compensation, and caught that
\* the application swallows its rejection.
Op(kind, name, caught) == [kind |-> kind, name |-> name, caught |-> caught]

\* A handler without a fan-out.
Plain(ops) == [root |-> ops, fork |-> <<>>, branches |-> <<>>, settled |-> FALSE, limit |-> 0]

a == <<"a">>
b == <<"b">>
p == <<"p">>

\* A sleep, the same name twice, and two calls that may fail.
Saga ==
  Plain(<<Op("run", a, FALSE), Op("undo", a, FALSE), Op("sleep", b, FALSE),
          Op("run", a, FALSE), Op("undo", b, FALSE), Op("invoke", b, FALSE),
          Op("invokeAsync", b, FALSE)>>)

\* Two branches that use the same names.
FanOut(settled, limit, caught) ==
  [root     |-> <<Op("parallel", p, caught), Op("run", b, FALSE)>>,
   fork     |-> p,
   branches |-> <<<<Op("run", a, FALSE), Op("undo", a, FALSE), Op("sleep", b, FALSE)>>,
                  <<Op("run", a, FALSE), Op("undo", b, FALSE), Op("run", a, FALSE)>>>>,
   settled  |-> settled, limit |-> limit]

\* A branch that swallows its wait; so may the root, the fan-out or its sleep.
Swallow(fork, sleep, settled) ==
  [root     |-> <<Op("parallel", p, fork), Op("sleep", b, sleep), Op("run", b, FALSE)>>,
   fork     |-> p,
   branches |-> <<<<Op("wait", a, TRUE), Op("undo", a, FALSE)>>,
                  <<Op("run", a, TRUE), Op("invokeAsync", b, FALSE)>>>>,
   settled  |-> settled, limit |-> 0]

\* Three branches, two at a time; the last has something to undo.
Three ==
  [root     |-> <<Op("parallel", p, FALSE)>>,
   fork     |-> p,
   branches |-> <<<<Op("run", a, FALSE)>>, <<>>,
                  <<Op("run", b, FALSE), Op("undo", b, FALSE)>>>>,
   settled  |-> FALSE, limit |-> 2]
=============================================================================
