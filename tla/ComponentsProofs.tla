-------------------------- MODULE ComponentsProofs --------------------------
(***************************************************************************)
(* What the components promise holds of all of them side by side: each     *)
(* component of Components moves as its own specification says, or not at  *)
(* all, so that the theorem of its own module says it of a behaviour here. *)
(* The drain at a signal, the claim of a command, the subscriptions over   *)
(* ConnectRPC and the watchers of an offline write have their invariants   *)
(* and their proofs here.                                                  *)
(***************************************************************************)
EXTENDS Components, TLAPS

LEMMA PullRuns == Spec => Pull!Spec
<1>1. Init => Pull!Init
  BY DEF Init
<1>2. [Next]_vars => [Pull!Next]_Pull!vars
  BY DEF Next, vars, pullVars, Pull!vars, Pull!worker, Pull!engine
<1> QED BY <1>1, <1>2, PTL DEF Spec, Pull!Spec

LEMMA StreamingRuns == Spec => Streaming!Spec
<1>1. Init => Streaming!Init
  BY DEF Init
<1>2. [Next]_vars => [Streaming!Next]_Streaming!vars
  BY DEF Next, vars, streamingVars, Streaming!vars, Streaming!worker, Streaming!wire,
         Streaming!engine
<1> QED BY <1>1, <1>2, PTL DEF Spec, Streaming!Spec

LEMMA SignalRuns == Spec => OnSignal!Spec
<1>1. Init => OnSignal!Init
  BY DEF Init
<1>2. [Next]_vars => [OnSignal!Next]_OnSignal!vars
  BY DEF Next, vars, signalVars, OnSignal!vars
<1> QED BY <1>1, <1>2, PTL DEF Spec, OnSignal!Spec

LEMMA InvocationRuns == Spec => Invocation!Spec
<1>1. Init => Invocation!Init
  BY DEF Init
<1>2. [Next]_vars => [Invocation!Next]_Invocation!vars
  BY DEF Next, vars, invocationVars, Invocation!vars, Invocation!run, Invocation!ctx,
         Invocation!hist
<1> QED BY <1>1, <1>2, PTL DEF Spec, Invocation!Spec

LEMMA GroupRuns == Spec => Group!Spec
<1>1. Init => Group!Init
  BY DEF Init
<1>2. [Next]_vars => [Group!Next]_Group!vars
  BY DEF Next, vars, groupVars, Group!vars, Group!control, Group!acking, Group!wire,
         Group!server, Group!history
<1> QED BY <1>1, <1>2, PTL DEF Spec, Group!Spec

LEMMA DedupRuns == Spec => Dedup!Spec
<1>1. Init => Dedup!Init
  BY DEF Init
<1>2. [Next]_vars => [Dedup!Next]_Dedup!vars
  BY DEF Next, vars, dedupVars, Dedup!vars
<1> QED BY <1>1, <1>2, PTL DEF Spec, Dedup!Spec

LEMMA AgentRuns == Spec => Agent!Spec
<1>1. Init => Agent!Init
  BY DEF Init
<1>2. [Next]_vars => [Agent!Next]_Agent!vars
  BY DEF Next, vars, agentVars, Agent!vars, Agent!held, Agent!gate, Agent!children
<1> QED BY <1>1, <1>2, PTL DEF Spec, Agent!Spec

LEMMA RpcRuns == Spec => Rpc!Spec
<1>1. Init => Rpc!Init
  BY DEF Init
<1>2. [Next]_vars => [Rpc!Next]_Rpc!vars
  BY DEF Next, vars, rpcVars, Rpc!vars
<1> QED BY <1>1, <1>2, PTL DEF Spec, Rpc!Spec

LEMMA WatchRuns == Spec => Watch!Spec
<1>1. Init => Watch!Init
  BY DEF Init
<1>2. [Next]_vars => [Watch!Next]_Watch!vars
  BY DEF Next, vars, watchVars, Watch!vars, Watch!outcome
<1> QED BY <1>1, <1>2, PTL DEF Spec, Watch!Spec

-----------------------------------------------------------------------------
(* The drain at a signal: the registry holds whom a drain would wait for, and  *)
(* a pending drain waits for every worker that ran when its signal came.       *)
Waiting ==
  /\ \A w \in Workers : worker[w] \in {"running", "draining"} => w \in drains
  /\ \A p \in waits :
       /\ raised # {} /\ (p.exits => "us" \in raised)
       /\ \A w \in Workers \ (dLate \cup p.of) : worker[w] \in {"idle", "stopped"}

SignalInv == OnSignal!TypeOK /\ Waiting /\ OnSignal!ExitsWhenDrained

LEMMA SignalInit == OnSignal!Init => SignalInv
BY DEF OnSignal!Init, SignalInv, OnSignal!TypeOK, Waiting, OnSignal!ExitsWhenDrained

LEMMA SignalTypes ==
  ASSUME OnSignal!TypeOK, OnSignal!Next PROVE OnSignal!TypeOK'
<1> USE DEF OnSignal!TypeOK
<1>1. CASE \E w \in Workers : OnSignal!Start(w) \/ OnSignal!Drain(w) \/ OnSignal!Stop(w)
  BY <1>1 DEF OnSignal!Start, OnSignal!Drain, OnSignal!Stop, OnSignal!Add, OnSignal!Remove
<1>2. CASE \E s \in Signals : OnSignal!Signal(s)
  <2> PICK s \in Signals : OnSignal!Signal(s)
    BY <1>2
  <2>1. CASE s \in ours
    <3>1. OnSignal!OnSignal(s) /\ UNCHANGED <<drains, dLate>> /\ process' \in {"up", "killed"}
      BY <2>1 DEF OnSignal!Signal
    <3>2. /\ ours' \subseteq Signals /\ apps' \subseteq Signals
          /\ raised' \subseteq {"app", "us"}
      BY <2>1 DEF OnSignal!Signal
    <3>3. worker' \in [Workers -> {"idle", "running", "draining", "stopped"}]
      BY <3>1 DEF OnSignal!OnSignal
    <3>4. PICK b \in BOOLEAN : b = (s \notin apps)
      <4>1. (s \notin apps) \in BOOLEAN
        OBVIOUS
      <4> QED BY <4>1, Zenon
    <3>5. waits' \subseteq [of : SUBSET Workers, sig : Signals, exits : BOOLEAN]
      <4>1. waits' = waits \cup {[of |-> drains, sig |-> s, exits |-> b]}
        BY <3>1, <3>4, Zenon DEF OnSignal!OnSignal
      <4> QED BY <4>1
    <3> QED BY <3>1, <3>2, <3>3, <3>5
  <2>2. CASE s \notin ours
    BY <2>2 DEF OnSignal!Signal
  <2> QED BY <2>1, <2>2
<1>3. CASE \E p \in waits : OnSignal!Exit(p)
  BY <1>3 DEF OnSignal!Exit
<1> QED BY <1>1, <1>2, <1>3 DEF OnSignal!Next

LEMMA SignalStep ==
  ASSUME SignalInv, OnSignal!Next PROVE Waiting' /\ OnSignal!ExitsWhenDrained'
<1> USE DEF SignalInv, OnSignal!TypeOK, Waiting, OnSignal!ExitsWhenDrained
<1>1. CASE \E w \in Workers : OnSignal!Start(w)
  BY <1>1 DEF OnSignal!Start, OnSignal!Add
<1>2. CASE \E w \in Workers : OnSignal!Drain(w)
  BY <1>2 DEF OnSignal!Drain
<1>3. CASE \E w \in Workers : OnSignal!Stop(w)
  BY <1>3 DEF OnSignal!Stop, OnSignal!Remove
<1>4. CASE \E s \in Signals : OnSignal!Signal(s)
  <2> PICK s \in Signals : OnSignal!Signal(s)
    BY <1>4
  <2>1. CASE s \in ours
    <3>1. OnSignal!OnSignal(s) /\ UNCHANGED <<drains, dLate>> /\ process' \in {"up", "killed"}
      BY <2>1 DEF OnSignal!Signal
    <3>2. raised' # {} /\ raised \subseteq raised' /\ (s \notin apps => "us" \in raised')
      BY <2>1 DEF OnSignal!Signal
    <3>3. ASSUME NEW w \in Workers
          PROVE  /\ worker'[w] \in {"running", "draining"} => w \in drains
                 /\ worker[w] \in {"idle", "stopped"} => worker'[w] = worker[w]
                 /\ w \notin drains => worker'[w] \in {"idle", "stopped"}
      BY <3>1 DEF OnSignal!OnSignal
    <3>4. ASSUME NEW p \in waits', NEW w \in Workers \ (dLate \cup p.of)
          PROVE  worker'[w] \in {"idle", "stopped"}
      BY <3>1, <3>3 DEF OnSignal!OnSignal
    <3>5. ASSUME NEW p \in waits', p.exits PROVE "us" \in raised'
      <4>1. (s \notin apps) \in BOOLEAN
        OBVIOUS
      <4>2. PICK b \in BOOLEAN : b = (s \notin apps)
        BY <4>1, Zenon
      <4>3. waits' = waits \cup {[of |-> drains, sig |-> s, exits |-> b]}
        BY <3>1, <4>2, Zenon DEF OnSignal!OnSignal
      <4>4. p.exits = b \/ p \in waits
        BY <4>3
      <4>5. b => "us" \in raised'
        BY <3>2, <4>2, Zenon
      <4> QED BY <3>2, <3>5, <4>4, <4>5
    <3> QED BY <3>1, <3>2, <3>3, <3>4, <3>5
  <2>2. CASE s \notin ours
    BY <2>2 DEF OnSignal!Signal
  <2> QED BY <2>1, <2>2
<1>5. CASE \E p \in waits : OnSignal!Exit(p)
  BY <1>5 DEF OnSignal!Exit, OnSignal!Settled
<1> QED BY <1>1, <1>2, <1>3, <1>4, <1>5 DEF OnSignal!Next

\* The process ends at a signal when every worker that ran has drained.
LEMMA SignalsDrain == OnSignal!Spec => []OnSignal!ExitsWhenDrained
<1>1. SignalInv /\ [OnSignal!Next]_OnSignal!vars => SignalInv'
  <2>1. SignalInv /\ OnSignal!Next => SignalInv'
    BY SignalTypes, SignalStep DEF SignalInv
  <2>2. SignalInv /\ UNCHANGED OnSignal!vars => SignalInv'
    BY DEF SignalInv, OnSignal!vars, OnSignal!TypeOK, Waiting, OnSignal!ExitsWhenDrained
  <2> QED BY <2>1, <2>2
<1>2. SignalInv => OnSignal!ExitsWhenDrained
  BY DEF SignalInv
<1> QED BY <1>1, <1>2, SignalInit, PTL DEF OnSignal!Spec

-----------------------------------------------------------------------------
(* The claim of a command, for any callers, attempts, and any number of lost   *)
(* answers and failed handlers.                                                *)

\* From winning the claim to finalizing or releasing it.
Holders == {c \in Callers : pc[c] \in {"running", "finalizing", "releasing"}}

\* The inductive strengthening of ClaimIsExclusive: also who is about to release
\* the claim still has it, so that what it removes is its own.
ClaimInv == \A c \in Holders : entry = Dedup!Claim(c)

\* A caller in tryClaim() has a round left: rounds stays a number of rounds.
RoundsInv ==
  \A c \in Callers : pc[c] \in {"ensuring", "creating", "reading"} => rounds[c] > 0

ClaimIInv == Dedup!TypeOK /\ RoundsInv /\ ClaimInv

\* What is in the bucket tells who put it there, and what it is.
LEMMA EntriesDiffer ==
  ASSUME NEW c, NEW d
  PROVE  /\ Dedup!Claim(c) = Dedup!Claim(d) <=> c = d
         /\ Dedup!Claim(c) # Dedup!Nothing /\ Dedup!ResultOf(c) # Dedup!Nothing
         /\ Dedup!Claim(c) # Dedup!ResultOf(d)
BY DEF Dedup!Claim, Dedup!Nothing, Dedup!ResultOf

LEMMA DedupTypeStep ==
  ASSUME Dedup!DedupAssumption, Dedup!TypeOK, RoundsInv, [Dedup!Next]_Dedup!vars
  PROVE  Dedup!TypeOK' /\ RoundsInv'
<1> USE DEF Dedup!DedupAssumption, Dedup!TypeOK, RoundsInv, Dedup!Goto, Dedup!Lose
<1>1. CASE Dedup!BucketReady
  BY <1>1 DEF Dedup!BucketReady, Dedup!Waiting
<1>2. CASE Dedup!BucketFails
  BY <1>2 DEF Dedup!BucketFails, Dedup!Waiting
<1>3. ASSUME NEW c \in Callers, Dedup!TryClaim(c) PROVE Dedup!TypeOK' /\ RoundsInv'
  BY <1>3 DEF Dedup!TryClaim
<1>4. ASSUME NEW c \in Callers, Dedup!ComeBack(c) PROVE Dedup!TypeOK' /\ RoundsInv'
  BY <1>4 DEF Dedup!ComeBack
<1>5. ASSUME NEW c \in Callers, Dedup!Create(c) \/ Dedup!CreateFails(c)
      PROVE  Dedup!TypeOK' /\ RoundsInv'
  BY <1>5 DEF Dedup!Create, Dedup!CreateFails, Dedup!CreateWrites
<1>6. ASSUME NEW c \in Callers, Dedup!ReadBack(c) PROVE Dedup!TypeOK' /\ RoundsInv'
  BY <1>6 DEF Dedup!ReadBack
<1>7. ASSUME NEW c \in Callers, Dedup!ReadBackFails(c) \/ Dedup!HandlerEnds(c)
      PROVE  Dedup!TypeOK' /\ RoundsInv'
  BY <1>7 DEF Dedup!ReadBackFails, Dedup!HandlerEnds
<1>8. ASSUME NEW c \in Callers, Dedup!Finalize(c) \/ Dedup!Release(c)
      PROVE  Dedup!TypeOK' /\ RoundsInv'
  BY <1>8 DEF Dedup!Finalize, Dedup!Release
<1>9. CASE UNCHANGED Dedup!vars
  BY <1>9 DEF Dedup!vars
<1> QED BY <1>1, <1>2, <1>3, <1>4, <1>5, <1>6, <1>7, <1>8, <1>9 DEF Dedup!Next, Dedup!Step

\* A step in which nobody comes to hold the claim, and the entry stays.
LEMMA NobodyWins ==
  ASSUME ClaimInv, Holders' \subseteq Holders, UNCHANGED entry
  PROVE  ClaimInv'
BY DEF ClaimInv, Dedup!Claim

\* A step of the only holder c, which afterwards holds nothing.
LEMMA HolderLeaves ==
  ASSUME ClaimInv, NEW c \in Holders, Holders' \subseteq Holders \ {c}
  PROVE  ClaimInv'
<1>1. Holders \subseteq {c}
  BY EntriesDiffer DEF ClaimInv
<1> QED BY <1>1 DEF ClaimInv

LEMMA ClaimKept == ASSUME Dedup!TypeOK, ClaimInv, [Dedup!Next]_Dedup!vars PROVE ClaimInv'
<1> USE DEF Dedup!TypeOK, Dedup!Goto
<1>1. CASE Dedup!BucketReady \/ Dedup!BucketFails
  BY <1>1, NobodyWins DEF Dedup!BucketReady, Dedup!BucketFails, Dedup!Waiting, Holders
<1>2. ASSUME NEW c \in Callers,
             \/ Dedup!TryClaim(c) \/ Dedup!ComeBack(c)
             \/ Dedup!ReadBackFails(c) \/ Dedup!HandlerEnds(c)
      PROVE  ClaimInv'
  BY <1>2, NobodyWins
     DEF Dedup!TryClaim, Dedup!ComeBack, Dedup!ReadBackFails, Dedup!HandlerEnds, Holders
<1>3. ASSUME NEW c \in Callers, Dedup!Create(c) \/ Dedup!CreateFails(c) PROVE ClaimInv'
  <2>1. CASE UNCHANGED entry
    <3>1. Holders' \subseteq Holders
      BY <1>3, <2>1 DEF Dedup!Create, Dedup!CreateFails, Holders
    <3> QED BY <2>1, <3>1, NobodyWins
  <2>2. CASE entry = Dedup!Nothing /\ entry' = Dedup!Claim(c)
    <3>1. Holders = {}
      BY <2>2, EntriesDiffer DEF ClaimInv
    <3>2. Holders' \subseteq {c}
      BY <1>3, <3>1 DEF Dedup!Create, Dedup!CreateFails, Holders
    <3> QED BY <2>2, <3>2 DEF ClaimInv, Dedup!Claim
  <2> QED BY <1>3, <2>1, <2>2 DEF Dedup!Create, Dedup!CreateFails, Dedup!CreateWrites
\* Only the caller that finds its own claim wins by the read-back.
<1>4. ASSUME NEW c \in Callers, Dedup!ReadBack(c) PROVE ClaimInv'
  <2>1. CASE entry = Dedup!Claim(c)
    <3>1. Holders' \subseteq Holders \cup {c} /\ entry' = entry
      BY <1>4, <2>1 DEF Dedup!ReadBack, Holders
    <3> QED BY <2>1, <3>1 DEF ClaimInv, Dedup!Claim
  <2>2. CASE entry # Dedup!Claim(c)
    <3>1. Holders' \subseteq Holders /\ entry' = entry
      BY <1>4, <2>2 DEF Dedup!ReadBack, Holders
    <3> QED BY <3>1, NobodyWins
  <2> QED BY <2>1, <2>2
\* What is written or removed is the claim of the only holder.
<1>5. ASSUME NEW c \in Callers, Dedup!Finalize(c) \/ Dedup!Release(c) PROVE ClaimInv'
  <2>1. c \in Holders /\ Holders' \subseteq Holders \ {c}
    BY <1>5 DEF Dedup!Finalize, Dedup!Release, Holders
  <2> QED BY <2>1, HolderLeaves
<1>6. CASE UNCHANGED Dedup!vars
  BY <1>6, NobodyWins DEF Dedup!vars, Holders
<1> QED BY <1>1, <1>2, <1>3, <1>4, <1>5, <1>6 DEF Dedup!Next, Dedup!Step

LEMMA ClaimInductive == ASSUME Dedup!DedupAssumption PROVE Dedup!Spec => []ClaimIInv
<1>1. Dedup!Init => ClaimIInv
  BY DEF Dedup!DedupAssumption, Dedup!Init, ClaimIInv, Dedup!TypeOK, RoundsInv, ClaimInv, Holders
<1>2. ClaimIInv /\ [Dedup!Next]_Dedup!vars => ClaimIInv'
  BY Dedup!DedupAssumption, DedupTypeStep, ClaimKept DEF ClaimIInv
<1> QED BY <1>1, <1>2, PTL DEF Dedup!Spec

(* Every variable has its type.                                                  *)
THEOREM DedupTypes == ASSUME Dedup!DedupAssumption PROVE Dedup!Spec => []Dedup!TypeOK
<1>1. ClaimIInv => Dedup!TypeOK
  BY DEF ClaimIInv
<1> QED BY <1>1, ClaimInductive, PTL

(* A command has one runner at a time: whoever is between winning the claim and  *)
(* finalizing it holds it (command-dedup.ts:121-178).                            *)
THEOREM OneRunner == ASSUME Dedup!DedupAssumption PROVE Dedup!Spec => []Dedup!ClaimIsExclusive
<1>1. ClaimIInv => Dedup!ClaimIsExclusive
  BY DEF ClaimIInv, ClaimInv, Holders, Dedup!ClaimIsExclusive
<1> QED BY <1>1, ClaimInductive, PTL

\* Once there is a result it stays, whoever comes: nobody runs the command again
\* after it (finalize, release).
ResultStays == entry.is = "result" => entry' = entry

ResultIsFinal == [][ResultStays]_Dedup!vars

(* The result of a command is final: a put or a delete is of a claim, though     *)
(* neither asks what it replaces (command-dedup.ts:154-178).                     *)
THEOREM ResultsAreFinal == ASSUME Dedup!DedupAssumption PROVE Dedup!Spec => ResultIsFinal
<1>1. ClaimIInv /\ [Dedup!Next]_Dedup!vars => [ResultStays]_Dedup!vars
  <2> SUFFICES ASSUME ClaimIInv, Dedup!Next, entry.is = "result" PROVE entry' = entry
    BY DEF ResultStays
  <2>1. entry # Dedup!Nothing
    BY DEF Dedup!Nothing
  <2>2. Holders = {}
    BY DEF ClaimIInv, ClaimInv, Dedup!Claim
  <2>3. ASSUME NEW c \in Callers, Dedup!Step(c) PROVE entry' = entry
    BY <2>1, <2>2, <2>3
       DEF Dedup!Step, Dedup!Create, Dedup!CreateFails, Dedup!CreateWrites, Dedup!ReadBack,
           Dedup!ReadBackFails, Dedup!HandlerEnds, Dedup!Finalize, Dedup!Release, Holders
  <2>4. ASSUME NEW c \in Callers, Dedup!TryClaim(c) \/ Dedup!ComeBack(c) PROVE entry' = entry
    BY <2>4 DEF Dedup!TryClaim, Dedup!ComeBack
  <2> QED BY <2>3, <2>4 DEF Dedup!Next, Dedup!BucketReady, Dedup!BucketFails
<1> QED BY <1>1, ClaimInductive, PTL DEF Dedup!Spec, ResultIsFinal

-----------------------------------------------------------------------------
(* The subscriptions over ConnectRPC, for any subscriptions, events, pauses    *)
(* and faults.                                                                 *)

\* Who is about to restart a stream that fell behind: of a controller that is not
\* replaced, and then the subscription has no stream, or of an earlier one.
BehindInv ==
  /\ behind \subseteq [s : RpcSubs, by : Nat]
  /\ \A b \in behind :
       /\ b.by <= controller[b.s] /\ sub[b.s] # "idle"
       /\ b.by = controller[b.s] /\ b.s \in Rpc!Active =>
            rState = "connected" /\ \A x \in streams : x.s # b.s

RpcInv == Rpc!TypeOK /\ Rpc!OneStreamEach /\ BehindInv

\* Each subscription gets one stream, of its controller and from its cursor on.
LEMMA StartedOnes ==
  ASSUME NEW S
  PROVE  /\ \A x \in Rpc!Started(S) :
              /\ x.s \in S /\ x.by = controller[x.s] /\ x.pos = rCursor[x.s]
              /\ \A y \in Rpc!Started(S) : y.s = x.s => y = x
         /\ \A s \in S : \E x \in Rpc!Started(S) : x.s = s
<1> DEFINE F(s) == [s |-> s, by |-> controller[s], pos |-> rCursor[s],
                    n |-> Rpc!Cardinality({x \in streams : x.s = s})]
<1>1. Rpc!Started(S) = {F(s) : s \in S}
  BY Zenon DEF Rpc!Started
<1>2. \A s \in S : F(s).s = s /\ F(s).by = controller[s] /\ F(s).pos = rCursor[s]
  OBVIOUS
<1> HIDE DEF F
<1> QED BY <1>1, <1>2

LEMMA StartedOne ==
  ASSUME NEW s
  PROVE  /\ \A x \in Rpc!Started({s}) : /\ x.s = s /\ x.by = controller[s] /\ x.pos = rCursor[s]
                                       /\ \A y \in Rpc!Started({s}) : y = x
         /\ \E x \in Rpc!Started({s}) : x.s = s
<1> DEFINE T == Rpc!Started({s})
<1>1. /\ \A x \in T : /\ x.s \in {s} /\ x.by = controller[x.s] /\ x.pos = rCursor[x.s]
                     /\ \A y \in T : y.s = x.s => y = x
      /\ \A r \in {s} : \E x \in T : x.s = r
  BY StartedOnes
<1> HIDE DEF T
<1>2. /\ \A x \in T : /\ x.s = s /\ x.by = controller[s] /\ x.pos = rCursor[s]
                     /\ \A y \in T : y = x
      /\ \E x \in T : x.s = s
  BY <1>1
<1> QED BY <1>2 DEF T

\* A stream is aborted with its subscription.
LEMMA AbortedAll ==
  ASSUME RpcInv, NEW S, S \subseteq Rpc!Active
  PROVE  Rpc!Unaborted(S) = {x \in streams : x.s \notin S}
BY DEF RpcInv, Rpc!OneStreamEach, Rpc!Unaborted

\* connect() finds no stream, and gives each subscription one.
LEMMA ConnectedAll ==
  ASSUME RpcInv, Rpc!Connected, UNCHANGED <<sub, controller, rCursor, heard, behind>>
  PROVE  Rpc!OneStreamEach' /\ BehindInv' /\ rState' = "connected"
         /\ ended' \subseteq RpcSubs
         /\ \A x \in streams' : x.s \in RpcSubs /\ x.by \in Nat /\ x.pos \in 0 .. RpcEvents
<1> USE DEF RpcInv, Rpc!TypeOK, Rpc!OneStreamEach, BehindInv
<1>1. Rpc!Active' = Rpc!Active /\ Rpc!Active \subseteq RpcSubs
  BY DEF Rpc!Active
<1>2. CASE rState = "connected"
  BY <1>1, <1>2 DEF Rpc!Connected
<1>3. CASE rState # "connected"
  <2>1. streams = {}
    BY <1>3
  <2>2. streams' = Rpc!Started(Rpc!Active) /\ ended' = {} /\ rState' = "connected"
    BY <1>3, <2>1 DEF Rpc!Connected
  <2>3. \A b \in behind : b.by = controller[b.s] => b.s \notin Rpc!Active
    BY <1>3
  <2> QED BY <1>1, <2>2, <2>3, StartedOnes
<1> QED BY <1>2, <1>3

\* pause() and a failed stream leave no stream, and every restart to nobody.
LEMMA AbortedEach ==
  ASSUME RpcInv, Rpc!AbortAll, rState' = "disconnected",
         UNCHANGED <<sub, rCursor, heard, behind>>
  PROVE  Rpc!OneStreamEach' /\ BehindInv' /\ streams' = {} /\ controller' \in [RpcSubs -> Nat]
<1> USE DEF RpcInv, Rpc!TypeOK, Rpc!OneStreamEach, BehindInv
<1>1. Rpc!Active' = Rpc!Active /\ Rpc!Active \subseteq RpcSubs
  BY DEF Rpc!Active
<1>2. streams' = {}
  BY AbortedAll DEF Rpc!AbortAll
<1>3. /\ controller' \in [RpcSubs -> Nat]
      /\ \A s \in RpcSubs : /\ controller'[s] >= controller[s]
                            /\ s \in Rpc!Active => controller'[s] > controller[s]
  BY DEF Rpc!AbortAll
<1>4. BehindInv'
  BY <1>1, <1>2, <1>3
<1> QED BY <1>1, <1>2, <1>3, <1>4

LEMMA RpcConnects ==
  ASSUME Rpc!ConnectRPCAssumption, RpcInv,
         \/ Rpc!Connect \/ Rpc!ReconnectFires \/ Rpc!Pause \/ Rpc!Resume \/ Rpc!Disconnect
  PROVE  RpcInv'
<1> USE DEF RpcInv, Rpc!TypeOK
<1>1. CASE Rpc!Connect \/ Rpc!Resume
  <2>1. Rpc!OneStreamEach' /\ BehindInv' /\ rState' = "connected"
        /\ ended' \subseteq RpcSubs
        /\ \A x \in streams' : x.s \in RpcSubs /\ x.by \in Nat /\ x.pos \in 0 .. RpcEvents
    BY <1>1, ConnectedAll DEF Rpc!Connect, Rpc!Resume
  <2> QED BY <1>1, <2>1 DEF Rpc!Connect, Rpc!Resume
<1>2. CASE Rpc!ReconnectFires
  <2>1. CASE rPaused
    BY <1>2, <2>1 DEF Rpc!ReconnectFires, Rpc!OneStreamEach, Rpc!Active, BehindInv
  <2>2. CASE ~rPaused
    <3>1. Rpc!OneStreamEach' /\ BehindInv' /\ rState' = "connected"
          /\ ended' \subseteq RpcSubs
          /\ \A x \in streams' : x.s \in RpcSubs /\ x.by \in Nat /\ x.pos \in 0 .. RpcEvents
      BY <1>2, <2>2, ConnectedAll DEF Rpc!ReconnectFires
    <3> QED BY <1>2, <3>1 DEF Rpc!ReconnectFires
  <2> QED BY <2>1, <2>2
<1>3. CASE Rpc!Pause
  <2>1. Rpc!OneStreamEach' /\ BehindInv' /\ streams' = {} /\ controller' \in [RpcSubs -> Nat]
    BY <1>3, AbortedEach DEF Rpc!Pause
  <2>2. pauses' \in 0 .. MaxPauses
    BY <1>3 DEF Rpc!Pause, Rpc!ConnectRPCAssumption
  <2> QED BY <1>3, <2>1, <2>2 DEF Rpc!Pause
<1>4. CASE Rpc!Disconnect
  <2>1. streams' = {}
    BY <1>4, AbortedAll DEF Rpc!Disconnect, Rpc!OneStreamEach
  <2>2. Rpc!Active' = {}
    BY <1>4 DEF Rpc!Disconnect, Rpc!Active
  <2>3. \A s \in RpcSubs : sub[s] # "idle" => sub'[s] # "idle"
    BY <1>4 DEF Rpc!Disconnect, Rpc!Active
  <2> QED BY <1>4, <2>1, <2>2, <2>3 DEF Rpc!Disconnect, Rpc!OneStreamEach, BehindInv
<1> QED BY <1>1, <1>2, <1>3, <1>4

LEMMA RpcSubscribes ==
  ASSUME RpcInv, NEW s \in RpcSubs, Rpc!Subscribe(s) \/ Rpc!Unsubscribe(s)
  PROVE  RpcInv'
<1> USE DEF RpcInv, Rpc!TypeOK, Rpc!OneStreamEach, BehindInv
<1>1. CASE Rpc!Subscribe(s)
  <2>1. Rpc!Active' = Rpc!Active \cup {s} /\ s \notin Rpc!Active
    BY <1>1 DEF Rpc!Subscribe, Rpc!Active
  <2>2. CASE rState = "connected"
    <3>1. streams' = streams \cup Rpc!Started({s})
      BY <1>1, <2>2 DEF Rpc!Subscribe
    <3>2. Rpc!OneStreamEach'
      <4>1. \A x \in streams : x.s # s
        BY <2>1
      <4>2. /\ \A x \in Rpc!Started({s}) : /\ x.s = s /\ x.by = controller[s] /\ x.pos = rCursor[s]
                                          /\ \A y \in Rpc!Started({s}) : y = x
            /\ \E x \in Rpc!Started({s}) : x.s = s
        BY StartedOne
      <4>3. /\ UNCHANGED <<rState, controller, rCursor, heard, ended, behind>>
        BY <1>1 DEF Rpc!Subscribe
      <4>4. \A x \in streams' : /\ x.s \in Rpc!Active' /\ x.by = controller[x.s]
                                /\ x.pos = rCursor[x.s]
                                /\ \A y \in streams' : y.s = x.s => y = x
        BY <2>1, <3>1, <4>1, <4>2
      <4>5. \A a \in Rpc!Active' \ ended : \/ \E x \in streams' : x.s = a
                                            \/ [s |-> a, by |-> controller[a]] \in behind
        BY <2>1, <2>2, <3>1, <4>2
      <4> QED BY <2>2, <4>3, <4>4, <4>5
    <3>3. Rpc!TypeOK'
      BY <1>1, <3>1, StartedOnes DEF Rpc!Subscribe
    <3>4. BehindInv'
      BY <1>1, <2>1, <3>1, StartedOnes DEF Rpc!Subscribe
    <3> QED BY <3>2, <3>3, <3>4
  <2>3. CASE rState # "connected"
    BY <1>1, <2>1, <2>3 DEF Rpc!Subscribe
  <2> QED BY <2>2, <2>3
<1>2. CASE Rpc!Unsubscribe(s)
  <2>1. Rpc!Active' = Rpc!Active \ {s}
    BY <1>2 DEF Rpc!Unsubscribe, Rpc!Active
  <2>2. streams' = {x \in streams : x.s # s}
    BY <1>2, AbortedAll DEF Rpc!Unsubscribe
  <2>3. /\ sub' = [sub EXCEPT ![s] = "gone"]
        /\ UNCHANGED <<rState, rPaused, rTimer, controller, rCursor, heard, behind, ended, pauses,
                       rFaults>>
    BY <1>2 DEF Rpc!Unsubscribe
  <2>4. Rpc!TypeOK'
    BY <2>2, <2>3
  <2>5. Rpc!OneStreamEach'
    BY <2>1, <2>2, <2>3
  <2>6. BehindInv'
    BY <2>1, <2>2, <2>3
  <2> QED BY <2>4, <2>5, <2>6
<1> QED BY <1>1, <1>2

LEMMA RpcStreams ==
  ASSUME Rpc!ConnectRPCAssumption, RpcInv, NEW x \in streams,
         \/ Rpc!StreamSends(x) \/ Rpc!StreamFails(x) \/ Rpc!StreamFallsBehind(x)
         \/ Rpc!StreamRefused(x) \/ Rpc!StreamEnds(x)
  PROVE  RpcInv'
<1> USE DEF Rpc!ConnectRPCAssumption, RpcInv, Rpc!TypeOK, Rpc!Fault
<1>1. /\ x.s \in Rpc!Active /\ x.by = controller[x.s] /\ rState = "connected"
      /\ \A y \in streams : y.s = x.s => y = x
      /\ x.pos = rCursor[x.s]
  BY DEF Rpc!OneStreamEach
<1>2. CASE Rpc!StreamSends(x)
  <2> DEFINE z == [x EXCEPT !.pos = @ + 1]
  <2>1. /\ streams' = (streams \ {x}) \cup {z}
        /\ rCursor' = [rCursor EXCEPT ![x.s] = x.pos + 1]
        /\ heard' = [heard EXCEPT ![x.s] = @ + 1]
        /\ UNCHANGED <<rState, rPaused, rTimer, sub, controller, behind, ended, pauses, rFaults>>
    BY <1>1, <1>2 DEF Rpc!StreamSends
  <2>2. x.s \in RpcSubs /\ x.pos \in 0 .. RpcEvents /\ x.pos < RpcEvents /\ x.by \in Nat
    BY <1>2 DEF Rpc!StreamSends
  <2>3. z.s = x.s /\ z.by = x.by /\ z.pos = x.pos + 1
    BY DEF Rpc!OneStreamEach
  <2> HIDE DEF z
  <2>4. Rpc!TypeOK'
    BY <2>1, <2>2, <2>3
  <2>5. Rpc!Active' = Rpc!Active
    BY <2>1 DEF Rpc!Active
  <2>6. heard' = rCursor'
    BY <1>1, <2>1, <2>2 DEF Rpc!OneStreamEach
  <2>7. \A y \in streams \ {x} : y.s # x.s /\ rCursor'[y.s] = rCursor[y.s]
    BY <1>1, <2>1
  <2>8. rCursor'[x.s] = x.pos + 1
    BY <2>1, <2>2
  <2>9. Rpc!OneStreamEach'
    BY <1>1, <2>1, <2>3, <2>5, <2>6, <2>7, <2>8 DEF Rpc!OneStreamEach
  <2>10. BehindInv'
    BY <2>1, <2>3, <2>5 DEF BehindInv
  <2> QED BY <2>4, <2>9, <2>10
<1>3. CASE Rpc!StreamFails(x)
  <2>1. Rpc!AbortAll /\ rState' = "disconnected" /\ rTimer' = (rTimer \/ ~rPaused)
    BY <1>1, <1>3 DEF Rpc!StreamFails
  <2>2. Rpc!OneStreamEach' /\ BehindInv' /\ streams' = {} /\ controller' \in [RpcSubs -> Nat]
    BY <1>3, <2>1, AbortedEach DEF Rpc!StreamFails
  <2>3. rTimer' \in BOOLEAN
    <3>1. (rTimer \/ ~rPaused) \in BOOLEAN
      OBVIOUS
    <3> QED BY <2>1, <3>1, Zenon
  <2> QED BY <1>3, <2>1, <2>2, <2>3 DEF Rpc!StreamFails
<1>4. CASE Rpc!StreamFallsBehind(x)
  BY <1>1, <1>4 DEF Rpc!StreamFallsBehind, Rpc!OneStreamEach, BehindInv, Rpc!Active
<1>5. CASE Rpc!StreamRefused(x)
  BY <1>1, <1>5 DEF Rpc!StreamRefused, Rpc!OneStreamEach, BehindInv, Rpc!Active
<1>6. CASE Rpc!StreamEnds(x)
  BY <1>1, <1>6 DEF Rpc!StreamEnds, Rpc!OneStreamEach, BehindInv, Rpc!Active
<1> QED BY <1>2, <1>3, <1>4, <1>5, <1>6

LEMMA RpcRestarts ==
  ASSUME RpcInv, NEW b \in behind, Rpc!BehindFires(b)
  PROVE  RpcInv'
<1> USE DEF RpcInv, Rpc!TypeOK, Rpc!OneStreamEach, BehindInv
<1>1. Rpc!Active' = Rpc!Active
  BY DEF Rpc!BehindFires, Rpc!Active
<1>2. CASE Rpc!OwnsRestart(b)
  <2>1. streams' = streams \cup Rpc!Started({b.s})
    BY <1>2 DEF Rpc!BehindFires
  <2>2. /\ b.s \in Rpc!Active /\ b.by = controller[b.s] /\ rState = "connected"
        /\ \A x \in streams : x.s # b.s
    BY <1>2 DEF Rpc!OwnsRestart
  <2>3. \A c \in behind : c.s = b.s /\ c.by = controller[b.s] => c = b
    BY <2>2 DEF BehindInv
  <2>4. /\ \A x \in Rpc!Started({b.s}) :
             /\ x.s = b.s /\ x.by = controller[b.s] /\ x.pos = rCursor[b.s]
             /\ \A y \in Rpc!Started({b.s}) : y = x
        /\ \E x \in Rpc!Started({b.s}) : x.s = b.s
    BY StartedOne
  <2>5. behind' = behind \ {b} /\ UNCHANGED <<rState, rPaused, rTimer, sub, controller, rCursor, heard,
                                            ended, pauses, rFaults>>
    BY DEF Rpc!BehindFires
  <2>6. b.s \in RpcSubs
    BY DEF BehindInv
  <2>7. Rpc!TypeOK'
    BY <2>1, <2>4, <2>5, <2>6
  <2>8. \A x \in streams' : /\ x.s \in Rpc!Active /\ x.by = controller[x.s]
                            /\ x.pos = rCursor[x.s]
                            /\ \A y \in streams' : y.s = x.s => y = x
    BY <2>1, <2>2, <2>4
  <2>9. \A a \in Rpc!Active \ ended : \/ \E x \in streams' : x.s = a
                                       \/ [s |-> a, by |-> controller[a]] \in behind'
    <3> SUFFICES ASSUME NEW a \in Rpc!Active \ ended, a # b.s
                 PROVE  \/ \E x \in streams' : x.s = a
                        \/ [s |-> a, by |-> controller[a]] \in behind'
      BY <2>1, <2>4
    <3>1. \/ \E x \in streams : x.s = a
          \/ [s |-> a, by |-> controller[a]] \in behind
      BY <2>2
    <3>2. [s |-> a, by |-> controller[a]] # b
      BY DEF BehindInv
    <3> QED BY <2>1, <2>5, <3>1, <3>2
  <2>10. Rpc!OneStreamEach'
    BY <1>1, <2>2, <2>5, <2>8, <2>9
  <2>11. BehindInv'
    <3>1. ASSUME NEW c \in behind', c.by = controller[c.s], c.s \in Rpc!Active
          PROVE  \A x \in streams' : x.s # c.s
      <4>1. c \in behind /\ c.s # b.s
        BY <2>2, <2>3, <2>5, <3>1
      <4>2. \A x \in streams : x.s # c.s
        BY <3>1, <4>1
      <4> QED BY <2>1, <2>4, <4>1, <4>2
    <3> QED BY <1>1, <2>2, <2>5, <3>1
  <2> QED BY <2>7, <2>10, <2>11
<1>3. CASE ~Rpc!OwnsRestart(b)
  BY <1>1, <1>3 DEF Rpc!BehindFires, Rpc!OwnsRestart
<1> QED BY <1>2, <1>3

LEMMA RpcInductive == ASSUME Rpc!ConnectRPCAssumption PROVE Rpc!Spec => []RpcInv
<1>1. Rpc!Init => RpcInv
  <2> SUFFICES ASSUME Rpc!Init PROVE RpcInv
    OBVIOUS
  <2>1. Rpc!TypeOK
    <3>1. RpcEvents \in Nat /\ MaxPauses \in Nat /\ RpcFaults \in Nat
      BY DEF Rpc!ConnectRPCAssumption
    <3>2. /\ streams = {} /\ behind = {} /\ ended = {} /\ rPaused = FALSE /\ rTimer = FALSE
          /\ pauses = 0 /\ rFaults = 0
      BY DEF Rpc!Init
    <3>3. {rPaused, rTimer} \subseteq BOOLEAN
      BY <3>2
    <3>4. /\ \A x \in streams : x.s \in RpcSubs /\ x.by \in Nat /\ x.pos \in 0 .. RpcEvents
          /\ \A x \in behind : x.s \in RpcSubs /\ x.by \in Nat
      BY <3>2, Zenon
    <3>5. /\ rState \in {"disconnected", "connected"}
          /\ sub \in [RpcSubs -> {"idle", "active", "gone", "failed"}]
          /\ controller \in [RpcSubs -> Nat] /\ rCursor \in [RpcSubs -> 0 .. RpcEvents]
      BY <3>1 DEF Rpc!Init
    <3>6. pauses \in 0 .. MaxPauses /\ rFaults \in 0 .. RpcFaults /\ ended \subseteq RpcSubs
      BY <3>1, <3>2
    <3> QED BY <3>3, <3>4, <3>5, <3>6 DEF Rpc!TypeOK
  <2>2. Rpc!OneStreamEach /\ BehindInv
    BY DEF Rpc!Init, Rpc!OneStreamEach, BehindInv
  <2> QED BY <2>1, <2>2 DEF RpcInv
<1>2. RpcInv /\ [Rpc!Next]_Rpc!vars => RpcInv'
  <2>1. RpcInv /\ Rpc!Next => RpcInv'
    BY Rpc!ConnectRPCAssumption, RpcConnects, RpcSubscribes, RpcStreams, RpcRestarts
       DEF Rpc!Next
  <2>2. RpcInv /\ UNCHANGED Rpc!vars => RpcInv'
    BY DEF RpcInv, Rpc!vars, Rpc!TypeOK, Rpc!OneStreamEach, Rpc!Active, BehindInv
  <2> QED BY <2>1, <2>2
<1> QED BY <1>1, <1>2, PTL DEF Rpc!Spec

(* Every variable has its type.                                                  *)
THEOREM RpcTypes == ASSUME Rpc!ConnectRPCAssumption PROVE Rpc!Spec => []Rpc!TypeOK
<1>1. RpcInv => Rpc!TypeOK
  BY DEF RpcInv
<1> QED BY <1>1, RpcInductive, PTL

(* Over ConnectRPC a subscription has one stream at a time, which no abort would *)
(* miss, one while it is connected, and hears each event once, whoever restarts  *)
(* its stream (connectrpc.ts:337-560).                                           *)
THEOREM HeardOnce == ASSUME Rpc!ConnectRPCAssumption PROVE Rpc!Spec => []Rpc!OneStreamEach
<1>1. RpcInv => Rpc!OneStreamEach
  BY DEF RpcInv
<1> QED BY <1>1, RpcInductive, PTL

-----------------------------------------------------------------------------
(* The watchers of an offline write, for any tabs, callbacks and retries.      *)

\* A state of the write that is read later was true once, and is true of what has
\* happened for good.
Happened(s) == /\ s = "absent" => wDelivered \/ dropped
               /\ s = "dead" => wasDead

\* What a tab has yet to tell of, a pass has read and a watcher was told.
WatchInv ==
  /\ Watch!TypeOK
  /\ Happened(store)
  /\ \A t \in WatchTabs : Happened(pass[t])
  /\ \A t \in WatchTabs : /\ news[t] = "sent" => wDelivered
                          /\ news[t] = "lost" => wasDead
  /\ Watch!ToldTheTruth

\* Watchers are told what a state of the write means, or what a tab did to it.
LEMMA NotifiedTrue ==
  ASSUME WatchInv, NEW t \in WatchTabs, NEW who, NEW what \in {"sent", "lost"},
         Watch!NotifyWatcher(t, who, what), UNCHANGED <<wDelivered, wasDead, dropped>>,
         what = "lost" => wasDead, what = "sent" => wDelivered \/ dropped
  PROVE  /\ Watch!ToldTheTruth'
         /\ watcher' \in [Callbacks -> {"new", "watching", "off", "sent", "lost"}]
<1>1. \A c \in Callbacks : watcher'[c] = what \/ watcher'[c] = watcher[c]
  BY DEF Watch!NotifyWatcher
<1>2. watcher' \in [Callbacks -> {"new", "watching", "off", "sent", "lost"}]
  BY DEF Watch!NotifyWatcher, WatchInv, Watch!TypeOK
<1> QED BY <1>1, <1>2 DEF WatchInv, Watch!ToldTheTruth

\* What a state of the write means.
LEMMA Meanings ==
  /\ DOMAIN Watch!Told = {"queued", "absent", "dead"}
  /\ Watch!Told["absent"] = "sent" /\ Watch!Told["dead"] = "lost"
BY DEF Watch!Told

LEMMA WatchCalls ==
  ASSUME Watch!WatchAssumption, WatchInv, NEW c \in Callbacks,
         Watch!Watch(c) \/ Watch!Unwatch(c) \/ Watch!StatusRead(c)
  PROVE  WatchInv'
<1> USE Meanings DEF Watch!TypeOK, Happened
<1>1. CASE Watch!Watch(c) \/ Watch!Unwatch(c)
  <2>1. /\ watcher' \in [Callbacks -> {"new", "watching", "off", "sent", "lost"}]
        /\ \A d \in Callbacks : watcher'[d] = watcher[d] \/ watcher'[d] \in {"watching", "off"}
    BY <1>1 DEF Watch!Watch, Watch!Unwatch, WatchInv
  <2>2. asked' \in [Callbacks -> BOOLEAN]
    BY <1>1 DEF Watch!Watch, Watch!Unwatch, WatchInv
  <2>3. UNCHANGED <<store, open, pass, news, posted, retries, wDelivered, wasDead, dropped, missed>>
    BY <1>1 DEF Watch!Watch, Watch!Unwatch, Watch!outcome
  <2>4. Watch!ToldTheTruth'
    BY <2>1, <2>3 DEF WatchInv, Watch!ToldTheTruth
  <2> QED BY <2>1, <2>2, <2>3, <2>4 DEF WatchInv
<1>2. CASE Watch!StatusRead(c)
  <2>1. CASE store # "queued" /\ watcher[c] = "watching"
    <3>1. TabOf[c] \in WatchTabs /\ Watch!NotifyWatcher(TabOf[c], {c}, Watch!Told[store])
      BY <1>2, <2>1 DEF Watch!StatusRead, Watch!WatchAssumption
    <3>2. store = "absent" \/ store = "dead"
      BY <2>1 DEF WatchInv
    <3>3. /\ Watch!ToldTheTruth'
          /\ watcher' \in [Callbacks -> {"new", "watching", "off", "sent", "lost"}]
      BY <1>2, <3>1, <3>2, NotifiedTrue DEF Watch!StatusRead, Watch!outcome, WatchInv
    <3> QED BY <1>2, <3>3 DEF Watch!StatusRead, Watch!outcome, WatchInv
  <2>2. CASE ~(store # "queued" /\ watcher[c] = "watching")
    BY <1>2, <2>2 DEF Watch!StatusRead, WatchInv, Watch!outcome, Watch!ToldTheTruth
  <2> QED BY <2>1, <2>2
<1> QED BY <1>1, <1>2

LEMMA WriteChanges ==
  ASSUME Watch!WatchAssumption, WatchInv, NEW t \in WatchTabs,
         Watch!Deliver(t) \/ Watch!Retire(t) \/ Watch!Discard(t) \/ Watch!RetryWrite(t)
  PROVE  WatchInv'
BY Meanings DEF Watch!WatchAssumption, Watch!Deliver, Watch!Retire, Watch!Discard,
   Watch!RetryWrite, Watch!Changes, Watch!outcome, WatchInv, Watch!TypeOK, Happened,
   Watch!ToldTheTruth

LEMMA WatchPasses ==
  ASSUME WatchInv, NEW t \in WatchTabs,
         Watch!Announce(t) \/ Watch!Close(t) \/ Watch!Pass(t)
  PROVE  WatchInv'
<1> USE Meanings DEF Watch!TypeOK, Happened
<1>1. CASE Watch!Announce(t)
  <2>1. CASE news[t] = "changed"
    BY <1>1, <2>1 DEF Watch!Announce, WatchInv, Watch!outcome, Watch!ToldTheTruth
  <2>2. CASE news[t] # "changed"
    <3>1. news[t] \in {"sent", "lost"}
      BY <1>1, <2>2 DEF Watch!Announce, WatchInv
    <3>2. /\ Watch!ToldTheTruth'
          /\ watcher' \in [Callbacks -> {"new", "watching", "off", "sent", "lost"}]
      BY <1>1, <2>2, <3>1, NotifiedTrue DEF Watch!Announce, Watch!outcome, WatchInv
    <3> QED BY <1>1, <3>2 DEF Watch!Announce, Watch!outcome, WatchInv
  <2> QED BY <2>1, <2>2
<1>2. CASE Watch!Close(t) \/ Watch!RequestRefresh(t) \/ Watch!ReconcileRead(t)
  BY <1>2 DEF Watch!Close, Watch!RequestRefresh, Watch!ReconcileRead, WatchInv, Watch!outcome,
     Watch!ToldTheTruth
<1>3. CASE Watch!Reconcile(t)
  <2>1. CASE pass[t] = "queued"
    BY <1>3, <2>1 DEF Watch!Reconcile, WatchInv, Watch!outcome, Watch!ToldTheTruth
  <2>2. CASE pass[t] # "queued"
    <3>1. pass[t] = "absent" \/ pass[t] = "dead"
      BY <1>3, <2>2 DEF Watch!Reconcile
    <3>2. /\ Watch!ToldTheTruth'
          /\ watcher' \in [Callbacks -> {"new", "watching", "off", "sent", "lost"}]
      BY <1>3, <2>2, <3>1, NotifiedTrue DEF Watch!Reconcile, Watch!outcome, WatchInv
    <3> QED BY <1>3, <3>2 DEF Watch!Reconcile, Watch!outcome, WatchInv
  <2> QED BY <2>1, <2>2
<1> QED BY <1>1, <1>2, <1>3 DEF Watch!Pass

LEMMA WatchInductive == ASSUME Watch!WatchAssumption PROVE Watch!Spec => []WatchInv
<1>1. Watch!Init => WatchInv
  BY Meanings DEF Watch!WatchAssumption, Watch!Init, WatchInv, Watch!TypeOK, Happened,
     Watch!ToldTheTruth
<1>2. WatchInv /\ [Watch!Next]_Watch!vars => WatchInv'
  <2>1. WatchInv /\ Watch!Next => WatchInv'
    BY Watch!WatchAssumption, WatchCalls, WriteChanges, WatchPasses DEF Watch!Next
  <2>2. WatchInv /\ UNCHANGED Watch!vars => WatchInv'
    BY DEF WatchInv, Watch!vars, Watch!outcome, Watch!TypeOK, Happened, Watch!ToldTheTruth
  <2> QED BY <2>1, <2>2
<1> QED BY <1>1, <1>2, PTL DEF Watch!Spec

(* Every variable has its type.                                                  *)
THEOREM WatchTypes == ASSUME Watch!WatchAssumption PROVE Watch!Spec => []Watch!TypeOK
<1>1. WatchInv => Watch!TypeOK
  BY DEF WatchInv
<1> QED BY <1>1, WatchInductive, PTL

(* What a watcher is told of a write is what happened to it, whichever of the    *)
(* three ways tells it and however old its answer is (queue.ts:986-1056).        *)
THEOREM ToldTrue == ASSUME Watch!WatchAssumption PROVE Watch!Spec => []Watch!ToldTheTruth
<1>1. WatchInv => Watch!ToldTheTruth
  BY DEF WatchInv
<1> QED BY <1>1, WatchInductive, PTL

-----------------------------------------------------------------------------
(* The streaming and the pull worker know what they run (worker.ts,            *)
(* worker-streaming.ts).                                                       *)
THEOREM WorkersKnowTheirJobs == Spec => []JobsAreKnown
<1>1. Pull!Spec => []Pull!CapacityKept
  BY ComponentsAssumption, Pull!CapacityNeverExceeded
<1>2. Streaming!Spec => []Streaming!ActiveIsWhatRuns
  BY ComponentsAssumption, Streaming!ActiveJobsRun
<1>3. Streaming!Spec => []Streaming!LostStreamIsSilent
  BY ComponentsAssumption, Streaming!LostStreamsAreSilent
<1>4. /\ Pull!CapacityKept /\ Streaming!ActiveIsWhatRuns /\ Streaming!LostStreamIsSilent
      => JobsAreKnown
  BY DEF JobsAreKnown
<1> QED BY <1>1, <1>2, <1>3, <1>4, PullRuns, StreamingRuns, PTL

(* A draining streaming worker takes nothing more and closes its stream when   *)
(* all has been read, and a signal ends the process only when every worker has *)
(* drained (worker-streaming.ts, drain-on-signal.ts).                          *)
THEOREM DrainsStayWhole == Spec => DrainsAreWhole
<1>1. Streaming!Spec => Streaming!DrainingIsFinal
  BY Streaming!DrainsStayDraining
<1>2. Streaming!Spec => []Streaming!DrainDelivers
  BY ComponentsAssumption, Streaming!DrainsDeliver
<1>3. /\ [Next]_vars /\ [Streaming!DrainingStays]_Streaming!vars
      /\ Streaming!DrainDelivers' /\ OnSignal!ExitsWhenDrained'
      => [ /\ part = "streaming" => Streaming!DrainingStays /\ Streaming!DrainDelivers'
           /\ part = "signal" => OnSignal!ExitsWhenDrained' ]_vars
  <2> SUFFICES ASSUME [Next]_vars, [Streaming!DrainingStays]_Streaming!vars,
                      part = "streaming", ~Streaming!DrainingStays
               PROVE  UNCHANGED vars
    OBVIOUS
  <2> QED BY DEF Next, vars, streamingVars, Streaming!vars, Streaming!worker, Streaming!wire,
                 Streaming!engine
<1> QED BY <1>1, <1>2, <1>3, SignalsDrain, StreamingRuns, SignalRuns, PTL
        DEF Spec, DrainsAreWhole, Streaming!DrainingIsFinal

(* An operation of a durable function is given its own memoized output, and    *)
(* none whose row the engine has is run again, for any handlers whose names    *)
(* hold no colon (context.ts, step.ts).                                        *)
THEOREM StepsAreOnce == ASSUME Invocation!NoColons PROVE Spec => []StepsOnce
<1>1. Invocation!Spec => []Invocation!MemoIsOwn /\ []Invocation!EffectsOnce
  BY ComponentsAssumption, Invocation!StepsRunOnce
<1>2. Invocation!MemoIsOwn /\ Invocation!EffectsOnce => StepsOnce
  BY DEF StepsOnce
<1> QED BY <1>1, <1>2, InvocationRuns, PTL

(* A handler that swallows a yield fails for good, and compensations run when  *)
(* a run fails, all of them, and never else (errors.ts, serve.ts).             *)
THEOREM RunsEndAsTold == ASSUME Invocation!NoColons PROVE Spec => []StepsEnd
<1>1. Invocation!Spec => []Invocation!SwallowedFails /\ []Invocation!UndoneIffFailed
  BY ComponentsAssumption, Invocation!StepsEndAsTold
<1>2. Invocation!SwallowedFails /\ Invocation!UndoneIffFailed => StepsEnd
  BY DEF StepsEnd
<1> QED BY <1>1, <1>2, InvocationRuns, PTL

(* An ack that resolved was applied, and no copy that the server waits for is  *)
(* refused (consumer-group-stream-conn.ts).                                    *)
THEOREM AcksStayHonest == Spec => []AcksAreHonest
<1>1. Group!Spec => []Group!AcksAreHonest
  BY ComponentsAssumption, Group!AcksHonest
<1>2. Group!AcksAreHonest => AcksAreHonest
  BY DEF AcksAreHonest
<1> QED BY <1>1, <1>2, GroupRuns, PTL

(* unsubscribe() silences the handlers at once, and no member outlives it      *)
(* (consumer-group-stream.ts).                                                 *)
THEOREM GroupsAreLeft == Spec => GroupLeaves
<1>1. Group!Spec => Group!GroupLeaves
  BY ComponentsAssumption, Group!GroupIsLeft
<1>2. [Next]_vars /\ [Group!QuietStep /\ Group!NoMemberOutlives']_Group!vars
      => [part = "group" => Group!QuietStep /\ Group!NoMemberOutlives']_vars
  BY DEF Next, vars, groupVars, Group!vars, Group!control, Group!acking, Group!wire,
         Group!server, Group!history
<1> QED BY <1>1, <1>2, GroupRuns, PTL DEF Spec, GroupLeaves, Group!GroupLeaves

(* Of those who got one command, one at a time runs it, and none once it has a *)
(* result (command-dedup.ts).                                                  *)
THEOREM ClaimsAreExclusive == Spec => []ClaimIsExclusive
<1>1. Dedup!Spec => []Dedup!ClaimIsExclusive
  BY ComponentsAssumption, OneRunner
<1>2. Dedup!ClaimIsExclusive => ClaimIsExclusive
  BY DEF ClaimIsExclusive
<1> QED BY <1>1, <1>2, DedupRuns, PTL

(* A turn keeps its session, no answer after a cancel leaves a grant, and a    *)
(* connection has one child at a time (server.ts, permissions.ts).             *)
THEOREM AgentsHoldSessions == Spec => []AgentSessionsHold
<1>1. Agent!Spec => []Agent!AgentSessionsHold
  BY ComponentsAssumption, Agent!SessionsHold
<1>2. Agent!AgentSessionsHold => AgentSessionsHold
  BY DEF AgentSessionsHold
<1> QED BY <1>1, <1>2, AgentRuns, PTL

(* Over ConnectRPC a subscription hears each event once, whoever restarts its  *)
(* stream, and what a watcher is told of an offline write is true              *)
(* (connectrpc.ts, queue.ts).                                                  *)
THEOREM ToldIsTrue == Spec => []WhatIsToldIsTrue
<1>1. Rpc!Spec => []Rpc!OneStreamEach
  BY ComponentsAssumption, HeardOnce
<1>2. Watch!Spec => []Watch!ToldTheTruth
  BY ComponentsAssumption, ToldTrue
<1>3. Rpc!OneStreamEach /\ Watch!ToldTheTruth => WhatIsToldIsTrue
  BY DEF WhatIsToldIsTrue
<1> QED BY <1>1, <1>2, <1>3, RpcRuns, WatchRuns, PTL
=============================================================================
