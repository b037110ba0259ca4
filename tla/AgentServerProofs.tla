-------------------------- MODULE AgentServerProofs --------------------------
(***************************************************************************)
(* What TLAPS proves of AgentServer for any connections, loads, requests,  *)
(* turns, stops and children: a turn keeps the session its connection      *)
(* loaded, no answer after a cancel leaves a grant, and a connection has   *)
(* one child at a time, and none once it is disposed of.                   *)
(***************************************************************************)
EXTENDS AgentServer, FiniteSetTheorems, SequenceTheorems, TLAPS

Owners == Connections \cup {Nobody}
Child  == 0 .. MaxChildren

LoadPcs    == {"none", "credential", "bridging", "probing", "probed", "over"}
TurnPcs    == {"none", "appending", "bridging", "probing", "connected", "dispatching", "running"}
RequestPcs == {"none", "checking", "open", "denied", "over"}
Statuses   == {"none", "starting", "alive", "gone"}

\* The types of the variables, each with those it is changed with.
SessionType ==
  /\ session \in [by : Owners, gate : Nat] /\ gates \in Nat /\ session.gate <= gates
  /\ disposed \in [Connections -> {"no", "cancelling", "waiting", "done"}]
  /\ closing \in SUBSET Connections

LoadType == load \in [Loads -> [pc : LoadPcs, by : Owners, child : Child]]

TurnType ==
  turn \in [Connections -> [pc : TurnPcs, on : Nat, cancelled : BOOLEAN, aborted : BOOLEAN,
                            child : Child]]

GateType ==
  /\ request \in [Requests -> [pc : RequestPcs, by : Owners, on : Nat]]
  /\ always \in SUBSET Requests /\ late \in SUBSET Requests

BridgeType ==
  /\ chain \in [Connections -> [todo : Seq(Loads \cup Connections), starting : Child,
                                last : Child]]
  /\ child \in [1 .. MaxChildren -> [is : Statuses, by : Owners]]

TypeInv == SessionType /\ LoadType /\ TurnType /\ GateType /\ BridgeType

\* A load that goes on has its connection.
LoadInv ==
  \A l \in Loads : load[l].pc \notin {"none", "over"} => load[l].by \in Connections

\* What is closed or disposed of is cancelled first, and takes no other turn.
TurnInv ==
  /\ TurnKeepsItsSession
  /\ \A a \in Connections :
       Live(a) /\ (a \in closing \/ disposed[a] = "cancelling") => turn[a].cancelled

\* A request that a cancel found open waits no more for a grant.
GateInv ==
  /\ \A r \in late : request[r].pc \in {"denied", "over"}
  /\ \A r \in always : request[r].pc = "over"
  /\ NoLateGrant

\* Who waits in a chain waits for it, and has one place there.
ChildCallers(a) ==
  {who \in Connections : who = a /\ turn[a].pc = "bridging"}
    \cup {l \in Loads : load[l].pc = "bridging" /\ load[l].by = a}

CallsInv ==
  \A a \in Connections :
    /\ \A i \in DOMAIN chain[a].todo : chain[a].todo[i] \in ChildCallers(a)
    /\ \A i, j \in DOMAIN chain[a].todo : chain[a].todo[i] = chain[a].todo[j] => i = j

\* A call that probes has a child that had started.
Started == {0} \cup {k \in DOMAIN child : child[k].is \in {"alive", "gone"}}

ProbesInv ==
  /\ \A l \in Loads : load[l].child \in Started
  /\ \A a \in Connections : turn[a].child \in Started

\* The child that a chain starts is the connection's, and only one or the last is
\* not gone; a chain that is over has neither.
ChildInv ==
  \A a \in Connections :
    /\ chain[a].last # 0 => child[chain[a].last] \in {[is |-> "alive", by |-> a], Gone}
    /\ chain[a].starting # 0 =>
         /\ chain[a].todo # <<>>
         /\ child[chain[a].starting] = [is |-> "starting", by |-> a]
         /\ chain[a].last # 0 => child[chain[a].last] = Gone
    /\ Children(a) \subseteq {chain[a].starting, chain[a].last}
    /\ disposed[a] = "done" => chain[a].todo = <<>> /\ Children(a) = {}

AgentIInv ==
  TypeInv /\ LoadInv /\ TurnInv /\ GateInv /\ CallsInv /\ ProbesInv /\ ChildInv

-----------------------------------------------------------------------------
(* Types. *)

LEMMA BoundsAre ==
  ASSUME AgentAssumption
  PROVE  /\ MaxChildren \in Nat /\ Nobody \notin Connections
         /\ \A l \in Loads : l \notin Connections
BY DEF AgentAssumption

LEMMA RecordsAre ==
  ASSUME AgentAssumption
  PROVE  /\ NoLoad \in [pc : LoadPcs, by : Owners, child : Child]
         /\ Over \in [pc : LoadPcs, by : Owners, child : Child]
         /\ NoTurn \in [pc : TurnPcs, on : Nat, cancelled : BOOLEAN, aborted : BOOLEAN,
                        child : Child]
         /\ NoTurn.pc = "none" /\ NoTurn.child = 0
         /\ NoRequest \in [pc : RequestPcs, by : Owners, on : Nat]
         /\ Answered \in [pc : RequestPcs, by : Owners, on : Nat] /\ Answered.pc = "over"
         /\ Gone \in [is : Statuses, by : Owners] /\ Gone.by = Nobody /\ Gone.is = "gone"
<1>1. 0 \in Child /\ Nobody \in Owners
  BY BoundsAre DEF Child, Owners
<1> QED BY <1>1 DEF NoLoad, Over, NoTurn, NoRequest, Answered, Gone, LoadPcs, TurnPcs,
                    RequestPcs, Statuses

LEMMA SessionStep ==
  ASSUME AgentAssumption, SessionType, LoadType, [Next]_vars
  PROVE  SessionType'
<1>k. ASSUME UNCHANGED <<held, closing, disposed>> PROVE SessionType'
  BY <1>k DEF SessionType, held
<1>r. ASSUME NEW a \in Connections, Release(a), gates' = gates
      PROVE  session' \in [by : Owners, gate : Nat] /\ session'.gate <= gates'
  BY <1>r DEF SessionType, Release, Owners
<1>1. ASSUME NEW l \in Loads, NEW a \in Connections, Load(l, a) PROVE SessionType'
  BY <1>1, <1>k DEF Load
<1>2. ASSUME NEW l \in Loads, LoadConnects(l) \/ LoadProbed(l) PROVE SessionType'
  BY <1>2, <1>k DEF LoadConnects, LoadProbed
<1>3. ASSUME NEW l \in Loads, LoadEnds(l) PROVE SessionType'
  <2>1. CASE UNCHANGED held
    BY <1>3, <2>1, <1>k DEF LoadEnds
  <2>2. CASE session' = [by |-> load[l].by, gate |-> gates + 1] /\ gates' = gates + 1
    <3>1. load[l].by \in Owners
      BY DEF LoadType
    <3>2. UNCHANGED <<closing, disposed>>
      BY <1>3 DEF LoadEnds
    <3> QED BY <2>2, <3>1, <3>2 DEF SessionType
  <2> QED BY <1>3, <2>1, <2>2 DEF LoadEnds
<1>4. ASSUME NEW a \in Connections,
             \/ Prompt(a) \/ PromptConnects(a) \/ PromptProbed(a) \/ Dispatch(a)
             \/ Dispatched(a) \/ TurnEnds(a) \/ Cancel(a)
      PROVE  SessionType'
  BY <1>4, <1>k DEF Prompt, PromptConnects, PromptProbed, Dispatch, Dispatched, TurnEnds, Cancel
<1>5. ASSUME NEW a \in Connections, Close(a) PROVE SessionType'
  BY <1>5 DEF Close, held, SessionType
<1>6. ASSUME NEW a \in Connections, Closed(a) PROVE SessionType'
  <2>1. gates' = gates /\ closing' = closing \ {a} /\ disposed' = disposed
    BY <1>6 DEF Closed
  <2> QED BY <1>6, <1>r, <2>1 DEF Closed, SessionType
<1>7. ASSUME NEW a \in Connections, Dispose(a) PROVE SessionType'
  BY <1>7 DEF Dispose, held, SessionType
<1>8. ASSUME NEW a \in Connections, DisposeReleases(a) PROVE SessionType'
  <2>1. gates' = gates /\ closing' = closing
        /\ disposed' = [disposed EXCEPT ![a] = "waiting"]
    BY <1>8 DEF DisposeReleases
  <2> QED BY <1>8, <1>r, <2>1 DEF DisposeReleases, SessionType
<1>9. ASSUME NEW a \in Connections, DisposeEnds(a) PROVE SessionType'
  BY <1>9 DEF DisposeEnds, held, SessionType
<1>10. ASSUME NEW a \in Connections, Bridge(a) PROVE SessionType'
  BY <1>10, <1>k DEF Bridge, BridgeReuses, BridgeStarts, BridgeStarted
<1>11. ASSUME NEW r \in Requests, NEW a \in Connections, Check(r, a) PROVE SessionType'
  BY <1>11, <1>k DEF Check
<1>12. ASSUME NEW r \in Requests, NEW o, Checked(r) \/ Answer(r, o) PROVE SessionType'
  BY <1>12, <1>k DEF Checked, Answer
<1>13. ASSUME NEW i, ChildExits(i) PROVE SessionType'
  BY <1>13, <1>k DEF ChildExits
<1>14. CASE UNCHANGED vars
  BY <1>14, <1>k DEF vars
<1> QED BY <1>1, <1>2, <1>3, <1>4, <1>5, <1>6, <1>7, <1>8, <1>9, <1>10, <1>11, <1>12,
           <1>13, <1>14 DEF Next

LEMMA GateStep ==
  ASSUME AgentAssumption, GateType, TurnType, [Next]_vars
  PROVE  GateType'
<1>k. ASSUME UNCHANGED gate PROVE GateType'
  BY <1>k DEF GateType, gate
<1>c. ASSUME NEW a \in Connections, CancelTurn(a) PROVE GateType'
  <2>1. request' \in [Requests -> [pc : RequestPcs, by : Owners, on : Nat]]
    <3>1. ASSUME NEW r \in Requests
          PROVE  /\ request[r] \in [pc : RequestPcs, by : Owners, on : Nat]
                 /\ [request[r] EXCEPT !.pc = "denied"] \in [pc : RequestPcs, by : Owners, on : Nat]
      BY DEF GateType, RequestPcs
    <3> QED BY <1>c, <3>1 DEF CancelTurn
  <2>2. late' \in SUBSET Requests /\ always' = always
    BY <1>c DEF CancelTurn, GateType, Open
  <2> QED BY <2>1, <2>2 DEF GateType
<1>1. ASSUME NEW l \in Loads, NEW a \in Connections, Load(l, a) PROVE GateType'
  BY <1>1, <1>k DEF Load
<1>2. ASSUME NEW l \in Loads, LoadConnects(l) \/ LoadProbed(l) \/ LoadEnds(l) PROVE GateType'
  BY <1>2, <1>k DEF LoadConnects, LoadProbed, LoadEnds
<1>3. ASSUME NEW a \in Connections,
             \/ Prompt(a) \/ PromptConnects(a) \/ PromptProbed(a) \/ Dispatch(a)
             \/ Dispatched(a) \/ TurnEnds(a)
      PROVE  GateType'
  BY <1>3, <1>k DEF Prompt, PromptConnects, PromptProbed, Dispatch, Dispatched, TurnEnds
<1>4. ASSUME NEW a \in Connections, Cancel(a) \/ Close(a) \/ Dispose(a) PROVE GateType'
  BY <1>4, <1>c, <1>k DEF Cancel, Close, Dispose
<1>5. ASSUME NEW a \in Connections, Closed(a) \/ DisposeReleases(a) \/ DisposeEnds(a) PROVE GateType'
  BY <1>5, <1>k DEF Closed, DisposeReleases, DisposeEnds
<1>6. ASSUME NEW a \in Connections, Bridge(a) PROVE GateType'
  BY <1>6, <1>k DEF Bridge, BridgeReuses, BridgeStarts, BridgeStarted
<1>7. ASSUME NEW r \in Requests, NEW a \in Connections, Check(r, a) PROVE GateType'
  <2>1. turn[a].on \in Nat
    BY DEF TurnType
  <2>2. PICK pc \in {"checking", "open"} :
          request' = [request EXCEPT ![r] = [pc |-> pc, by |-> a, on |-> turn[a].on]]
    BY <1>7 DEF Check
  <2>3. [pc |-> pc, by |-> a, on |-> turn[a].on] \in [pc : RequestPcs, by : Owners, on : Nat]
    BY <2>1 DEF RequestPcs, Owners
  <2>4. UNCHANGED <<always, late>>
    BY <1>7 DEF Check
  <2> QED BY <2>2, <2>3, <2>4 DEF GateType
<1>8. ASSUME NEW r \in Requests, Checked(r) PROVE GateType'
  <2>1. PICK q \in {Answered, [request[r] EXCEPT !.pc = "open"]} :
          request' = [request EXCEPT ![r] = q]
    BY <1>8 DEF Checked
  <2>2. q \in [pc : RequestPcs, by : Owners, on : Nat]
    BY RecordsAre DEF GateType, RequestPcs
  <2>3. UNCHANGED <<always, late>>
    BY <1>8 DEF Checked
  <2> QED BY <2>1, <2>2, <2>3 DEF GateType
<1>9. ASSUME NEW r \in Requests, NEW o, Answer(r, o) PROVE GateType'
  <2>1. request' = [request EXCEPT ![r] = Answered] /\ late' = late
        /\ always' \in {always, always \cup {r}}
    BY <1>9 DEF Answer, Granted
  <2> QED BY <2>1, RecordsAre DEF GateType
<1>10. ASSUME NEW i, ChildExits(i) PROVE GateType'
  BY <1>10, <1>k DEF ChildExits
<1>11. CASE UNCHANGED vars
  BY <1>11, <1>k DEF vars
<1> QED BY <1>1, <1>2, <1>3, <1>4, <1>5, <1>6, <1>7, <1>8, <1>9, <1>10, <1>11 DEF Next

LEMMA LoadStep ==
  ASSUME AgentAssumption, TypeInv, [Next]_vars
  PROVE  LoadType'
<1> DEFINE T == [pc : LoadPcs, by : Owners, child : Child]
<1>t. load \in [Loads -> T] /\ Over \in T /\ 0 \in Child /\ \A a \in Connections : a \in Owners
  BY RecordsAre, BoundsAre DEF TypeInv, LoadType, Child, Owners
<1>k. ASSUME UNCHANGED load PROVE LoadType'
  BY <1>k, <1>t DEF LoadType
<1>c. ASSUME NEW l, NEW pc \in LoadPcs, load' = [load EXCEPT ![l].pc = pc] PROVE LoadType'
  BY <1>c, <1>t DEF LoadType
<1>d. ASSUME NEW l, NEW pc \in LoadPcs, NEW k \in Child,
             load' = [load EXCEPT ![l].pc = pc, ![l].child = k]
      PROVE  LoadType'
  BY <1>d, <1>t DEF LoadType
<1>o. ASSUME NEW l, load' = [load EXCEPT ![l] = Over] PROVE LoadType'
  BY <1>o, <1>t DEF LoadType
<1>p. {"probed", "bridging", "probing"} \subseteq LoadPcs
  BY DEF LoadPcs
<1>1. ASSUME NEW l \in Loads, NEW a \in Connections, Load(l, a) PROVE LoadType'
  <2>1. [pc |-> "credential", by |-> a, child |-> 0] \in T
    BY <1>t DEF LoadPcs
  <2> QED BY <1>1, <1>t, <2>1 DEF Load, LoadType
<1>2. ASSUME NEW l \in Loads, LoadConnects(l) PROVE LoadType'
  <2>1. \/ load' = [load EXCEPT ![l] = Over]
        \/ load' = [load EXCEPT ![l].pc = "probed"]
        \/ load' = [load EXCEPT ![l].pc = "bridging"]
    BY <1>2 DEF LoadConnects
  <2> QED BY <1>c, <1>o, <1>p, <2>1
<1>3. ASSUME NEW l \in Loads, LoadProbed(l) PROVE LoadType'
  BY <1>3, <1>d, <1>p, <1>t DEF LoadProbed
<1>4. ASSUME NEW l \in Loads, LoadEnds(l) PROVE LoadType'
  BY <1>4, <1>o DEF LoadEnds
<1>s. ASSUME NEW a \in Connections, NEW k \in Child, Serve(a, k) PROVE LoadType'
  <2> DEFINE pc == IF k = 0 THEN "probed" ELSE "probing"
             who == Head(chain[a].todo)
  <2>1. load' = load \/ load' = [load EXCEPT ![who].pc = pc, ![who].child = k]
    BY <1>s DEF Serve
  <2>2. pc \in LoadPcs
    BY <1>p
  <2> HIDE DEF pc, who
  <2> QED BY <1>d, <1>k, <2>1, <2>2
<1>5. ASSUME NEW a \in Connections, Bridge(a) PROVE LoadType'
  <2>1. chain[a].last \in Child /\ chain[a].starting \in Child
    BY DEF TypeInv, BridgeType
  <2>2. load' = load \/ \E k \in {0, chain[a].last, chain[a].starting} : Serve(a, k)
    BY <1>5 DEF Bridge, BridgeReuses, BridgeStarts, BridgeStarted
  <2> QED BY <1>k, <1>s, <1>t, <2>1, <2>2
<1>6. ASSUME NEW a \in Connections,
             \/ Prompt(a) \/ PromptConnects(a) \/ PromptProbed(a) \/ Dispatch(a)
             \/ Dispatched(a) \/ TurnEnds(a) \/ Cancel(a)
      PROVE  LoadType'
  BY <1>6, <1>k DEF Prompt, PromptConnects, PromptProbed, Dispatch, Dispatched, TurnEnds, Cancel
<1>7. ASSUME NEW a \in Connections,
             Close(a) \/ Closed(a) \/ Dispose(a) \/ DisposeReleases(a) \/ DisposeEnds(a)
      PROVE  LoadType'
  BY <1>7, <1>k DEF Close, Closed, Dispose, DisposeReleases, DisposeEnds
<1>8. ASSUME NEW r \in Requests, NEW a \in Connections, Check(r, a) PROVE LoadType'
  BY <1>8, <1>k DEF Check
<1>9. ASSUME NEW r \in Requests, NEW o, Checked(r) \/ Answer(r, o) PROVE LoadType'
  BY <1>9, <1>k DEF Checked, Answer
<1>10. ASSUME NEW i, ChildExits(i) PROVE LoadType'
  BY <1>10, <1>k DEF ChildExits
<1>11. CASE UNCHANGED vars
  BY <1>11, <1>k DEF vars
<1> QED BY <1>1, <1>2, <1>3, <1>4, <1>5, <1>6, <1>7, <1>8, <1>9, <1>10, <1>11 DEF Next

LEMMA TurnStep ==
  ASSUME AgentAssumption, TypeInv, [Next]_vars
  PROVE  TurnType'
<1> DEFINE T == [pc : TurnPcs, on : Nat, cancelled : BOOLEAN, aborted : BOOLEAN, child : Child]
<1>t. turn \in [Connections -> T] /\ NoTurn \in T /\ 0 \in Child
  BY RecordsAre, BoundsAre DEF TypeInv, TurnType, Child
<1>k. ASSUME UNCHANGED turn PROVE TurnType'
  BY <1>k, <1>t DEF TurnType
<1>c. ASSUME NEW a, NEW pc \in TurnPcs, turn' = [turn EXCEPT ![a].pc = pc] PROVE TurnType'
  BY <1>c, <1>t DEF TurnType
<1>d. ASSUME NEW a, NEW pc \in TurnPcs, NEW k \in Child,
             turn' = [turn EXCEPT ![a].pc = pc, ![a].child = k]
      PROVE  TurnType'
  BY <1>d, <1>t DEF TurnType
<1>o. ASSUME NEW a, NEW r \in T, turn' = [turn EXCEPT ![a] = r] PROVE TurnType'
  BY <1>o, <1>t DEF TurnType
<1>p. {"connected", "bridging", "probing", "appending", "dispatching", "running"} \subseteq TurnPcs
  BY DEF TurnPcs
<1>n. ASSUME NEW a \in Connections, CancelTurn(a) PROVE TurnType'
  <2> DEFINE b == turn[a].aborted \/ turn[a].pc = "running"
  <2>1. turn' = turn \/ turn' = [turn EXCEPT ![a].cancelled = TRUE, ![a].aborted = b]
    BY <1>n DEF CancelTurn
  <2>2. b \in BOOLEAN
    BY <1>t
  <2> DEFINE v == [turn[a] EXCEPT !.cancelled = TRUE, !.aborted = b]
  <2> HIDE DEF b
  <2>3. v \in T
    BY <1>t, <2>2
  <2>4. [turn EXCEPT ![a].cancelled = TRUE, ![a].aborted = b] = [turn EXCEPT ![a] = v]
    BY <1>t
  <2> HIDE DEF v, T
  <2> QED BY <1>k, <1>o, <2>1, <2>3, <2>4
<1>1. ASSUME NEW l \in Loads, NEW a \in Connections, Load(l, a) PROVE TurnType'
  BY <1>1, <1>k DEF Load
<1>2. ASSUME NEW l \in Loads, LoadConnects(l) \/ LoadProbed(l) \/ LoadEnds(l) PROVE TurnType'
  BY <1>2, <1>k DEF LoadConnects, LoadProbed, LoadEnds
<1>3. ASSUME NEW a \in Connections, Prompt(a) PROVE TurnType'
  <2>1. [NoTurn EXCEPT !.pc = "appending", !.on = session.gate] \in T
    <3>1. session.gate \in Nat
      BY DEF TypeInv, SessionType
    <3> QED BY <1>p, <1>t, <3>1
  <2> QED BY <1>3, <1>o, <2>1 DEF Prompt
<1>4. ASSUME NEW a \in Connections, PromptConnects(a) PROVE TurnType'
  <2>1. \/ turn' = [turn EXCEPT ![a].pc = "connected"]
        \/ turn' = [turn EXCEPT ![a].pc = "bridging"]
    BY <1>4 DEF PromptConnects
  <2> QED BY <1>c, <1>p, <2>1
<1>5. ASSUME NEW a \in Connections, PromptProbed(a) PROVE TurnType'
  BY <1>5, <1>d, <1>p, <1>t DEF PromptProbed
<1>6. ASSUME NEW a \in Connections, Dispatch(a) PROVE TurnType'
  <2>1. turn' = [turn EXCEPT ![a] = NoTurn] \/ turn' = [turn EXCEPT ![a].pc = "dispatching"]
    BY <1>6 DEF Dispatch
  <2> QED BY <1>c, <1>o, <1>p, <1>t, <2>1
<1>7. ASSUME NEW a \in Connections, Dispatched(a) PROVE TurnType'
  <2>1. turn[a].cancelled \in BOOLEAN
    BY <1>t
  <2> QED BY <1>7, <1>p, <1>t, <2>1 DEF Dispatched, TurnType
<1>8. ASSUME NEW a \in Connections, TurnEnds(a) PROVE TurnType'
  BY <1>8, <1>o, <1>t DEF TurnEnds
<1>9. ASSUME NEW a \in Connections, Cancel(a) \/ Close(a) \/ Dispose(a) PROVE TurnType'
  BY <1>9, <1>k, <1>n DEF Cancel, Close, Dispose
<1>10. ASSUME NEW a \in Connections, Closed(a) \/ DisposeReleases(a) \/ DisposeEnds(a)
       PROVE  TurnType'
  BY <1>10, <1>k DEF Closed, DisposeReleases, DisposeEnds
<1>s. ASSUME NEW a \in Connections, NEW k \in Child, Serve(a, k) PROVE TurnType'
  <2> DEFINE pc == IF k = 0 THEN "connected" ELSE "probing"
  <2>1. turn' = turn \/ turn' = [turn EXCEPT ![a].pc = pc, ![a].child = k]
    BY <1>s DEF Serve
  <2>2. pc \in TurnPcs
    BY <1>p
  <2> HIDE DEF pc
  <2> QED BY <1>d, <1>k, <2>1, <2>2
<1>11. ASSUME NEW a \in Connections, Bridge(a) PROVE TurnType'
  <2>1. chain[a].last \in Child /\ chain[a].starting \in Child
    BY DEF TypeInv, BridgeType
  <2>2. turn' = turn \/ \E k \in {0, chain[a].last, chain[a].starting} : Serve(a, k)
    BY <1>11 DEF Bridge, BridgeReuses, BridgeStarts, BridgeStarted
  <2> QED BY <1>k, <1>s, <1>t, <2>1, <2>2
<1>12. ASSUME NEW r \in Requests, NEW a \in Connections, Check(r, a) PROVE TurnType'
  BY <1>12, <1>k DEF Check
<1>13. ASSUME NEW r \in Requests, NEW o, Checked(r) \/ Answer(r, o) PROVE TurnType'
  BY <1>13, <1>k DEF Checked, Answer
<1>14. ASSUME NEW i, ChildExits(i) PROVE TurnType'
  BY <1>14, <1>k DEF ChildExits
<1>15. CASE UNCHANGED vars
  BY <1>15, <1>k DEF vars
<1> QED BY <1>1, <1>2, <1>3, <1>4, <1>5, <1>6, <1>7, <1>8, <1>9, <1>10, <1>11, <1>12,
           <1>13, <1>14, <1>15 DEF Next

LEMMA StopIs ==
  ASSUME AgentAssumption, BridgeType, NEW k \in Child
  PROVE  StopChild(k) \in [1 .. MaxChildren -> [is : Statuses, by : Owners]]
BY RecordsAre DEF StopChild, BridgeType

LEMMA BridgeTypeStep ==
  ASSUME AgentAssumption, TypeInv, LoadInv, ChildInv, [Next]_vars
  PROVE  BridgeType'
<1> DEFINE C == [todo : Seq(Loads \cup Connections), starting : Child, last : Child]
           D == [is : Statuses, by : Owners]
<1>t. /\ chain \in [Connections -> C] /\ child \in [1 .. MaxChildren -> D]
      /\ 0 \in Child /\ \A k \in 1 .. MaxChildren : k \in Child
      /\ BridgeType /\ \A a \in Connections : a \in Owners
  BY BoundsAre DEF TypeInv, BridgeType, Child, Owners
<1>k. ASSUME UNCHANGED children PROVE BridgeType'
  BY <1>k, <1>t DEF BridgeType, children
<1>o. ASSUME chain' \in [Connections -> C], child' \in [1 .. MaxChildren -> D] PROVE BridgeType'
  BY <1>o DEF BridgeType
<1>w. ASSUME NEW a \in Connections, NEW who \in Loads \cup Connections
      PROVE  BridgeFor(a, who) \in [Connections -> C]
  <2>1. chain[a].todo \in Seq(Loads \cup Connections)
    BY <1>t
  <2>2. Append(chain[a].todo, who) \in Seq(Loads \cup Connections)
    BY <2>1, AppendProperties
  <2> DEFINE c == Append(chain[a].todo, who)
  <2>3. BridgeFor(a, who) = chain \/ BridgeFor(a, who) = [chain EXCEPT ![a].todo = c]
    BY DEF BridgeFor
  <2> HIDE DEF c
  <2>4. c \in Seq(Loads \cup Connections)
    BY <2>2 DEF c
  <2> QED BY <1>t, <2>3, <2>4
<1>1. ASSUME NEW l \in Loads, NEW a \in Connections, Load(l, a) PROVE BridgeType'
  BY <1>1, <1>k DEF Load
<1>2. ASSUME NEW l \in Loads, LoadConnects(l) PROVE BridgeType'
  <2>1. load[l].by \in Connections
    BY <1>2 DEF LoadConnects, LoadInv
  <2>2. child' = child /\ (chain' = chain \/ chain' = BridgeFor(load[l].by, l))
    BY <1>2 DEF LoadConnects
  <2> QED BY <1>o, <1>t, <1>w, <2>1, <2>2
<1>3. ASSUME NEW l \in Loads, LoadProbed(l) PROVE BridgeType'
  <2>1. load[l].child \in Child
    BY DEF TypeInv, LoadType
  <2>2. chain' = chain /\ child' \in {child, StopChild(load[l].child)}
    BY <1>3 DEF LoadProbed
  <2> QED BY <1>o, <1>t, <2>1, <2>2, StopIs
<1>4. ASSUME NEW l \in Loads, LoadEnds(l) PROVE BridgeType'
  BY <1>4, <1>k DEF LoadEnds
<1>5. ASSUME NEW a \in Connections, PromptConnects(a) PROVE BridgeType'
  <2>1. child' = child /\ (chain' = chain \/ chain' = BridgeFor(a, a))
    BY <1>5 DEF PromptConnects
  <2> QED BY <1>o, <1>t, <1>w, <2>1
<1>6. ASSUME NEW a \in Connections, PromptProbed(a) PROVE BridgeType'
  <2>1. turn[a].child \in Child
    BY DEF TypeInv, TurnType
  <2>2. chain' = chain /\ child' \in {child, StopChild(turn[a].child)}
    BY <1>6 DEF PromptProbed
  <2> QED BY <1>o, <1>t, <2>1, <2>2, StopIs
<1>7. ASSUME NEW a \in Connections,
             Prompt(a) \/ Dispatch(a) \/ Dispatched(a) \/ TurnEnds(a) \/ Cancel(a)
      PROVE  BridgeType'
  BY <1>7, <1>k DEF Prompt, Dispatch, Dispatched, TurnEnds, Cancel
<1>8. ASSUME NEW a \in Connections, Close(a) \/ Closed(a) \/ Dispose(a) \/ DisposeReleases(a)
      PROVE  BridgeType'
  BY <1>8, <1>k DEF Close, Closed, Dispose, DisposeReleases
<1>9. ASSUME NEW a \in Connections, DisposeEnds(a) PROVE BridgeType'
  <2>1. chain[a].last \in Child
    BY <1>t
  <2>2. chain' = chain /\ child' = StopChild(chain[a].last)
    BY <1>9 DEF DisposeEnds
  <2> QED BY <1>o, <1>t, <2>1, <2>2, StopIs
<1>s. ASSUME NEW a \in Connections, NEW k \in Child, chain[a].todo # <<>>, Serve(a, k)
      PROVE  chain' \in [Connections -> C]
  <2> DEFINE s == Tail(chain[a].todo)
  <2>1. chain' = [chain EXCEPT ![a] = [todo |-> s, starting |-> 0, last |-> k]]
    BY <1>s DEF Serve
  <2>2. chain[a].todo \in Seq(Loads \cup Connections)
    BY <1>t
  <2>3. s \in Seq(Loads \cup Connections)
    BY <1>s, <2>2, HeadTailProperties
  <2> HIDE DEF s
  <2> QED BY <1>t, <2>1, <2>3
<1>10. ASSUME NEW a \in Connections, BridgeReuses(a) PROVE BridgeType'
  <2>1. chain[a].todo # <<>> /\ child' = child /\ \E k \in {0, chain[a].last} : Serve(a, k)
    BY <1>10 DEF BridgeReuses
  <2>2. chain[a].last \in Child
    BY <1>t
  <2> QED BY <1>o, <1>s, <1>t, <2>1, <2>2
<1>11. ASSUME NEW a \in Connections, BridgeStarts(a) PROVE BridgeType'
  <2>1. PICK k \in Free : /\ chain' = [chain EXCEPT ![a].starting = k]
                          /\ child' = [child EXCEPT ![k] = [is |-> "starting", by |-> a]]
    BY <1>11 DEF BridgeStarts
  <2>2. k \in Child /\ [is |-> "starting", by |-> a] \in D
    BY <1>t DEF Free, Statuses
  <2>3. chain' \in [Connections -> C] /\ child' \in [1 .. MaxChildren -> D]
    BY <1>t, <2>1, <2>2
  <2> QED BY <1>o, <2>3
<1>12. ASSUME NEW a \in Connections, BridgeStarted(a) PROVE BridgeType'
  <2> DEFINE i == chain[a].starting
  <2>1. PICK k \in {0, i} :
          /\ Serve(a, k)
          /\ child' = [child EXCEPT ![i] = IF k = 0 THEN Gone ELSE [is |-> "alive", by |-> a]]
    BY <1>12 DEF BridgeStarted
  <2>2. i \in Child
    BY <1>t
  <2>3. Gone \in D /\ [is |-> "alive", by |-> a] \in D
    BY <1>t, RecordsAre DEF Statuses
  <2>4. child' \in [1 .. MaxChildren -> D]
    BY <1>t, <2>1, <2>3
  <2>5. chain' \in [Connections -> C]
    <3>1. chain[a].todo # <<>>
      BY <1>12 DEF BridgeStarted, ChildInv
    <3> QED BY <1>s, <1>t, <2>1, <2>2, <3>1
  <2> QED BY <1>o, <2>4, <2>5
<1>13. ASSUME NEW r \in Requests, NEW a \in Connections, Check(r, a) PROVE BridgeType'
  BY <1>13, <1>k DEF Check
<1>14. ASSUME NEW r \in Requests, NEW o, Checked(r) \/ Answer(r, o) PROVE BridgeType'
  BY <1>14, <1>k DEF Checked, Answer
<1>15. ASSUME NEW i \in DOMAIN child, ChildExits(i) PROVE BridgeType'
  <2>1. i \in Child
    BY <1>t
  <2>2. chain' = chain /\ child' = StopChild(i)
    BY <1>15 DEF ChildExits
  <2> QED BY <1>o, <1>t, <2>1, <2>2, StopIs
<1>16. CASE UNCHANGED vars
  BY <1>16, <1>k DEF vars
<1> QED BY <1>1, <1>2, <1>3, <1>4, <1>5, <1>6, <1>7, <1>8, <1>9, <1>10, <1>11, <1>12,
           <1>13, <1>14, <1>15, <1>16 DEF Next, Bridge

-----------------------------------------------------------------------------
(* What a chain does. *)

LEMMA FirstIs ==
  ASSUME NEW S, NEW s \in Seq(S), s # <<>>
  PROVE  /\ Head(s) = s[1] /\ 1 \in DOMAIN s /\ Head(s) \in S
         /\ Tail(s) \in Seq(S)
         /\ \A i \in DOMAIN Tail(s) : i + 1 \in DOMAIN s /\ Tail(s)[i] = s[i + 1] /\ i \in 1 .. Len(s)
<1>1. Len(s) \in Nat \ {0} /\ DOMAIN s = 1 .. Len(s)
  BY EmptySeq
<1>2. /\ Head(s) \in S /\ Tail(s) \in Seq(S) /\ Len(Tail(s)) = Len(s) - 1
      /\ \A i \in 1 .. Len(Tail(s)) : Tail(s)[i] = s[i + 1]
  BY HeadTailProperties
<1>3. DOMAIN Tail(s) = 1 .. Len(s) - 1
  BY <1>2
<1> QED BY <1>1, <1>2, <1>3

\* The call at the head of the chain: the turn of the connection, or a load of its.
ServesTurn(a, k) ==
  /\ turn[a].pc = "bridging" /\ Head(chain[a].todo) = a /\ load' = load
  /\ turn' = [turn EXCEPT ![a].pc = IF k = 0 THEN "connected" ELSE "probing", ![a].child = k]

ServesLoad(a, k, l) ==
  /\ load[l].pc = "bridging" /\ load[l].by = a /\ Head(chain[a].todo) = l /\ turn' = turn
  /\ load' = [load EXCEPT ![l].pc = IF k = 0 THEN "probed" ELSE "probing", ![l].child = k]

LEMMA ServeIs ==
  ASSUME AgentAssumption, TypeInv, CallsInv, NEW a \in Connections, NEW k,
         chain[a].todo # <<>>, Serve(a, k)
  PROVE  /\ chain' = [chain EXCEPT ![a] = [todo |-> Tail(chain[a].todo), starting |-> 0,
                                           last |-> k]]
         /\ ServesTurn(a, k) \/ \E l \in Loads : ServesLoad(a, k, l)
<1> DEFINE who == Head(chain[a].todo)
<1>1. chain[a].todo \in Seq(Loads \cup Connections)
  BY DEF TypeInv, BridgeType
<1>2. who = chain[a].todo[1] /\ 1 \in DOMAIN chain[a].todo
  BY <1>1, FirstIs
<1>3. \/ who = a /\ turn[a].pc = "bridging"
      \/ who \in Loads /\ load[who].pc = "bridging" /\ load[who].by = a
  BY <1>2 DEF CallsInv, ChildCallers
<1>4. CASE who = a
  <2>1. who \notin Loads
    BY <1>4, BoundsAre
  <2> QED BY <1>3, <1>4, <2>1 DEF Serve, ServesTurn
<1>5. CASE who # a
  BY <1>3, <1>5 DEF Serve, ServesLoad
<1> QED BY <1>4, <1>5 DEF Serve

\* A call is served with a child that lives or has come up, or with none.
Reuses(a, k) ==
  /\ chain[a].starting = 0 /\ child' = child
  /\ k = IF Alive(chain[a].last) THEN chain[a].last ELSE 0

ComesUp(a, k) ==
  /\ chain[a].starting # 0 /\ k \in {0, chain[a].starting}
  /\ disposed[a] # "no" => k = 0
  /\ child' = [child EXCEPT ![chain[a].starting] = IF k = 0 THEN Gone
                                                   ELSE [is |-> "alive", by |-> a]]

LEMMA BridgeIs ==
  ASSUME AgentAssumption, TypeInv, ChildInv, NEW a \in Connections, Bridge(a)
  PROVE  /\ UNCHANGED <<held, turns, gate, closing, disposed, stops>>
         /\ \/ BridgeStarts(a) /\ UNCHANGED <<load, turn>>
            \/ \E k \in Child : /\ chain[a].todo # <<>> /\ Serve(a, k)
                                /\ Reuses(a, k) \/ ComesUp(a, k)
<1>t. 0 \in Child /\ chain[a].last \in Child /\ chain[a].starting \in Child
  BY BoundsAre DEF TypeInv, BridgeType, Child
<1>u. UNCHANGED <<held, turns, gate, closing, disposed, stops>>
  BY DEF Bridge, BridgeReuses, BridgeStarts, BridgeStarted
<1>1. CASE BridgeReuses(a)
  <2> DEFINE k == IF Alive(chain[a].last) THEN chain[a].last ELSE 0
  <2>1. k \in Child /\ chain[a].todo # <<>> /\ Serve(a, k) /\ Reuses(a, k)
    BY <1>1, <1>t DEF BridgeReuses, Reuses
  <2> QED BY <1>u, <2>1
<1>2. CASE BridgeStarts(a)
  BY <1>2, <1>u DEF BridgeStarts
<1>3. CASE BridgeStarted(a)
  <2>1. PICK k \in IF disposed[a] = "no" THEN {0, chain[a].starting} ELSE {0} :
          /\ Serve(a, k)
          /\ child' = [child EXCEPT ![chain[a].starting] = IF k = 0 THEN Gone
                                                           ELSE [is |-> "alive", by |-> a]]
    BY <1>3 DEF BridgeStarted
  <2>2. k \in Child /\ ComesUp(a, k)
    BY <1>3, <1>t, <2>1 DEF BridgeStarted, ComesUp
  <2>3. chain[a].todo # <<>>
    BY <1>3 DEF BridgeStarted, ChildInv
  <2> QED BY <1>u, <2>1, <2>2, <2>3
<1> QED BY <1>1, <1>2, <1>3 DEF Bridge

LEMMA LoadInvStep ==
  ASSUME AgentAssumption, TypeInv, LoadInv, CallsInv, ChildInv, [Next]_vars
  PROVE  LoadInv'
<1>t. load \in [Loads -> [pc : LoadPcs, by : Owners, child : Child]]
  BY DEF TypeInv, LoadType
<1>k. ASSUME UNCHANGED load PROVE LoadInv'
  BY <1>k DEF LoadInv
\* A load that goes on goes on with its connection.
<1>c. ASSUME NEW l \in Loads, load[l].pc \notin {"none", "over"},
             \A m \in Loads : \/ load'[m] = load[m]
                              \/ m = l /\ (load'[m].by = load[m].by \/ load'[m].pc = "over")
      PROVE  LoadInv'
  BY <1>c DEF LoadInv
<1>1. ASSUME NEW l \in Loads, NEW a \in Connections, Load(l, a) PROVE LoadInv'
  BY <1>1, <1>t DEF Load, LoadInv
<1>2. ASSUME NEW l \in Loads, LoadConnects(l) PROVE LoadInv'
  <2>1. /\ load[l].pc = "credential"
        /\ \/ load' = [load EXCEPT ![l] = Over]
           \/ load' = [load EXCEPT ![l].pc = "probed"]
           \/ load' = [load EXCEPT ![l].pc = "bridging"]
    BY <1>2 DEF LoadConnects
  <2>2. Over.pc = "over"
    BY DEF Over, NoLoad
  <2> QED BY <1>c, <1>t, <2>1, <2>2
<1>3. ASSUME NEW l \in Loads, LoadProbed(l) PROVE LoadInv'
  BY <1>3, <1>c, <1>t DEF LoadProbed
<1>4. ASSUME NEW l \in Loads, LoadEnds(l) PROVE LoadInv'
  <2>1. load[l].pc = "probed" /\ load' = [load EXCEPT ![l] = Over]
    BY <1>4 DEF LoadEnds
  <2>2. Over.pc = "over"
    BY DEF Over, NoLoad
  <2> QED BY <1>c, <1>t, <2>1, <2>2
<1>5. ASSUME NEW a \in Connections, Bridge(a) PROVE LoadInv'
  <2>1. ASSUME NEW k \in Child, chain[a].todo # <<>>, Serve(a, k) PROVE LoadInv'
    <3>1. CASE ServesTurn(a, k)
      BY <3>1, <1>k DEF ServesTurn
    <3>2. ASSUME NEW l \in Loads, ServesLoad(a, k, l) PROVE LoadInv'
      BY <1>c, <1>t, <3>2 DEF ServesLoad
    <3> QED BY <2>1, <3>1, <3>2, ServeIs
  <2> QED BY <1>5, <1>k, <2>1, BridgeIs
<1>6. ASSUME NEW a \in Connections,
             \/ Prompt(a) \/ PromptConnects(a) \/ PromptProbed(a) \/ Dispatch(a)
             \/ Dispatched(a) \/ TurnEnds(a) \/ Cancel(a)
      PROVE  LoadInv'
  BY <1>6, <1>k DEF Prompt, PromptConnects, PromptProbed, Dispatch, Dispatched, TurnEnds, Cancel
<1>7. ASSUME NEW a \in Connections,
             Close(a) \/ Closed(a) \/ Dispose(a) \/ DisposeReleases(a) \/ DisposeEnds(a)
      PROVE  LoadInv'
  BY <1>7, <1>k DEF Close, Closed, Dispose, DisposeReleases, DisposeEnds
<1>8. ASSUME NEW r \in Requests, NEW a \in Connections, Check(r, a) PROVE LoadInv'
  BY <1>8, <1>k DEF Check
<1>9. ASSUME NEW r \in Requests, NEW o, Checked(r) \/ Answer(r, o) PROVE LoadInv'
  BY <1>9, <1>k DEF Checked, Answer
<1>10. ASSUME NEW i, ChildExits(i) PROVE LoadInv'
  BY <1>10, <1>k DEF ChildExits
<1>11. CASE UNCHANGED vars
  BY <1>11, <1>k DEF vars
<1> QED BY <1>1, <1>2, <1>3, <1>4, <1>5, <1>6, <1>7, <1>8, <1>9, <1>10, <1>11 DEF Next

-----------------------------------------------------------------------------
(* Cancelling. *)

LEMMA GateInvStep ==
  ASSUME AgentAssumption, TypeInv, GateInv, [Next]_vars
  PROVE  GateInv'
<1>t. /\ request \in [Requests -> [pc : RequestPcs, by : Owners, on : Nat]]
      /\ always \in SUBSET Requests /\ late \in SUBSET Requests
  BY DEF TypeInv, GateType
<1>k. ASSUME UNCHANGED gate PROVE GateInv'
  BY <1>k DEF GateInv, NoLateGrant, gate
<1>c. ASSUME NEW a \in Connections, CancelTurn(a) PROVE GateInv'
  <2> DEFINE Found(r) == Owns(a) /\ r \in Open /\ request[r].on = session.gate
  <2>1. /\ always' = always
        /\ request' = [r \in Requests |-> IF Found(r) THEN [request[r] EXCEPT !.pc = "denied"]
                                          ELSE request[r]]
        /\ late' = late \cup {r \in Open : Owns(a) /\ request[r].on = session.gate}
    BY <1>c DEF CancelTurn
  <2>2. \A r \in Requests : /\ Found(r) => request'[r].pc = "denied" /\ request[r].pc = "open"
                            /\ ~Found(r) => request'[r] = request[r]
    BY <1>t, <2>1 DEF Open
  <2>3. \A r \in late' : r \in late \/ (r \in Requests /\ Found(r))
    BY <2>1 DEF Open
  <2> HIDE DEF Found
  <2> QED BY <1>t, <2>1, <2>2, <2>3 DEF GateInv, NoLateGrant
<1>o. ASSUME NEW r \in Requests, r \notin always, r \notin late,
             UNCHANGED <<always, late>>, \A q \in Requests : q # r => request'[q] = request[q]
      PROVE  GateInv'
  BY <1>o, <1>t DEF GateInv, NoLateGrant
<1>1. ASSUME NEW l \in Loads, NEW a \in Connections, Load(l, a) PROVE GateInv'
  BY <1>1, <1>k DEF Load
<1>2. ASSUME NEW l \in Loads, LoadConnects(l) \/ LoadProbed(l) \/ LoadEnds(l) PROVE GateInv'
  BY <1>2, <1>k DEF LoadConnects, LoadProbed, LoadEnds
<1>3. ASSUME NEW a \in Connections,
             \/ Prompt(a) \/ PromptConnects(a) \/ PromptProbed(a) \/ Dispatch(a)
             \/ Dispatched(a) \/ TurnEnds(a)
      PROVE  GateInv'
  BY <1>3, <1>k DEF Prompt, PromptConnects, PromptProbed, Dispatch, Dispatched, TurnEnds
<1>4. ASSUME NEW a \in Connections, Cancel(a) \/ Close(a) \/ Dispose(a) PROVE GateInv'
  BY <1>4, <1>c, <1>k DEF Cancel, Close, Dispose
<1>5. ASSUME NEW a \in Connections, Closed(a) \/ DisposeReleases(a) \/ DisposeEnds(a) PROVE GateInv'
  BY <1>5, <1>k DEF Closed, DisposeReleases, DisposeEnds
<1>6. ASSUME NEW a \in Connections, Bridge(a) PROVE GateInv'
  BY <1>6, <1>k DEF Bridge, BridgeReuses, BridgeStarts, BridgeStarted
<1>7. ASSUME NEW r \in Requests, NEW a \in Connections, Check(r, a) PROVE GateInv'
  <2>1. r \notin always /\ r \notin late
    BY <1>7 DEF Check, GateInv
  <2>2. /\ UNCHANGED <<always, late>>
        /\ \A q \in Requests : q # r => request'[q] = request[q]
    BY <1>7, <1>t DEF Check
  <2> QED BY <1>o, <2>1, <2>2
<1>8. ASSUME NEW r \in Requests, Checked(r) PROVE GateInv'
  <2>1. r \notin always /\ r \notin late
    BY <1>8 DEF Checked, GateInv
  <2>2. /\ UNCHANGED <<always, late>>
        /\ \A q \in Requests : q # r => request'[q] = request[q]
    BY <1>8, <1>t DEF Checked
  <2> QED BY <1>o, <2>1, <2>2
<1>9. ASSUME NEW r \in Requests, NEW o, Answer(r, o) PROVE GateInv'
  <2>1. /\ request[r].pc \in {"open", "denied"} /\ request' = [request EXCEPT ![r] = Answered]
        /\ late' = late
        /\ always' = always \/ (request[r].pc # "denied" /\ always' = always \cup {r})
    BY <1>9 DEF Answer, Granted
  <2>2. request'[r].pc = "over" /\ \A q \in Requests : q # r => request'[q] = request[q]
    BY <1>t, <2>1, RecordsAre
  <2>3. request[r].pc # "denied" => r \notin late
    BY <2>1 DEF GateInv
  <2> QED BY <1>t, <2>1, <2>2, <2>3 DEF GateInv, NoLateGrant
<1>10. ASSUME NEW i, ChildExits(i) PROVE GateInv'
  BY <1>10, <1>k DEF ChildExits
<1>11. CASE UNCHANGED vars
  BY <1>11, <1>k DEF vars
<1> QED BY <1>1, <1>2, <1>3, <1>4, <1>5, <1>6, <1>7, <1>8, <1>9, <1>10, <1>11 DEF Next

LEMMA TurnInvStep ==
  ASSUME AgentAssumption, TypeInv, LoadInv, TurnInv, CallsInv, ChildInv, [Next]_vars
  PROVE  TurnInv'
<1> DEFINE T == [pc : TurnPcs, on : Nat, cancelled : BOOLEAN, aborted : BOOLEAN, child : Child]
           Keeps(b)   == Live(b) /\ ~turn[b].cancelled => session = [by |-> b, gate |-> turn[b].on]
           Cancels(b) == Live(b) /\ (b \in closing \/ disposed[b] = "cancelling") => turn[b].cancelled
<1>t. /\ turn \in [Connections -> T] /\ NoTurn.pc = "none"
      /\ session \in [by : Owners, gate : Nat] /\ Nobody \notin Connections
      /\ disposed \in [Connections -> {"no", "cancelling", "waiting", "done"}]
  BY RecordsAre, BoundsAre DEF TypeInv, TurnType, SessionType
<1>i. \A b \in Connections : Keeps(b) /\ Cancels(b)
  BY DEF TurnInv, TurnKeepsItsSession
<1>g. ASSUME \A b \in Connections : (Keeps(b) /\ Cancels(b))' PROVE TurnInv'
  BY <1>g DEF TurnInv, TurnKeepsItsSession
\* A turn goes on, or ends, where it is.
<1>k. ASSUME UNCHANGED <<session, closing, disposed>>,
             \A b \in Connections :
               \/ turn'[b].pc = "none"
               \/ /\ Live(b) /\ turn'[b].on = turn[b].on
                  /\ turn'[b].cancelled \in {turn[b].cancelled, TRUE}
      PROVE  TurnInv'
  BY <1>g, <1>i, <1>k DEF Live
<1>u. ASSUME UNCHANGED <<session, closing, disposed, turn>> PROVE TurnInv'
  BY <1>g, <1>i, <1>u DEF Live
<1>d. ASSUME NEW a \in Connections, Live(a), UNCHANGED <<session, closing, disposed>>,
             NEW pc, NEW k,
             \/ turn' = [turn EXCEPT ![a].pc = pc]
             \/ turn' = [turn EXCEPT ![a].pc = pc, ![a].child = k]
             \/ turn' = [turn EXCEPT ![a] = NoTurn]
      PROVE  TurnInv'
  <2>1. /\ \A b \in Connections : b # a => turn'[b] = turn[b]
        /\ \/ turn'[a].pc = "none"
           \/ turn'[a].on = turn[a].on /\ turn'[a].cancelled = turn[a].cancelled
    BY <1>d, <1>t
  <2> QED BY <1>d, <1>k, <2>1 DEF Live
\* What a cancel leaves.
<1>c. ASSUME NEW a \in Connections, CancelTurn(a)
      PROVE  \A b \in Connections :
               /\ b # a => turn'[b] = turn[b]
               /\ Live(b)' <=> Live(b)
               /\ turn'[b].on = turn[b].on
               /\ Live(a) => turn'[a].cancelled
               /\ turn[b].cancelled => turn'[b].cancelled
  BY <1>c, <1>t DEF CancelTurn, Live
<1>1. ASSUME NEW l \in Loads, NEW a \in Connections, Load(l, a) PROVE TurnInv'
  BY <1>1, <1>u DEF Load, held
<1>2. ASSUME NEW l \in Loads, LoadConnects(l) \/ LoadProbed(l) PROVE TurnInv'
  BY <1>2, <1>u DEF LoadConnects, LoadProbed, held
<1>3. ASSUME NEW l \in Loads, LoadEnds(l) PROVE TurnInv'
  <2>1. UNCHANGED <<closing, disposed, turn>>
    BY <1>3 DEF LoadEnds
  <2>2. load[l].by \in Connections
    BY <1>3 DEF LoadEnds, LoadInv
  <2>3. CASE session' = session
    BY <1>u, <2>1, <2>3
  <2>4. CASE AssertFree(load[l].by)
    <3>1. \A b \in Connections : ~(Live(b) /\ ~turn[b].cancelled)
      <4>1. ASSUME NEW b \in Connections, Live(b), ~turn[b].cancelled PROVE FALSE
        <5>1. session.by = b
          BY <1>i, <4>1
        <5>2. b = load[l].by
          BY <1>t, <2>4, <4>1, <5>1 DEF AssertFree, Owns
        <5> QED BY <2>4, <4>1, <5>2 DEF AssertFree
      <4> QED BY <4>1
    <3> QED BY <1>g, <1>i, <2>1, <3>1 DEF Live
  <2> QED BY <1>3, <2>3, <2>4 DEF LoadEnds, held
<1>4. ASSUME NEW a \in Connections, Prompt(a) PROVE TurnInv'
  <2>1. /\ session.by = a /\ a \notin closing /\ disposed[a] = "no"
        /\ turn' = [turn EXCEPT ![a] = [NoTurn EXCEPT !.pc = "appending", !.on = session.gate]]
        /\ UNCHANGED <<session, closing, disposed>>
    BY <1>4 DEF Prompt, Owns, held
  <2>2. turn'[a].on = session.gate /\ session = [by |-> a, gate |-> session.gate]
    BY <1>t, <2>1 DEF NoTurn
  <2>3. \A b \in Connections : b # a => turn'[b] = turn[b]
    BY <1>t, <2>1
  <2>4. (Keeps(a) /\ Cancels(a))'
    BY <2>1, <2>2
  <2>5. \A b \in Connections : b # a => (Keeps(b) /\ Cancels(b))'
    BY <1>i, <2>1, <2>3 DEF Live
  <2> QED BY <1>g, <2>4, <2>5
<1>5. ASSUME NEW a \in Connections, PromptConnects(a) \/ PromptProbed(a) PROVE TurnInv'
  <2>1. /\ UNCHANGED <<session, closing, disposed>> /\ Live(a)
        /\ \/ turn' = [turn EXCEPT ![a].pc = "connected"]
           \/ turn' = [turn EXCEPT ![a].pc = "bridging"]
           \/ turn' = [turn EXCEPT ![a].pc = "connected", ![a].child = 0]
    BY <1>5 DEF PromptConnects, PromptProbed, held, Live
  <2> QED BY <1>d, <2>1
<1>6. ASSUME NEW a \in Connections, Dispatch(a) \/ TurnEnds(a) PROVE TurnInv'
  <2>1. /\ UNCHANGED <<session, closing, disposed>> /\ Live(a)
        /\ \/ turn' = [turn EXCEPT ![a] = NoTurn]
           \/ turn' = [turn EXCEPT ![a].pc = "dispatching"]
    BY <1>6 DEF Dispatch, TurnEnds, held, Live
  <2> QED BY <1>d, <2>1
<1>7. ASSUME NEW a \in Connections, Dispatched(a) PROVE TurnInv'
  <2>1. /\ UNCHANGED <<session, closing, disposed>> /\ turn[a].pc # "none"
        /\ turn' = [turn EXCEPT ![a].pc = "running", ![a].aborted = turn[a].cancelled]
    BY <1>7 DEF Dispatched, held
  <2> QED BY <1>k, <1>t, <2>1 DEF Live
<1>8. ASSUME NEW a \in Connections, Cancel(a) PROVE TurnInv'
  <2>1. UNCHANGED <<session, closing, disposed>> /\ CancelTurn(a)
    BY <1>8 DEF Cancel, held
  <2>2. \A b \in Connections : (Keeps(b) /\ Cancels(b))'
    BY <1>c, <1>i, <2>1
  <2> QED BY <1>g, <2>2
<1>9. ASSUME NEW a \in Connections, Close(a) PROVE TurnInv'
  <2>1. UNCHANGED <<session, disposed>> /\ closing' = closing \cup {a} /\ CancelTurn(a)
    BY <1>9 DEF Close, held
  <2>2. \A b \in Connections : (Keeps(b) /\ Cancels(b))'
    BY <1>c, <1>i, <2>1
  <2> QED BY <1>g, <2>2
<1>r. ASSUME NEW a \in Connections, Release(a), Live(a) => turn[a].cancelled, turn' = turn
      PROVE  \A b \in Connections : Keeps(b)'
  <2>1. \A b \in Connections : Keeps(b)' <=> (Live(b) /\ ~turn[b].cancelled
                                              => session' = [by |-> b, gate |-> turn[b].on])
    BY <1>r DEF Live
  <2>2. ASSUME NEW b \in Connections, Live(b), ~turn[b].cancelled
        PROVE  session' = [by |-> b, gate |-> turn[b].on]
    <3>1. b # a /\ session = [by |-> b, gate |-> turn[b].on]
      BY <1>i, <1>r, <2>2
    <3>2. ~Owns(a)
      BY <3>1 DEF Owns
    <3> QED BY <1>r, <3>1, <3>2 DEF Release
  <2> QED BY <2>1, <2>2
<1>10. ASSUME NEW a \in Connections, Closed(a) PROVE TurnInv'
  <2>1. /\ Release(a) /\ a \in closing /\ closing' = closing \ {a}
        /\ UNCHANGED <<turn, disposed>>
    BY <1>10 DEF Closed
  <2>2. \A b \in Connections : Keeps(b)'
    BY <1>i, <1>r, <2>1
  <2>3. \A b \in Connections : Cancels(b)'
    BY <1>i, <2>1 DEF Live
  <2> QED BY <1>g, <2>2, <2>3
<1>11. ASSUME NEW a \in Connections, Dispose(a) PROVE TurnInv'
  <2>1. UNCHANGED <<session, closing>>
        /\ disposed' = [disposed EXCEPT ![a] = IF Owns(a) THEN "cancelling" ELSE "waiting"]
        /\ IF Owns(a) THEN CancelTurn(a) ELSE turn' = turn
    BY <1>11 DEF Dispose, held
  <2>2. CASE Owns(a)
    <3>1. \A b \in Connections : b # a => disposed'[b] = disposed[b]
      BY <1>t, <2>1
    <3>2. \A b \in Connections : (Keeps(b) /\ Cancels(b))'
      BY <1>c, <1>i, <2>1, <2>2, <3>1
    <3> QED BY <1>g, <3>2
  <2>3. CASE ~Owns(a)
    <3>1. \A b \in Connections : disposed'[b] = "cancelling" => disposed[b] = "cancelling"
      BY <1>t, <2>1, <2>3
    <3>2. \A b \in Connections : (Keeps(b) /\ Cancels(b))'
      BY <1>i, <2>1, <2>3, <3>1 DEF Live
    <3> QED BY <1>g, <3>2
  <2> QED BY <2>2, <2>3
<1>12. ASSUME NEW a \in Connections, DisposeReleases(a) PROVE TurnInv'
  <2>1. /\ Release(a) /\ disposed[a] = "cancelling" /\ UNCHANGED <<turn, closing>>
        /\ disposed' = [disposed EXCEPT ![a] = "waiting"]
    BY <1>12 DEF DisposeReleases
  <2>2. \A b \in Connections : Keeps(b)'
    BY <1>i, <1>r, <2>1
  <2>3. \A b \in Connections : disposed'[b] = "cancelling" => disposed[b] = "cancelling"
    BY <1>t, <2>1
  <2>4. \A b \in Connections : Cancels(b)'
    BY <1>i, <2>1, <2>3 DEF Live
  <2> QED BY <1>g, <2>2, <2>4
<1>13. ASSUME NEW a \in Connections, DisposeEnds(a) PROVE TurnInv'
  <2>1. UNCHANGED <<session, turn, closing>> /\ disposed' = [disposed EXCEPT ![a] = "done"]
    BY <1>13 DEF DisposeEnds, held
  <2>2. \A b \in Connections : disposed'[b] = "cancelling" => disposed[b] = "cancelling"
    BY <1>t, <2>1
  <2>3. \A b \in Connections : (Keeps(b) /\ Cancels(b))'
    BY <1>i, <2>1, <2>2 DEF Live
  <2> QED BY <1>g, <2>3
<1>14. ASSUME NEW a \in Connections, Bridge(a) PROVE TurnInv'
  <2>1. UNCHANGED <<session, closing, disposed>>
    BY <1>14, BridgeIs DEF held
  <2>2. ASSUME NEW k \in Child, chain[a].todo # <<>>, Serve(a, k) PROVE TurnInv'
    <3>1. CASE ServesTurn(a, k)
      <4>1. Live(a) /\ \E pc : turn' = [turn EXCEPT ![a].pc = pc, ![a].child = k]
        BY <3>1 DEF ServesTurn, Live
      <4> QED BY <1>d, <2>1, <4>1
    <3>2. ASSUME NEW l \in Loads, ServesLoad(a, k, l) PROVE TurnInv'
      BY <1>u, <2>1, <3>2 DEF ServesLoad
    <3> QED BY <2>2, <3>1, <3>2, ServeIs
  <2> QED BY <1>14, <1>u, <2>1, <2>2, BridgeIs
<1>15. ASSUME NEW r \in Requests, NEW a \in Connections, Check(r, a) PROVE TurnInv'
  BY <1>15, <1>u DEF Check, held
<1>16. ASSUME NEW r \in Requests, NEW o, Checked(r) \/ Answer(r, o) PROVE TurnInv'
  BY <1>16, <1>u DEF Checked, Answer, held
<1>17. ASSUME NEW i, ChildExits(i) PROVE TurnInv'
  BY <1>17, <1>u DEF ChildExits, held
<1>18. CASE UNCHANGED vars
  BY <1>18, <1>u DEF vars, held
<1> QED BY <1>1, <1>2, <1>3, <1>4, <1>5, <1>6, <1>7, <1>8, <1>9, <1>10, <1>11, <1>12,
           <1>13, <1>14, <1>15, <1>16, <1>17, <1>18 DEF Next

-----------------------------------------------------------------------------
(* The calls in the chains. *)

LEMMA CallsInvStep ==
  ASSUME AgentAssumption, TypeInv, LoadInv, CallsInv, ChildInv, [Next]_vars
  PROVE  CallsInv'
<1>t. /\ load \in [Loads -> [pc : LoadPcs, by : Owners, child : Child]]
      /\ turn \in [Connections -> [pc : TurnPcs, on : Nat, cancelled : BOOLEAN,
                                   aborted : BOOLEAN, child : Child]]
      /\ chain \in [Connections -> [todo : Seq(Loads \cup Connections), starting : Child,
                                    last : Child]]
  BY DEF TypeInv, LoadType, TurnType, BridgeType
<1>l. /\ \A l \in Loads : l \notin Connections
      /\ \A l \in Loads : load[l].pc # "none" /\ load[l].pc # "over" => load[l].by \in Connections
  BY BoundsAre DEF LoadInv
<1>i. \A a \in Connections :
        /\ \A i \in DOMAIN chain[a].todo : chain[a].todo[i] \in ChildCallers(a)
        /\ \A i, j \in DOMAIN chain[a].todo : chain[a].todo[i] = chain[a].todo[j] => i = j
  BY DEF CallsInv
\* Nobody who waits is disturbed.
<1>w. ASSUME \A l \in Loads : load[l].pc = "bridging" => load'[l] = load[l],
             \A b \in Connections : turn[b].pc = "bridging" => turn'[b].pc = "bridging"
      PROVE  \A b \in Connections : ChildCallers(b) \subseteq ChildCallers(b)'
  BY <1>w DEF ChildCallers
<1>k. ASSUME \A b \in Connections : chain'[b].todo = chain[b].todo,
             \A l \in Loads : load[l].pc = "bridging" => load'[l] = load[l],
             \A b \in Connections : turn[b].pc = "bridging" => turn'[b].pc = "bridging"
      PROVE  CallsInv'
  BY <1>i, <1>k, <1>w DEF CallsInv
<1>u. ASSUME UNCHANGED <<chain, load, turn>> PROVE CallsInv'
  BY <1>u, <1>k
\* A call comes last.
<1>p. ASSUME NEW a \in Connections, NEW who \in Loads \cup Connections,
             who \notin ChildCallers(a), who \in ChildCallers(a)',
             chain' = [chain EXCEPT ![a].todo = Append(@, who)],
             \A l \in Loads : load[l].pc = "bridging" => load'[l] = load[l],
             \A b \in Connections : turn[b].pc = "bridging" => turn'[b].pc = "bridging"
      PROVE  CallsInv'
  <2> DEFINE s == chain[a].todo
             t == Append(s, who)
  <2>1. s \in Seq(Loads \cup Connections)
    BY <1>t
  <2>2. /\ Len(s) \in Nat /\ DOMAIN s = 1 .. Len(s) /\ Len(t) = Len(s) + 1
        /\ DOMAIN t = 1 .. Len(s) + 1
        /\ \A i \in 1 .. Len(s) : t[i] = s[i]
        /\ t[Len(s) + 1] = who
    <3>1. /\ t \in Seq(Loads \cup Connections) /\ Len(t) = Len(s) + 1
          /\ \A i \in 1 .. Len(s) : t[i] = s[i]
          /\ t[Len(s) + 1] = who
      BY <2>1, AppendProperties
    <3>2. DOMAIN t = 1 .. Len(t) /\ DOMAIN s = 1 .. Len(s) /\ Len(s) \in Nat
      BY <2>1, <3>1
    <3> QED BY <3>1, <3>2
  <2>3. chain'[a].todo = t /\ \A b \in Connections : b # a => chain'[b].todo = chain[b].todo
    BY <1>p, <1>t
  <2>4. \A i \in DOMAIN s : s[i] \in ChildCallers(a) /\ s[i] # who
    BY <1>i, <1>p
  <2>n. \A i, j \in DOMAIN s : s[i] = s[j] => i = j
    BY <1>i
  <2> HIDE DEF s, t
  <2>5. \A i \in 1 .. Len(s) + 1 : i \in 1 .. Len(s) \/ i = Len(s) + 1
    BY <2>2
  <2>6. \A i \in DOMAIN t : t[i] \in ChildCallers(a)'
    BY <1>p, <1>w, <2>2, <2>4, <2>5
  <2>7. \A i, j \in DOMAIN t : t[i] = t[j] => i = j
    BY <2>2, <2>4, <2>5, <2>n
  <2>8. \A b \in Connections : b # a =>
          /\ \A i \in DOMAIN chain'[b].todo : chain'[b].todo[i] \in ChildCallers(b)'
          /\ \A i, j \in DOMAIN chain'[b].todo : chain'[b].todo[i] = chain'[b].todo[j] => i = j
    BY <1>i, <1>p, <1>w, <2>3
  <2> QED BY <2>3, <2>6, <2>7, <2>8 DEF CallsInv
\* The first call is served, and waits no more.
<1>s. ASSUME NEW a \in Connections, NEW k, chain[a].todo # <<>>, Serve(a, k)
      PROVE  CallsInv'
  <2> DEFINE s == chain[a].todo
             first == Head(s)
             t == Tail(s)
  <2>1. /\ first = s[1] /\ 1 \in DOMAIN s
        /\ \A i \in DOMAIN t : i + 1 \in DOMAIN s /\ t[i] = s[i + 1] /\ i \in 1 .. Len(s)
    <3>1. s \in Seq(Loads \cup Connections)
      BY <1>t
    <3> QED BY <1>s, <3>1, FirstIs
  <2>2. chain'[a].todo = t /\ \A b \in Connections : b # a => chain'[b].todo = chain[b].todo
    <3>1. chain' = [chain EXCEPT ![a] = [todo |-> t, starting |-> 0, last |-> k]]
      BY <1>s DEF Serve
    <3> QED BY <1>t, <3>1
  <2>3. \A b \in Connections : \A who \in ChildCallers(b) :
          (b = a => who # first) => who \in ChildCallers(b)'
    <3>1. CASE ServesTurn(a, k)
      BY <1>t, <3>1 DEF ServesTurn, ChildCallers
    <3>2. ASSUME NEW l \in Loads, ServesLoad(a, k, l)
          PROVE  \A b \in Connections : \A who \in ChildCallers(b) :
                   (b = a => who # first) => who \in ChildCallers(b)'
      BY <1>t, <3>2 DEF ServesLoad, ChildCallers
    <3> QED BY <1>s, <3>1, <3>2, ServeIs
  <2>4. \A i \in DOMAIN s : s[i] \in ChildCallers(a)
    BY <1>i
  <2>5. \A i, j \in DOMAIN s : s[i] = s[j] => i = j
    BY <1>i
  <2> HIDE DEF s, t, first
  <2>6. \A i \in DOMAIN t : t[i] # first /\ t[i] \in ChildCallers(a)
    <3>1. ASSUME NEW i \in DOMAIN t PROVE t[i] # first /\ t[i] \in ChildCallers(a)
      <4>1. i + 1 \in DOMAIN s /\ t[i] = s[i + 1] /\ i \in Int /\ i + 1 # 1
        BY <2>1
      <4> QED BY <2>1, <2>4, <2>5, <4>1
    <3> QED BY <3>1
  <2>7. \A i \in DOMAIN t : t[i] \in ChildCallers(a)'
    BY <2>3, <2>6
  <2>8. \A i, j \in DOMAIN t : t[i] = t[j] => i = j
    <3>1. ASSUME NEW i \in DOMAIN t, NEW j \in DOMAIN t, t[i] = t[j] PROVE i = j
      <4>1. i + 1 = j + 1
        BY <2>1, <2>5, <3>1
      <4>2. i \in Int /\ j \in Int
        BY <2>1
      <4> QED BY <4>1, <4>2
    <3> QED BY <3>1
  <2>9. \A b \in Connections : b # a =>
          /\ \A i \in DOMAIN chain'[b].todo : chain'[b].todo[i] \in ChildCallers(b)'
          /\ \A i, j \in DOMAIN chain'[b].todo : chain'[b].todo[i] = chain'[b].todo[j] => i = j
    BY <1>i, <2>2, <2>3
  <2> QED BY <2>2, <2>7, <2>8, <2>9 DEF CallsInv
<1>1. ASSUME NEW l \in Loads, NEW a \in Connections, Load(l, a) PROVE CallsInv'
  BY <1>1, <1>k, <1>t DEF Load, children
<1>2. ASSUME NEW l \in Loads, LoadConnects(l) PROVE CallsInv'
  <2>a. PICK a \in Connections : a = load[l].by
    BY <1>2, <1>l DEF LoadConnects
  <2>1. /\ load[l].pc = "credential" /\ turn' = turn
        /\ \/ load' = [load EXCEPT ![l] = Over] /\ chain' = chain
           \/ load' = [load EXCEPT ![l].pc = "probed"] /\ chain' = chain
           \/ /\ load' = [load EXCEPT ![l].pc = "bridging"]
              /\ chain' = [chain EXCEPT ![a].todo = Append(@, l)]
    BY <1>2, <2>a DEF LoadConnects, BridgeFor
  <2>2. \A m \in Loads : load[m].pc = "bridging" => load'[m] = load[m]
    BY <1>t, <2>1
  <2>3. CASE chain' = chain
    BY <1>k, <2>1, <2>2, <2>3
  <2>4. CASE /\ load' = [load EXCEPT ![l].pc = "bridging"]
             /\ chain' = [chain EXCEPT ![a].todo = Append(@, l)]
    <3>1. l \notin Connections
      BY <1>l
    <3>2. l \notin ChildCallers(a) /\ load'[l].pc = "bridging" /\ load'[l].by = a
      BY <1>t, <2>1, <2>4, <2>a, <3>1 DEF ChildCallers
    <3>3. l \in ChildCallers(a)'
      BY <3>2 DEF ChildCallers
    <3> QED BY <1>p, <2>1, <2>2, <2>4, <3>1, <3>2, <3>3
  <2> QED BY <2>1, <2>3, <2>4
<1>3. ASSUME NEW l \in Loads, LoadProbed(l) \/ LoadEnds(l) PROVE CallsInv'
  <2>1. /\ load[l].pc # "bridging" /\ chain' = chain /\ turn' = turn
        /\ \/ load' = [load EXCEPT ![l].pc = "probed", ![l].child = 0]
           \/ load' = [load EXCEPT ![l] = Over]
    BY <1>3 DEF LoadProbed, LoadEnds, children
  <2>2. \A m \in Loads : load[m].pc = "bridging" => load'[m] = load[m]
    BY <1>t, <2>1
  <2> QED BY <1>k, <2>1, <2>2
\* A turn that does not wait goes on.
<1>d. ASSUME NEW a \in Connections, turn[a].pc # "bridging", UNCHANGED <<chain, load>>,
             \A b \in Connections : b # a => turn'[b] = turn[b]
      PROVE  CallsInv'
  BY <1>d, <1>k
<1>4. ASSUME NEW a \in Connections, Prompt(a) PROVE CallsInv'
  <2>1. turn[a].pc # "bridging" /\ UNCHANGED <<chain, load>>
    BY <1>4 DEF Prompt, Live, children
  <2> QED BY <1>4, <1>d, <1>t, <2>1 DEF Prompt
<1>5. ASSUME NEW a \in Connections, PromptConnects(a) PROVE CallsInv'
  <2>1. /\ turn[a].pc = "appending" /\ load' = load
        /\ \/ turn' = [turn EXCEPT ![a].pc = "connected"] /\ chain' = chain
           \/ /\ turn' = [turn EXCEPT ![a].pc = "bridging"]
              /\ chain' = [chain EXCEPT ![a].todo = Append(@, a)]
    BY <1>5 DEF PromptConnects, BridgeFor
  <2>2. \A b \in Connections : turn[b].pc = "bridging" => turn'[b].pc = "bridging"
    BY <1>t, <2>1
  <2>3. CASE chain' = chain
    BY <1>k, <2>1, <2>2, <2>3
  <2>4. CASE /\ turn' = [turn EXCEPT ![a].pc = "bridging"]
             /\ chain' = [chain EXCEPT ![a].todo = Append(@, a)]
    <3>1. a \notin Loads
      BY <1>l
    <3>2. a \notin ChildCallers(a) /\ turn'[a].pc = "bridging"
      BY <1>t, <2>1, <2>4, <3>1 DEF ChildCallers
    <3>3. a \in ChildCallers(a)'
      BY <3>2 DEF ChildCallers
    <3> QED BY <1>p, <2>1, <2>2, <2>4, <3>2, <3>3
  <2> QED BY <2>1, <2>3, <2>4
<1>6. ASSUME NEW a \in Connections,
             PromptProbed(a) \/ Dispatch(a) \/ Dispatched(a) \/ TurnEnds(a)
      PROVE  CallsInv'
  <2>1. turn[a].pc # "bridging" /\ UNCHANGED <<chain, load>>
    BY <1>6 DEF PromptProbed, Dispatch, Dispatched, TurnEnds, children
  <2>2. \A b \in Connections : b # a => turn'[b] = turn[b]
    BY <1>6, <1>t DEF PromptProbed, Dispatch, Dispatched, TurnEnds
  <2> QED BY <1>d, <2>1, <2>2
<1>c. ASSUME NEW a \in Connections, UNCHANGED <<chain, load>>, turn' = turn \/ CancelTurn(a)
      PROVE  CallsInv'
  <2>1. \A b \in Connections : turn'[b].pc = turn[b].pc
    <3>1. CASE CancelTurn(a)
      BY <1>t, <3>1 DEF CancelTurn
    <3> QED BY <1>c, <3>1
  <2> QED BY <1>c, <1>k, <2>1
<1>7. ASSUME NEW a \in Connections,
             \/ Cancel(a) \/ Close(a) \/ Closed(a)
             \/ Dispose(a) \/ DisposeReleases(a) \/ DisposeEnds(a)
      PROVE  CallsInv'
  <2>1. UNCHANGED <<chain, load>> /\ (turn' = turn \/ CancelTurn(a))
    BY <1>7 DEF Cancel, Close, Closed, Dispose, DisposeReleases, DisposeEnds, children
  <2> QED BY <1>c, <2>1
<1>8. ASSUME NEW a \in Connections, Bridge(a) PROVE CallsInv'
  <2>1. CASE BridgeStarts(a) /\ UNCHANGED <<load, turn>>
    <3>1. \A b \in Connections : chain'[b].todo = chain[b].todo
      BY <1>t, <2>1 DEF BridgeStarts
    <3> QED BY <1>k, <2>1, <3>1
  <2> QED BY <1>8, <1>s, <2>1, BridgeIs
<1>9. ASSUME NEW r \in Requests, NEW a \in Connections, Check(r, a) PROVE CallsInv'
  BY <1>9, <1>u DEF Check, children
<1>10. ASSUME NEW r \in Requests, NEW o, Checked(r) \/ Answer(r, o) PROVE CallsInv'
  BY <1>10, <1>u DEF Checked, Answer, children
<1>11. ASSUME NEW i, ChildExits(i) PROVE CallsInv'
  BY <1>11, <1>u DEF ChildExits
<1>12. CASE UNCHANGED vars
  BY <1>12, <1>u DEF vars, children
<1> QED BY <1>1, <1>2, <1>3, <1>4, <1>5, <1>6, <1>7, <1>8, <1>9, <1>10, <1>11, <1>12 DEF Next

-----------------------------------------------------------------------------
(* The children. *)

\* A child that had started has started for good.
LEMMA StartedStep ==
  ASSUME AgentAssumption, TypeInv, LoadInv, CallsInv, ChildInv, [Next]_vars
  PROVE  Started \subseteq Started'
<1>t. /\ child \in [1 .. MaxChildren -> [is : Statuses, by : Owners]]
      /\ 0 \notin 1 .. MaxChildren /\ Gone.is = "gone"
  BY BoundsAre, RecordsAre DEF TypeInv, BridgeType
<1>k. ASSUME child' = child PROVE Started \subseteq Started'
  BY <1>k DEF Started
<1>x. ASSUME NEW k, child' = StopChild(k) PROVE Started \subseteq Started'
  BY <1>t, <1>x DEF Started, StopChild
<1>1. ASSUME NEW l \in Loads, NEW a \in Connections, Load(l, a) PROVE Started \subseteq Started'
  BY <1>1, <1>k DEF Load, children
<1>2. ASSUME NEW l \in Loads, LoadConnects(l) \/ LoadEnds(l) PROVE Started \subseteq Started'
  BY <1>2, <1>k DEF LoadConnects, LoadEnds, children
<1>3. ASSUME NEW l \in Loads, LoadProbed(l) PROVE Started \subseteq Started'
  <2>1. child' = child \/ child' = StopChild(load[l].child)
    BY <1>3 DEF LoadProbed
  <2> QED BY <1>k, <1>x, <2>1
<1>4. ASSUME NEW a \in Connections, PromptProbed(a) PROVE Started \subseteq Started'
  <2>1. child' = child \/ child' = StopChild(turn[a].child)
    BY <1>4 DEF PromptProbed
  <2> QED BY <1>k, <1>x, <2>1
<1>5. ASSUME NEW a \in Connections,
             \/ Prompt(a) \/ PromptConnects(a) \/ Dispatch(a) \/ Dispatched(a) \/ TurnEnds(a)
             \/ Cancel(a) \/ Close(a) \/ Closed(a) \/ Dispose(a) \/ DisposeReleases(a)
      PROVE  Started \subseteq Started'
  BY <1>5, <1>k DEF Prompt, PromptConnects, Dispatch, Dispatched, TurnEnds, Cancel, Close,
                    Closed, Dispose, DisposeReleases, children
<1>6. ASSUME NEW a \in Connections, DisposeEnds(a) PROVE Started \subseteq Started'
  <2>1. child' = StopChild(chain[a].last)
    BY <1>6 DEF DisposeEnds
  <2> QED BY <1>x, <2>1
<1>7. ASSUME NEW a \in Connections, Bridge(a) PROVE Started \subseteq Started'
  <2>1. CASE BridgeStarts(a)
    <3>1. PICK k \in Free : child' = [child EXCEPT ![k] = [is |-> "starting", by |-> a]]
      BY <2>1 DEF BridgeStarts
    <3>2. k \notin Started
      BY <1>t, <3>1 DEF Free, Started
    <3> QED BY <1>t, <3>1, <3>2 DEF Started
  <2>2. ASSUME NEW k, ComesUp(a, k) PROVE Started \subseteq Started'
    <3> DEFINE c == IF k = 0 THEN Gone ELSE [is |-> "alive", by |-> a]
    <3>1. child' = [child EXCEPT ![chain[a].starting] = c] /\ c.is \in {"alive", "gone"}
      BY <1>t, <2>2 DEF ComesUp
    <3> HIDE DEF c
    <3> QED BY <1>t, <3>1 DEF Started
  <2>3. ASSUME NEW k, Reuses(a, k) PROVE Started \subseteq Started'
    BY <1>k, <2>3 DEF Reuses
  <2> QED BY <1>7, <2>1, <2>2, <2>3, BridgeIs
<1>8. ASSUME NEW r \in Requests, NEW a \in Connections, Check(r, a) PROVE Started \subseteq Started'
  BY <1>8, <1>k DEF Check, children
<1>9. ASSUME NEW r \in Requests, NEW o, Checked(r) \/ Answer(r, o) PROVE Started \subseteq Started'
  BY <1>9, <1>k DEF Checked, Answer, children
<1>10. ASSUME NEW i, ChildExits(i) PROVE Started \subseteq Started'
  BY <1>10, <1>x DEF ChildExits
<1>11. CASE UNCHANGED vars
  BY <1>11, <1>k DEF vars, children
<1> QED BY <1>1, <1>2, <1>3, <1>4, <1>5, <1>6, <1>7, <1>8, <1>9, <1>10, <1>11 DEF Next

LEMMA ProbesInvStep ==
  ASSUME AgentAssumption, TypeInv, LoadInv, CallsInv, ProbesInv, ChildInv, [Next]_vars
  PROVE  ProbesInv'
<1>t. /\ load \in [Loads -> [pc : LoadPcs, by : Owners, child : Child]]
      /\ turn \in [Connections -> [pc : TurnPcs, on : Nat, cancelled : BOOLEAN,
                                   aborted : BOOLEAN, child : Child]]
      /\ Over.child = 0 /\ NoTurn.child = 0
  BY RecordsAre DEF TypeInv, LoadType, TurnType, Over, NoLoad
<1>s. 0 \in Started' /\ Started \subseteq Started'
  BY StartedStep DEF Started
<1>k. ASSUME \A l \in Loads : load'[l].child = load[l].child \/ load'[l].child \in Started',
             \A a \in Connections : turn'[a].child = turn[a].child \/ turn'[a].child \in Started'
      PROVE  ProbesInv'
  BY <1>k, <1>s DEF ProbesInv
<1>u. ASSUME UNCHANGED <<load, turn>> PROVE ProbesInv'
  BY <1>k, <1>u
<1>1. ASSUME NEW l \in Loads, NEW a \in Connections, Load(l, a) PROVE ProbesInv'
  <2>1. turn' = turn /\ load' = [load EXCEPT ![l] = [pc |-> "credential", by |-> a, child |-> 0]]
    BY <1>1 DEF Load
  <2> QED BY <1>k, <1>s, <1>t, <2>1
<1>2. ASSUME NEW l \in Loads, LoadConnects(l) \/ LoadProbed(l) \/ LoadEnds(l) PROVE ProbesInv'
  <2>1. /\ turn' = turn
        /\ \/ load' = [load EXCEPT ![l] = Over]
           \/ load' = [load EXCEPT ![l].pc = "probed"]
           \/ load' = [load EXCEPT ![l].pc = "bridging"]
           \/ load' = [load EXCEPT ![l].pc = "probed", ![l].child = 0]
    BY <1>2 DEF LoadConnects, LoadProbed, LoadEnds
  <2> QED BY <1>k, <1>s, <1>t, <2>1
<1>3. ASSUME NEW a \in Connections, Prompt(a) PROVE ProbesInv'
  <2>1. /\ load' = load
        /\ turn' = [turn EXCEPT ![a] = [NoTurn EXCEPT !.pc = "appending", !.on = session.gate]]
    BY <1>3 DEF Prompt
  <2>2. [NoTurn EXCEPT !.pc = "appending", !.on = session.gate].child = 0
    BY DEF NoTurn
  <2> QED BY <1>k, <1>s, <1>t, <2>1, <2>2
<1>4. ASSUME NEW a \in Connections,
             PromptConnects(a) \/ PromptProbed(a) \/ Dispatch(a) \/ TurnEnds(a)
      PROVE  ProbesInv'
  <2>1. /\ load' = load
        /\ \/ turn' = [turn EXCEPT ![a] = NoTurn]
           \/ turn' = [turn EXCEPT ![a].pc = "connected"]
           \/ turn' = [turn EXCEPT ![a].pc = "bridging"]
           \/ turn' = [turn EXCEPT ![a].pc = "dispatching"]
           \/ turn' = [turn EXCEPT ![a].pc = "connected", ![a].child = 0]
    BY <1>4 DEF PromptConnects, PromptProbed, Dispatch, TurnEnds
  <2> QED BY <1>k, <1>s, <1>t, <2>1
<1>5. ASSUME NEW a \in Connections, Dispatched(a) PROVE ProbesInv'
  BY <1>5, <1>k, <1>t DEF Dispatched
<1>c. ASSUME NEW a \in Connections, load' = load, turn' = turn \/ CancelTurn(a) PROVE ProbesInv'
  <2>1. \A b \in Connections : turn'[b].child = turn[b].child
    <3>1. CASE CancelTurn(a)
      BY <1>t, <3>1 DEF CancelTurn
    <3> QED BY <1>c, <3>1
  <2> QED BY <1>c, <1>k, <2>1
<1>6. ASSUME NEW a \in Connections,
             \/ Cancel(a) \/ Close(a) \/ Closed(a)
             \/ Dispose(a) \/ DisposeReleases(a) \/ DisposeEnds(a)
      PROVE  ProbesInv'
  <2>1. load' = load /\ (turn' = turn \/ CancelTurn(a))
    BY <1>6 DEF Cancel, Close, Closed, Dispose, DisposeReleases, DisposeEnds
  <2> QED BY <1>c, <2>1
<1>7. ASSUME NEW a \in Connections, Bridge(a) PROVE ProbesInv'
  <2>1. ASSUME NEW k \in Child, Serve(a, k), chain[a].todo # <<>>, k \in Started'
        PROVE  ProbesInv'
    <3>1. CASE ServesTurn(a, k)
      BY <1>k, <1>t, <2>1, <3>1 DEF ServesTurn
    <3>2. ASSUME NEW l \in Loads, ServesLoad(a, k, l) PROVE ProbesInv'
      BY <1>k, <1>t, <2>1, <3>2 DEF ServesLoad
    <3> QED BY <2>1, <3>1, <3>2, ServeIs
  <2>2. ASSUME NEW k \in Child, Reuses(a, k) \/ ComesUp(a, k) PROVE k \in Started'
    <3>b. child \in [1 .. MaxChildren -> [is : Statuses, by : Owners]] /\ MaxChildren \in Nat
      BY BoundsAre DEF TypeInv, BridgeType
    <3>1. CASE k = 0
      BY <1>s, <3>1
    <3>2. CASE k # 0
      <4>1. k \in 1 .. MaxChildren
        BY <3>2, <3>b DEF Child
      <4>2. k \in DOMAIN child' /\ child'[k].is \in {"alive", "gone"}
        BY <2>2, <3>2, <3>b, <4>1 DEF Reuses, ComesUp, Alive
      <4> QED BY <4>2 DEF Started
    <3> QED BY <3>1, <3>2
  <2> QED BY <1>7, <1>u, <2>1, <2>2, BridgeIs
<1>8. ASSUME NEW r \in Requests, NEW a \in Connections, Check(r, a) PROVE ProbesInv'
  BY <1>8, <1>u DEF Check
<1>9. ASSUME NEW r \in Requests, NEW o, Checked(r) \/ Answer(r, o) PROVE ProbesInv'
  BY <1>9, <1>u DEF Checked, Answer
<1>10. ASSUME NEW i, ChildExits(i) PROVE ProbesInv'
  BY <1>10, <1>u DEF ChildExits
<1>11. CASE UNCHANGED vars
  BY <1>11, <1>u DEF vars
<1> QED BY <1>1, <1>2, <1>3, <1>4, <1>5, <1>6, <1>7, <1>8, <1>9, <1>10, <1>11 DEF Next

LEMMA ChildInvStep ==
  ASSUME AgentAssumption, TypeInv, LoadInv, CallsInv, ProbesInv, ChildInv, [Next]_vars
  PROVE  ChildInv'
<1> DEFINE Has(b) ==
      /\ chain[b].last # 0 => child[chain[b].last] \in {[is |-> "alive", by |-> b], Gone}
      /\ chain[b].starting # 0 =>
           /\ chain[b].todo # <<>>
           /\ child[chain[b].starting] = [is |-> "starting", by |-> b]
           /\ chain[b].last # 0 => child[chain[b].last] = Gone
      /\ Children(b) \subseteq {chain[b].starting, chain[b].last}
      /\ disposed[b] = "done" => chain[b].todo = <<>> /\ Children(b) = {}
<1>t. /\ chain \in [Connections -> [todo : Seq(Loads \cup Connections), starting : Child,
                                    last : Child]]
      /\ child \in [1 .. MaxChildren -> [is : Statuses, by : Owners]]
      /\ disposed \in [Connections -> {"no", "cancelling", "waiting", "done"}]
      /\ DOMAIN child = 1 .. MaxChildren /\ MaxChildren \in Nat
      /\ Gone.by = Nobody /\ Gone.is = "gone" /\ Nobody \notin Connections
  BY BoundsAre, RecordsAre DEF TypeInv, BridgeType, SessionType
<1>n. \A k : k \in Child /\ k # 0 => k \in 1 .. MaxChildren
  BY <1>t DEF Child
<1>z. 0 \notin 1 .. MaxChildren
  BY <1>t
<1>i. \A b \in Connections : Has(b)
  BY DEF ChildInv
<1>j. ASSUME NEW b \in Connections
      PROVE  /\ chain[b].last # 0 => chain[b].last \in 1 .. MaxChildren
                                     /\ child[chain[b].last].is \in {"alive", "gone"}
             /\ chain[b].starting # 0 => /\ chain[b].starting \in 1 .. MaxChildren
                                         /\ child[chain[b].starting].is = "starting"
                                         /\ child[chain[b].starting].by = b
  <2>1. chain[b].last \in Child /\ chain[b].starting \in Child
    BY <1>t
  <2>2. chain[b].last # 0 => child[chain[b].last] \in {[is |-> "alive", by |-> b], Gone}
    BY <1>i
  <2>3. chain[b].starting # 0 => child[chain[b].starting] = [is |-> "starting", by |-> b]
    BY <1>i
  <2>4. \A c : c = [is |-> "starting", by |-> b] => c.is = "starting" /\ c.by = b
    OBVIOUS
  <2>5. \A c : c \in {[is |-> "alive", by |-> b], Gone} => c.is \in {"alive", "gone"}
    BY <1>t
  <2> QED BY <1>n, <2>1, <2>2, <2>3, <2>4, <2>5
<1>g. ASSUME \A b \in Connections : Has(b)' PROVE ChildInv'
  BY <1>g DEF ChildInv
<1>u. ASSUME UNCHANGED <<chain, child>>,
             \A b \in Connections : disposed'[b] = "done" => disposed[b] = "done"
      PROVE  ChildInv'
  <2>1. \A b \in Connections : Has(b)'
    BY <1>i, <1>u DEF Children
  <2> QED BY <1>g, <2>1
<1>k. ASSUME UNCHANGED <<chain, child, disposed>> PROVE ChildInv'
  BY <1>k, <1>u
\* A call comes last.
<1>p. ASSUME NEW a \in Connections, NEW who \in Loads \cup Connections,
             chain' = BridgeFor(a, who), UNCHANGED <<child, disposed>>
      PROVE  ChildInv'
  <2>1. CASE chain' = chain
    BY <1>k, <1>p, <2>1
  <2>2. CASE chain' # chain
    <3> DEFINE s == chain[a].todo
               t == Append(s, who)
    <3>1. disposed[a] # "done" /\ chain' = [chain EXCEPT ![a].todo = t]
      BY <1>p, <2>2 DEF BridgeFor
    <3>2. t # <<>>
      <4>1. s \in Seq(Loads \cup Connections)
        BY <1>t
      <4>2. Len(t) = Len(s) + 1 /\ Len(s) \in Nat
        BY <4>1, AppendProperties
      <4> HIDE DEF s, t
      <4>3. Len(t) # 0
        BY <4>2
      <4> QED BY <4>3
    <3> HIDE DEF s, t
    <3>3. /\ chain'[a].todo = t /\ chain'[a].starting = chain[a].starting
          /\ chain'[a].last = chain[a].last
          /\ \A b \in Connections : b # a => chain'[b] = chain[b]
      BY <1>t, <3>1
    <3>4. \A b \in Connections : Children(b)' = Children(b)
      BY <1>p DEF Children
    <3>5. ASSUME NEW b \in Connections PROVE Has(b)'
      <4>1. CASE b = a
        <5>1. Has(a)
          BY <1>i
        <5> QED BY <1>p, <3>1, <3>2, <3>3, <3>4, <4>1, <5>1
      <4>2. CASE b # a
        <5>1. Has(b) /\ chain'[b] = chain[b]
          BY <1>i, <3>3, <4>2
        <5> QED BY <1>p, <3>4, <5>1
      <4> QED BY <4>1, <4>2
    <3> QED BY <1>g, <3>5
  <2> QED BY <2>1, <2>2
\* A child that had started is stopped.
<1>x. ASSUME NEW k \in Started, child' = StopChild(k), chain' = chain
      PROVE  \A b \in Connections :
               /\ chain[b].last # 0 =>
                    child'[chain[b].last] \in {[is |-> "alive", by |-> b], Gone}
               /\ chain[b].last # 0 /\ child[chain[b].last] = Gone => child'[chain[b].last] = Gone
               /\ chain[b].starting # 0 => child'[chain[b].starting] = child[chain[b].starting]
               /\ Children(b)' = Children(b) \ {k}
  <2>1. CASE k = 0
    <3>1. child' = child
      BY <1>x, <2>1 DEF StopChild
    <3>2. \A b \in Connections : Children(b)' = Children(b) \ {k}
      BY <1>z, <1>t, <2>1, <3>1 DEF Children
    <3> QED BY <1>i, <3>1, <3>2
  <2>2. CASE k # 0
    <3>1. child' = [child EXCEPT ![k] = Gone] /\ k \in 1 .. MaxChildren
          /\ child[k].is \in {"alive", "gone"}
      BY <1>t, <1>x, <2>2 DEF StopChild, Started
    <3>2. /\ DOMAIN child' = 1 .. MaxChildren /\ child'[k] = Gone
          /\ \A i \in 1 .. MaxChildren : i # k => child'[i] = child[i]
      BY <1>t, <3>1
    <3>3. ASSUME NEW b \in Connections
          PROVE  /\ chain[b].last # 0 => chain[b].last \in 1 .. MaxChildren
                 /\ chain[b].starting # 0 => chain[b].starting \in 1 .. MaxChildren
                                             /\ chain[b].starting # k
      BY <1>j, <3>1
    <3>4. \A b \in Connections : Children(b)' = Children(b) \ {k}
      BY <1>t, <3>1, <3>2 DEF Children
    <3> QED BY <1>i, <3>2, <3>3, <3>4
  <2> QED BY <2>1, <2>2
<1>y. ASSUME NEW k \in Started, child' = StopChild(k), UNCHANGED <<chain, disposed>>
      PROVE  ChildInv'
  <2>1. ASSUME NEW b \in Connections PROVE Has(b)'
    <3>1. /\ chain[b].last # 0 =>
               child'[chain[b].last] \in {[is |-> "alive", by |-> b], Gone}
          /\ chain[b].last # 0 /\ child[chain[b].last] = Gone => child'[chain[b].last] = Gone
          /\ chain[b].starting # 0 => child'[chain[b].starting] = child[chain[b].starting]
          /\ Children(b)' = Children(b) \ {k}
      BY <1>x, <1>y
    <3>2. Has(b)
      BY <1>i
    <3> QED BY <1>y, <3>1, <3>2
  <2> QED BY <1>g, <2>1
<1>1. ASSUME NEW l \in Loads, NEW a \in Connections, Load(l, a) PROVE ChildInv'
  BY <1>1, <1>k DEF Load, children
<1>2. ASSUME NEW l \in Loads, LoadConnects(l) PROVE ChildInv'
  <2>1. load[l].by \in Connections
    BY <1>2 DEF LoadConnects, LoadInv
  <2>2. UNCHANGED <<child, disposed>> /\ (chain' = chain \/ chain' = BridgeFor(load[l].by, l))
    BY <1>2 DEF LoadConnects
  <2> QED BY <1>k, <1>p, <2>1, <2>2
<1>3. ASSUME NEW l \in Loads, LoadProbed(l) PROVE ChildInv'
  <2>1. UNCHANGED <<chain, disposed>> /\ (child' = child \/ child' = StopChild(load[l].child))
    BY <1>3 DEF LoadProbed
  <2>2. load[l].child \in Started
    BY DEF ProbesInv
  <2> QED BY <1>k, <1>y, <2>1, <2>2
<1>4. ASSUME NEW l \in Loads, LoadEnds(l) PROVE ChildInv'
  BY <1>4, <1>k DEF LoadEnds, children
<1>5. ASSUME NEW a \in Connections, PromptConnects(a) PROVE ChildInv'
  <2>1. UNCHANGED <<child, disposed>> /\ (chain' = chain \/ chain' = BridgeFor(a, a))
    BY <1>5 DEF PromptConnects
  <2> QED BY <1>k, <1>p, <2>1
<1>6. ASSUME NEW a \in Connections, PromptProbed(a) PROVE ChildInv'
  <2>1. UNCHANGED <<chain, disposed>> /\ (child' = child \/ child' = StopChild(turn[a].child))
    BY <1>6 DEF PromptProbed
  <2>2. turn[a].child \in Started
    BY DEF ProbesInv
  <2> QED BY <1>k, <1>y, <2>1, <2>2
<1>7. ASSUME NEW a \in Connections,
             \/ Prompt(a) \/ Dispatch(a) \/ Dispatched(a) \/ TurnEnds(a)
             \/ Cancel(a) \/ Close(a) \/ Closed(a)
      PROVE  ChildInv'
  BY <1>7, <1>k DEF Prompt, Dispatch, Dispatched, TurnEnds, Cancel, Close, Closed, children
<1>8. ASSUME NEW a \in Connections, Dispose(a) \/ DisposeReleases(a) PROVE ChildInv'
  <2>1. /\ UNCHANGED <<chain, child>>
        /\ \/ disposed' = [disposed EXCEPT ![a] = "cancelling"]
           \/ disposed' = [disposed EXCEPT ![a] = "waiting"]
    BY <1>8 DEF Dispose, DisposeReleases, children
  <2>2. \A b \in Connections : disposed'[b] = "done" => disposed[b] = "done"
    BY <1>t, <2>1
  <2> QED BY <1>u, <2>1, <2>2
\* Nobody waits: nothing starts, and the last child is the only one.
<1>9. ASSUME NEW a \in Connections, DisposeEnds(a) PROVE ChildInv'
  <2> DEFINE k == chain[a].last
  <2>1. /\ chain[a].todo = <<>> /\ child' = StopChild(k) /\ chain' = chain
        /\ disposed' = [disposed EXCEPT ![a] = "done"]
    BY <1>9 DEF DisposeEnds
  <2>2. chain[a].starting = 0
    BY <1>i, <2>1
  <2>3. k \in Started
    <3>1. k # 0 => k \in 1 .. MaxChildren /\ child[k].is \in {"alive", "gone"}
      <4>1. k \in Child
        BY <1>t
      <4>2. k # 0 => child[k] \in {[is |-> "alive", by |-> a], Gone}
        BY <1>i
      <4> QED BY <1>n, <1>t, <4>1, <4>2
    <3> QED BY <1>t, <3>1 DEF Started
  <2>4. Children(a) \subseteq {k}
    <3>1. Children(a) \subseteq {0, k} /\ 0 \notin Children(a)
      BY <1>i, <1>t, <1>z, <2>2 DEF Children
    <3> QED BY <3>1
  <2>5. PICK j \in Started : j = k
    BY <2>3
  <2>6. child' = StopChild(j) /\ chain' = chain
    BY <2>1, <2>5
  <2>x. ASSUME NEW b \in Connections
        PROVE  /\ chain[b].last # 0 =>
                    child'[chain[b].last] \in {[is |-> "alive", by |-> b], Gone}
               /\ chain[b].last # 0 /\ child[chain[b].last] = Gone => child'[chain[b].last] = Gone
               /\ chain[b].starting # 0 => child'[chain[b].starting] = child[chain[b].starting]
               /\ Children(b)' = Children(b) \ {j}
    BY <1>x, <2>6
  <2>e. Children(a)' = {}
    BY <2>4, <2>5, <2>x
  <2>7. \A b \in Connections : b # a => disposed'[b] = disposed[b]
    BY <1>t, <2>1
  <2>8. ASSUME NEW b \in Connections PROVE Has(b)'
    <3>1. Has(b)
      BY <1>i
    <3>2. disposed'[b] = "done" => chain[b].todo = <<>> /\ Children(b)' = {}
      <4>1. CASE b = a
        BY <2>1, <2>e, <4>1
      <4>2. CASE b # a
        BY <2>7, <2>x, <3>1, <4>2
      <4> QED BY <4>1, <4>2
    <3> QED BY <2>6, <2>x, <3>1, <3>2
  <2> QED BY <1>g, <2>8
<1>10. ASSUME NEW a \in Connections, Bridge(a) PROVE ChildInv'
  <2> DEFINE i == chain[a].starting
             j == chain[a].last
  <2>d. disposed' = disposed
    BY <1>10, BridgeIs
  <2>r. i \in Child /\ j \in Child
    BY <1>t
  \* Another chain keeps what it has.
  <2>o. ASSUME NEW k \in 1 .. MaxChildren,
               child[k].is \in {"none", "starting"}, child[k].is = "starting" => child[k].by = a,
               \A l \in 1 .. MaxChildren : l # k => child'[l] = child[l],
               DOMAIN child' = 1 .. MaxChildren, child'[k].by \in {a, Nobody},
               \A b \in Connections : b # a => chain'[b] = chain[b]
        PROVE  \A b \in Connections : b # a => Has(b)'
    <3>1. ASSUME NEW b \in Connections, b # a PROVE Has(b)'
      <4>1. /\ chain[b].last # 0 => chain[b].last \in 1 .. MaxChildren /\ chain[b].last # k
            /\ chain[b].starting # 0 =>
                 chain[b].starting \in 1 .. MaxChildren /\ chain[b].starting # k
        BY <1>j, <2>o, <3>1
      <4>2. k \notin Children(b)
        <5>1. Children(b) \subseteq {chain[b].starting, chain[b].last} /\ k # 0
          BY <1>i, <1>z
        <5> QED BY <4>1, <5>1
      <4>3. Children(b)' = Children(b)
        BY <1>t, <2>o, <3>1, <4>2 DEF Children
      <4>4. chain'[b] = chain[b] /\ Has(b)
        BY <1>i, <2>o, <3>1
      <4> QED BY <2>d, <2>o, <4>1, <4>3, <4>4
    <3> QED BY <3>1
  <2>1. CASE BridgeStarts(a)
    <3>1. PICK k \in Free : /\ chain' = [chain EXCEPT ![a].starting = k]
                            /\ child' = [child EXCEPT ![k] = [is |-> "starting", by |-> a]]
      BY <2>1 DEF BridgeStarts
    <3>2. i = 0 /\ chain[a].todo # <<>> /\ ~Alive(j) /\ disposed[a] = "no"
      BY <2>1 DEF BridgeStarts
    <3>3. k \in 1 .. MaxChildren /\ child[k].is = "none"
      BY <1>t, <3>1 DEF Free
    <3>4. /\ DOMAIN child' = 1 .. MaxChildren /\ child'[k] = [is |-> "starting", by |-> a]
          /\ \A l \in 1 .. MaxChildren : l # k => child'[l] = child[l]
      BY <1>t, <3>1, <3>3
    <3>5. /\ chain'[a].starting = k /\ chain'[a].last = j /\ chain'[a].todo = chain[a].todo
          /\ \A b \in Connections : b # a => chain'[b] = chain[b]
      BY <1>t, <3>1
    <3>6. j # 0 => j \in 1 .. MaxChildren /\ child[j] = Gone /\ j # k
      <4>1. j # 0 => j \in 1 .. MaxChildren
        BY <1>n, <2>r
      <4>2. j # 0 => child[j] \in {[is |-> "alive", by |-> a], Gone}
        BY <1>i
      <4> QED BY <1>t, <3>2, <3>3, <4>1, <4>2 DEF Alive
    <3>7. Children(a)' \subseteq {k, j}
      <4>1. Children(a)' \subseteq Children(a) \cup {k}
        BY <1>t, <3>4 DEF Children
      <4>2. Children(a) \subseteq {0, j} /\ 0 \notin Children(a)
        BY <1>i, <1>t, <1>z, <3>2 DEF Children
      <4> QED BY <4>1, <4>2
    <3>8. Has(a)'
      <4> HIDE DEF i, j
      <4>1. k # 0 /\ disposed'[a] # "done"
        BY <1>z, <2>d, <3>2, <3>3
      <4>2. j # 0 => child'[j] = Gone
        BY <3>4, <3>6
      <4> QED BY <3>2, <3>4, <3>5, <3>7, <4>1, <4>2
    <3>9. \A b \in Connections : b # a => Has(b)'
      BY <2>o, <3>3, <3>4, <3>5
    <3> QED BY <1>g, <3>8, <3>9
  <2>s. ASSUME NEW k \in Child, Serve(a, k)
        PROVE  /\ chain'[a].starting = 0 /\ chain'[a].last = k
               /\ \A b \in Connections : b # a => chain'[b] = chain[b]
    <3> DEFINE s == Tail(chain[a].todo)
    <3>1. chain' = [chain EXCEPT ![a] = [todo |-> s, starting |-> 0, last |-> k]]
      BY <2>s DEF Serve
    <3> HIDE DEF s
    <3> QED BY <1>t, <3>1
  <2>2. ASSUME NEW k \in Child, chain[a].todo # <<>>, Serve(a, k), Reuses(a, k) PROVE ChildInv'
    <3>1. /\ i = 0 /\ child' = child /\ disposed'[a] # "done"
          /\ k = IF Alive(j) THEN j ELSE 0
      BY <1>i, <2>2, <2>d DEF Reuses
    <3>2. j # 0 => child[j] \in {[is |-> "alive", by |-> a], Gone} /\ j \in 1 .. MaxChildren
      BY <1>i, <1>n, <2>r
    <3>3. Children(a) \subseteq {k}
      <4>1. Children(a) \subseteq {0, j} /\ 0 \notin Children(a)
        BY <1>i, <1>t, <1>z, <3>1 DEF Children
      <4>2. ~Alive(j) => j \notin Children(a)
        <5>1. ASSUME ~Alive(j), j \in Children(a) PROVE FALSE
          <6>1. j # 0 /\ child[j].by = a /\ child[j] # Gone
            BY <1>t, <4>1, <5>1 DEF Children
          <6>2. child[j].is = "alive"
            BY <3>2, <6>1
          <6> QED BY <5>1, <6>1, <6>2 DEF Alive
        <5> QED BY <5>1
      <4> QED BY <3>1, <4>1, <4>2
    <3>4. \A b \in Connections : Children(b)' = Children(b)
      BY <3>1 DEF Children
    <3>5. Has(a)'
      <4>1. k # 0 => child'[k] \in {[is |-> "alive", by |-> a], Gone}
        BY <3>1, <3>2
      <4> QED BY <2>2, <2>s, <3>1, <3>3, <3>4, <4>1
    <3>6. \A b \in Connections : b # a => Has(b)'
      BY <1>i, <2>2, <2>d, <2>s, <3>1, <3>4
    <3> QED BY <1>g, <3>5, <3>6
  <2>3. ASSUME NEW k \in Child, chain[a].todo # <<>>, Serve(a, k), ComesUp(a, k) PROVE ChildInv'
    <3> DEFINE c == IF k = 0 THEN Gone ELSE [is |-> "alive", by |-> a]
    <3>1. i # 0 /\ k \in {0, i} /\ child' = [child EXCEPT ![i] = c] /\ disposed'[a] # "done"
      BY <1>i, <2>3, <2>d DEF ComesUp
    <3>2. i \in 1 .. MaxChildren /\ child[i] = [is |-> "starting", by |-> a]
      BY <1>i, <1>n, <2>r, <3>1
    <3>3. /\ DOMAIN child' = 1 .. MaxChildren /\ child'[i] = c
          /\ \A l \in 1 .. MaxChildren : l # i => child'[l] = child[l]
      BY <1>t, <3>1, <3>2
    <3>4. c.by \in {a, Nobody} /\ (k = 0 => c.by # a) /\ (k # 0 => c = [is |-> "alive", by |-> a])
      BY <1>t
    <3>5. Children(a)' \subseteq {k}
      <4>1. Children(a) \subseteq {i, j} /\ (j # 0 => child[j] = Gone)
        BY <1>i, <3>1
      <4>2. Children(a) \subseteq {i}
        BY <1>t, <1>z, <4>1 DEF Children
      <4>3. Children(a)' \subseteq {i} /\ (i \in Children(a)' => child'[i].by = a)
        BY <1>t, <3>3, <4>2 DEF Children
      <4> QED BY <3>1, <3>3, <3>4, <4>3
    <3>6. Has(a)'
      <4>1. k # 0 => child'[k] = [is |-> "alive", by |-> a]
        BY <3>1, <3>3, <3>4
      <4> QED BY <2>3, <2>s, <3>1, <3>5, <4>1
    <3>7. \A b \in Connections : b # a => Has(b)'
      <4> HIDE DEF c
      <4> QED BY <2>3, <2>o, <2>s, <3>2, <3>3, <3>4
    <3> QED BY <1>g, <3>6, <3>7
  <2> QED BY <1>10, <2>1, <2>2, <2>3, BridgeIs
<1>11. ASSUME NEW r \in Requests, NEW a \in Connections, Check(r, a) PROVE ChildInv'
  BY <1>11, <1>k DEF Check, children
<1>12. ASSUME NEW r \in Requests, NEW o, Checked(r) \/ Answer(r, o) PROVE ChildInv'
  BY <1>12, <1>k DEF Checked, Answer, children
<1>13. ASSUME NEW k \in DOMAIN child, ChildExits(k) PROVE ChildInv'
  <2>1. k \in Started /\ child' = StopChild(k) /\ UNCHANGED <<chain, disposed>>
    BY <1>13 DEF ChildExits, Alive, Started
  <2> QED BY <1>y, <2>1
<1>14. CASE UNCHANGED vars
  BY <1>14, <1>k DEF vars, children
<1> QED BY <1>1, <1>2, <1>3, <1>4, <1>5, <1>6, <1>7, <1>8, <1>9, <1>10, <1>11, <1>12,
           <1>13, <1>14 DEF Next

-----------------------------------------------------------------------------
(* The theorems. *)

LEMMA AgentInit ==
  ASSUME AgentAssumption, Init
  PROVE  AgentIInv
<1>b. MaxChildren \in Nat /\ 0 \in Child /\ Nobody \in Owners /\ 0 \in Nat
  BY BoundsAre DEF Child, Owners
<1>1. TypeInv
  <2>1. SessionType
    BY <1>b DEF Init, SessionType
  <2>2. LoadType /\ TurnType
    BY RecordsAre DEF Init, LoadType, TurnType
  <2>3. GateType
    BY RecordsAre DEF Init, GateType
  <2>4. BridgeType
    <3>1. <<>> \in Seq(Loads \cup Connections)
      BY EmptySeq
    <3>2. [is |-> "none", by |-> Nobody] \in [is : Statuses, by : Owners]
      BY <1>b DEF Statuses
    <3> QED BY <1>b, <3>1, <3>2 DEF Init, BridgeType
  <2> QED BY <2>1, <2>2, <2>3, <2>4 DEF TypeInv
<1>2. LoadInv
  BY DEF Init, LoadInv, NoLoad
<1>3. TurnInv
  BY DEF Init, TurnInv, TurnKeepsItsSession, Live, NoTurn
<1>4. GateInv
  BY DEF Init, GateInv, NoLateGrant
<1>5. CallsInv
  <2>1. \A a \in Connections : chain[a].todo = <<>>
    BY DEF Init
  <2>2. DOMAIN <<>> = {}
    BY EmptySeq
  <2> QED BY <2>1, <2>2 DEF CallsInv
<1>6. ProbesInv
  BY DEF Init, ProbesInv, Started, NoLoad, NoTurn
<1>7. ChildInv
  <2>1. \A a \in Connections : chain[a].last = 0 /\ chain[a].starting = 0 /\ disposed[a] = "no"
    BY DEF Init
  <2>2. \A a \in Connections : Children(a) = {}
    <3>1. \A k \in DOMAIN child : child[k].by = Nobody
      BY DEF Init
    <3> QED BY <3>1, BoundsAre DEF Children
  <2> QED BY <2>1, <2>2 DEF ChildInv
<1> QED BY <1>1, <1>2, <1>3, <1>4, <1>5, <1>6, <1>7 DEF AgentIInv

LEMMA AgentStep ==
  ASSUME AgentAssumption, AgentIInv, [Next]_vars
  PROVE  AgentIInv'
<1> USE DEF AgentIInv
<1>1. SessionType' /\ GateType'
  BY SessionStep, GateStep DEF TypeInv
<1>2. LoadType' /\ TurnType' /\ BridgeType'
  BY LoadStep, TurnStep, BridgeTypeStep
<1>3. TypeInv'
  BY <1>1, <1>2 DEF TypeInv
<1> QED BY <1>3, LoadInvStep, TurnInvStep, GateInvStep, CallsInvStep, ProbesInvStep, ChildInvStep

LEMMA AgentHolds ==
  ASSUME AgentAssumption
  PROVE  Spec => []AgentIInv
<1>1. Init => AgentIInv
  BY AgentInit
<1>2. AgentIInv /\ [Next]_vars => AgentIInv'
  BY AgentStep
<1> QED BY <1>1, <1>2, PTL DEF Spec

\* One of two numbers is 0, which no child has, or names a child that is gone.
LEMMA ChildrenAre ==
  ASSUME AgentAssumption, AgentIInv
  PROVE  OneChild
<1>1. ASSUME NEW a \in Connections PROVE \E k : Children(a) \subseteq {k}
  <2>t. /\ DOMAIN child = 1 .. MaxChildren /\ 0 \notin 1 .. MaxChildren
        /\ Gone.by = Nobody /\ a # Nobody
    BY BoundsAre, RecordsAre DEF AgentIInv, TypeInv, BridgeType
  <2>i. /\ Children(a) \subseteq {chain[a].starting, chain[a].last}
        /\ chain[a].starting # 0 /\ chain[a].last # 0 => child[chain[a].last] = Gone
    BY DEF AgentIInv, ChildInv
  <2>0. 0 \notin Children(a)
    BY <2>t DEF Children
  <2>1. CASE chain[a].starting = 0 \/ chain[a].last = 0
    BY <2>0, <2>1, <2>i
  <2>2. CASE chain[a].starting # 0 /\ chain[a].last # 0
    <3>1. chain[a].last \notin Children(a)
      BY <2>2, <2>i, <2>t DEF Children
    <3> QED BY <2>i, <3>1
  <2> QED BY <2>1, <2>2
<1>2. ASSUME NEW a \in Connections PROVE Cardinality(Children(a)) <= 1
  <2>1. PICK k : Children(a) \subseteq {k}
    BY <1>1
  <2>2. Children(a) = {} \/ Children(a) = {k}
    BY <2>1
  <2>3. Cardinality({}) = 0 /\ Cardinality({k}) = 1
    BY FS_EmptySet, FS_Singleton
  <2> QED BY <2>2, <2>3
<1>3. \A a \in Connections : disposed[a] = "done" => Children(a) = {}
  BY DEF AgentIInv, ChildInv
<1> QED BY <1>2, <1>3 DEF OneChild

(* Types: sessions, turns, requests, chains and children are what the code      *)
(* makes of them, in every state of every run (AgentServer, TypeOK).            *)
THEOREM AgentTypes ==
  ASSUME AgentAssumption
  PROVE  Spec => []TypeOK
<1>1. AgentIInv => TypeOK
  <2> SUFFICES ASSUME AgentIInv PROVE TypeOK
    OBVIOUS
  <2>1. session.by \in Connections \cup {Nobody} /\ session.gate \in 0 .. gates
    BY DEF AgentIInv, TypeInv, SessionType, Owners
  <2>2. \A l \in Loads : load[l].pc \in LoadPcs
    BY DEF AgentIInv, TypeInv, LoadType
  <2>3. \A a \in Connections :
          /\ turn[a].pc \in TurnPcs
          /\ disposed[a] \in {"no", "cancelling", "waiting", "done"}
          /\ chain[a].last \in 0 .. MaxChildren
    BY DEF AgentIInv, TypeInv, TurnType, SessionType, BridgeType, Child
  <2>4. (\A r \in Requests : request[r].pc \in RequestPcs) /\ always \subseteq Requests
    BY DEF AgentIInv, TypeInv, GateType
  <2>5. child \in [1 .. MaxChildren -> [is : Statuses, by : Owners]]
    BY DEF AgentIInv, TypeInv, BridgeType
  <2> QED BY <2>1, <2>2, <2>3, <2>4, <2>5
          DEF TypeOK, LoadPcs, TurnPcs, RequestPcs, Statuses, Owners
<1> QED BY <1>1, AgentHolds, PTL

(* setup(), cancel(), the gate and bridgeFor() of server.ts, whatever loads,    *)
(* prompts, closes and disposals do meanwhile: a turn that is not cancelled     *)
(* keeps the session its connection loaded, an answer that comes after          *)
(* session/cancel leaves no grant, and a connection has one child at a time     *)
(* and none once dispose() is over.                                             *)
THEOREM SessionsHold ==
  ASSUME AgentAssumption
  PROVE  Spec => []AgentSessionsHold
<1>1. AgentIInv => AgentSessionsHold
  BY ChildrenAre DEF AgentIInv, TurnInv, GateInv, AgentSessionsHold
<1> QED BY <1>1, AgentHolds, PTL

=============================================================================
