------------------------- MODULE OfflineQueueProofs -------------------------
(***************************************************************************)
(* What TLAPS proves of OfflineQueue for any tabs, writes, caps and faults: *)
(* type correctness; that with Web Locks one tab drains at a time; and, with*)
(* Web Locks or without, that no stored write is lost, that writes take     *)
(* effect in the order they were stored, that only the owner's credential   *)
(* carries one, and that a newer build's records are left alone.            *)
(*                                                                          *)
(* What concerns the writes does not need the lock.  Two tabs may then send *)
(* the same record, remove it twice, or dead-letter what the other          *)
(* delivered; but each only ever reads the record with the lowest key, and  *)
(* that one cannot be passed by until it has taken effect or is a dead      *)
(* letter.                                                                  *)
(*                                                                          *)
(* Of the counters: for a lone tab, that the counter the cap is checked     *)
(* against covers what is stored, so that the cap is kept, whatever calls   *)
(* overlap, fail, stop and crash; and for any tabs that siblings' stale     *)
(* counters let the dead letters exceed their cap by one per sibling.       *)
(*                                                                          *)
(* With Web Locks, last, a write is in one place; with BroadcastChannel too *)
(* the counters at rest are right, in every tab that dropped no             *)
(* announcement; and the queue implements WriteOutbox.                      *)
(***************************************************************************)
EXTENDS OfflineOutbox, FiniteSetTheorems, WellFoundedInduction, TLAPS

\* Where a drain loop holds a record it has read.
Holding == {"sending", "remove", "removed",
            "retire", "retired", "trim", "trimmed", "tally"}

\* The stores are finite: each transaction adds one record at most.
FiniteStores == IsFiniteSet(outbox) /\ IsFiniteSet(dead)

\* A loop that holds a record holds a whole one, the request in flight is for
\* it, and a tab that is not up drains nothing.
Handles ==
  \A t \in Tabs :
    /\ pc[t] \in Holding => cur[t] \in Record
    /\ pc[t] = "sending" => req[t] \in Request /\ req[t].id = cur[t].id
    /\ life[t] \in {"down", "opening"} => pc[t] = "idle"

\* The inductive strengthening of TypeOK: a step that writes cur[t] into a store
\* needs Handles, one that counts a store needs FiniteStores.
TypeInv == TypeOK /\ FiniteStores /\ Handles

\* The two stores can be counted, so the tabs' counters stay numbers.
LEMMA Cards ==
  ASSUME TypeInv
  PROVE  Cardinality(outbox) \in Nat /\ Cardinality(dead) \in Nat
BY FS_CardinalityType DEF TypeInv, FiniteStores

\* A group of variables that a step leaves alone keeps to its types: what
\* each case below relies on for the groups its action does not touch.
LEMMA Frames ==
  /\ (StoreTypes /\ UNCHANGED store => StoreTypes')
  /\ (EngineTypes /\ UNCHANGED engine => EngineTypes')
  /\ (DrainerTypes /\ UNCHANGED <<life, lock, pc, cur, req, mode>>
        => DrainerTypes')
  /\ (FlagTypes
        /\ UNCHANGED <<requested, armed, mayAuth, prompt, mail, rfTimer>>
        => FlagTypes')
  /\ (AuthTypes /\ UNCHANGED <<who, cred>> => AuthTypes')
  /\ (CounterTypes /\ UNCHANGED <<counters, rfSeen, rfRetries, bounds>>
        => CounterTypes')
  /\ (CallTypes /\ UNCHANGED calls => CallTypes')
  /\ (RefreshTypes /\ UNCHANGED <<rf, raced>> => RefreshTypes')
  /\ (HistoryTypes /\ UNCHANGED history => HistoryTypes')
  /\ (Handles /\ UNCHANGED <<life, pc, cur, req>> => Handles')
<1> USE DEF store, engine, counters, bounds, calls, history
<1>1. StoreTypes /\ UNCHANGED store => StoreTypes'
  BY DEF StoreTypes
<1>2. EngineTypes /\ UNCHANGED engine => EngineTypes'
  BY DEF EngineTypes
<1>3. DrainerTypes /\ UNCHANGED <<life, lock, pc, cur, req, mode>> => DrainerTypes'
  BY DEF DrainerTypes
<1>4. FlagTypes
     /\ UNCHANGED <<requested, armed, mayAuth, prompt, mail, rfTimer>> => FlagTypes'
  BY DEF FlagTypes
<1>5. AuthTypes /\ UNCHANGED <<who, cred>> => AuthTypes'
  BY DEF AuthTypes
<1>6. CounterTypes /\ UNCHANGED <<counters, rfSeen, rfRetries, bounds>>
       => CounterTypes'
  BY DEF CounterTypes
<1>7. CallTypes /\ UNCHANGED calls => CallTypes'
  BY DEF CallTypes
<1>8. RefreshTypes /\ UNCHANGED <<rf, raced>> => RefreshTypes'
  BY DEF RefreshTypes
<1>9. HistoryTypes /\ UNCHANGED history => HistoryTypes'
  BY DEF HistoryTypes
<1>10. Handles /\ UNCHANGED <<life, pc, cur, req>> => Handles'
  BY DEF Handles
<1> QED BY <1>1, <1>2, <1>3, <1>4, <1>5, <1>6, <1>7, <1>8, <1>9, <1>10

\* A set of records with keys, unless empty, has one with the lowest key.
LEMMA LowestKey ==
  ASSUME NEW S, S # {}, \A r \in S : r.seq \in Nat
  PROVE  \E r \in S : \A s \in S : r.seq <= s.seq
<1> DEFINE Less == OpToRel(<, Nat)
<1>1. IsWellFoundedOn(Less, Nat)
  BY NatLessThanWellFounded
<1> DEFINE K == {r.seq : r \in S}
<1>2. K \subseteq Nat /\ K # {}
  OBVIOUS
<1> HIDE DEF Less, K
<1>3. PICK k \in K : \A l \in K : <<l, k>> \notin Less
  BY <1>1, <1>2, WFMin
<1>4. \A l \in K : l < k => <<l, k>> \in Less
  BY <1>2 DEF Less, OpToRel
<1>5. ASSUME NEW l \in K PROVE k <= l
  <2>1. k \in Nat /\ l \in Nat
    BY <1>2
  <2>2. ~(l < k)
    BY <1>3, <1>4
  <2> QED BY <2>1, <2>2
<1> QED BY <1>5 DEF K

\* What the read of the head returns when the outbox is not empty.
LEMMA HeadIsLowest ==
  ASSUME StoreTypes, outbox # {}
  PROVE  Head0 \in outbox /\ \A s \in outbox : Head0.seq <= s.seq
<1>1. \A r \in outbox : r.seq \in Nat
  BY DEF StoreTypes, Record
<1>2. \E r \in outbox : \A s \in outbox : r.seq <= s.seq
  BY <1>1, LowestKey
<1> QED BY <1>2 DEF Head0

\* drain(): it starts a session, or notes that one more is wanted.
LEMMA DrainCallTypes ==
  ASSUME TypeInv, NEW t \in Tabs, DrainCall(t),
         UNCHANGED <<lock, cur, req, mode, life>>
  PROVE  /\ DrainerTypes' /\ Handles'
         /\ requested' \in [Tabs -> BOOLEAN] /\ mayAuth' \in [Tabs -> BOOLEAN]
<1> USE DEF TypeInv, TypeOK, DrainCall
<1>1. DrainerTypes'
  BY DEF DrainerTypes, PCs
<1>2. Handles'
  BY DEF DrainerTypes, Handles, Holding
<1>3. requested' \in [Tabs -> BOOLEAN] /\ mayAuth' \in [Tabs -> BOOLEAN]
  BY DEF FlagTypes
<1> QED BY <1>1, <1>2, <1>3

\* The end of a drain() call returns the loop to idle.
LEMMA LeaveTypes ==
  ASSUME TypeInv, NEW t \in Tabs, Leave(t)
  PROVE  /\ pc' \in [Tabs -> PCs] /\ pc' = [pc EXCEPT ![t] = "idle"]
         /\ requested' \in [Tabs -> BOOLEAN] /\ mayAuth' \in [Tabs -> BOOLEAN]
BY DEF TypeInv, TypeOK, Leave, Goto, DrainerTypes, FlagTypes, PCs

\* scheduleRetry() only arms the timer.
LEMMA ScheduleRetryTypes ==
  ASSUME TypeInv, NEW t \in Tabs, ScheduleRetry(t)
  PROVE  armed' \in [Tabs -> BOOLEAN]
BY DEF TypeInv, TypeOK, ScheduleRetry, FlagTypes

\* A local mutation only marks the reads it overlaps.
LEMMA BumpTypes ==
  ASSUME TypeInv, NEW t \in Tabs, Bump(t)
  PROVE  raced' \in [Tabs -> SUBSET {"head", "refresh"}]
BY DEF TypeInv, TypeOK, Bump, RefreshTypes

\* A session that throws ends, frees the lock and arms the retry timer.
LEMMA DrainThrowsTypes ==
  ASSUME TypeInv, NEW t \in Tabs, DrainThrows(t), life' = life
  PROVE  /\ DrainerTypes' /\ Handles'
         /\ requested' \in [Tabs -> BOOLEAN] /\ armed' \in [Tabs -> BOOLEAN]
         /\ mayAuth' \in [Tabs -> BOOLEAN]
<1> USE DEF TypeInv, TypeOK, DrainThrows
<1>1. Leave(t) /\ ScheduleRetry(t)
  OBVIOUS
<1>2. DrainerTypes'
  BY <1>1, LeaveTypes DEF DrainerTypes, SetMode, Release
<1>3. Handles'
  BY <1>1, LeaveTypes DEF DrainerTypes, Handles, Holding
<1> QED BY <1>1, <1>2, <1>3, LeaveTypes, ScheduleRetryTypes

\* retire() begins the dead-lettering, or throws on a closed database.
LEMMA RetireTypes ==
  ASSUME TypeInv, NEW t \in Tabs, Retire(t),
         cur[t] \in Record, pc[t] # "idle", life' = life
  PROVE  /\ DrainerTypes' /\ Handles'
         /\ requested' \in [Tabs -> BOOLEAN] /\ armed' \in [Tabs -> BOOLEAN]
         /\ mayAuth' \in [Tabs -> BOOLEAN]
<1>1. CASE life[t] = "closed"
  BY <1>1, DrainThrowsTypes DEF Retire
<1>2. CASE life[t] # "closed"
  <2> USE <1>2 DEF TypeInv, TypeOK, Retire, Goto
  <2>1. DrainerTypes'
    BY DEF DrainerTypes, PCs
  <2>2. Handles'
    BY DEF DrainerTypes, Handles, Holding
  <2>3. UNCHANGED <<requested, armed, mayAuth>> /\ FlagTypes
    OBVIOUS
  <2> QED BY <2>1, <2>2, <2>3 DEF FlagTypes
<1> QED BY <1>1, <1>2

\* The read of the head returns a stored record or none.
LEMMA HeadOrNone ==
  ASSUME TypeInv
  PROVE  Head0 \in Record \cup {NoRecord}
<1>1. CASE outbox = {}
  BY <1>1 DEF Head0
<1>2. CASE outbox # {}
  BY <1>2, HeadIsLowest DEF TypeInv, TypeOK, StoreTypes
<1> QED BY <1>1, <1>2

\* Every step of the drain loop keeps the types, action by action.
LEMMA DrainStepTypes ==
  ASSUME TypeInv, NEW t \in Tabs, DrainStep(t)
  PROVE  TypeOK' /\ Handles'
<1> USE TypeInv, Frames, QueueAssumption, NoRecordAssumption
<1> USE DEF TypeInv, TypeOK, store, engine, drainer, auth, counters, calls,
         refresh, history, bounds
<1>1. CASE AcquireLock(t)
  BY <1>1 DEF AcquireLock, Goto, PCs, DrainerTypes, Handles, Holding
<1>2. CASE LockBusy(t)
  BY <1>2 DEF LockBusy, SetMode, ScheduleRetry, Leave, Goto, PCs,
     DrainerTypes, FlagTypes, Handles, Holding
<1>3. CASE SessionStopped(t)
  BY <1>3 DEF SessionStopped, Goto, PCs, DrainerTypes, Handles, Holding
<1>4. CASE ReadHead(t)
  BY <1>4, HeadOrNone DEF ReadHead, Goto, PCs, Mark, StoreTypes, DrainerTypes,
     Handles, RefreshTypes, Holding
<1>5. CASE HeadEmpty(t)
  BY <1>5 DEF HeadEmpty, Goto, SetMode, LeaveHead, PCs, DrainerTypes, Handles,
     RefreshTypes, CounterTypes, Holding
<1>6. CASE HeadBlocked(t)
  BY <1>6 DEF HeadBlocked, Goto, SetMode, LeaveHead, PCs, DrainerTypes,
     Handles, RefreshTypes, Holding
<1>7. CASE HeadRetires(t)
  BY <1>7, RetireTypes DEF HeadRetires, LeaveHead, RefreshTypes, FlagTypes,
     DrainerTypes
<1>8. CASE HeadSend(t)
  BY <1>8 DEF HeadSend, Foreign, Goto, SetMode, LeaveHead, PCs, Record,
     Request, DrainerTypes, Handles, RefreshTypes, HistoryTypes, AuthTypes,
     Holding
<1>9. CASE EngineAccepts(t)
  <2>1. EngineTypes'
    BY <1>9 DEF EngineAccepts, Apply, EngineTypes, Handles, Request
  <2>2. DrainerTypes' /\ Handles'
    BY <1>9 DEF EngineAccepts, Goto, SetMode, PCs, DrainerTypes, Handles,
       Holding
  <2> QED BY <1>9, <2>1, <2>2 DEF EngineAccepts
<1>10. CASE EngineRejects(t)
  <2>1. DrainerTypes' /\ Handles'
    BY <1>10, RetireTypes DEF EngineRejects, Handles, Holding
  <2>2. EngineTypes'
    BY <1>10 DEF EngineRejects, Apply, EngineTypes, Handles, Request
  <2>3. FlagTypes'
    BY <1>10, RetireTypes DEF EngineRejects, FlagTypes, Handles, Holding
  <2> QED BY <1>10, <2>1, <2>2, <2>3 DEF EngineRejects
<1>11. CASE EngineUnauthenticated(t)
  BY <1>11 DEF EngineUnauthenticated, Goto, SetMode, PCs, DrainerTypes,
     Handles, Holding
<1>12. CASE RemoveCommit(t)
  BY <1>12 DEF RemoveCommit, Goto, PCs, Record, StoreTypes, DrainerTypes,
     Handles, HistoryTypes, Holding
<1>13. CASE RemoveDone(t)
  BY <1>13 DEF RemoveDone, Goto, Bump, Announce, PCs, DrainerTypes, Handles,
     CounterTypes, RefreshTypes, FlagTypes, Holding
<1>14. CASE RetireCommit(t)
  BY <1>14 DEF RetireCommit, Goto, PCs, Record, StoreTypes, DrainerTypes,
     Handles, HistoryTypes, Holding
<1>15. CASE RetireTrims(t)
  BY <1>15 DEF RetireTrims, Goto, PCs, DrainerTypes, Handles, Holding
<1>16. CASE Trim(t)
  <2>1. Excess \subseteq dead
    BY DEF Excess
  <2>2. StoreTypes' /\ HistoryTypes'
    BY <1>16, <2>1 DEF Trim, StoreTypes, HistoryTypes, IdsOf, Record
  <2>3. DrainerTypes' /\ Handles'
    BY <1>16 DEF Trim, Goto, PCs, DrainerTypes, Handles, Holding
  <2> QED BY <1>16, <2>2, <2>3 DEF Trim
<1>17. CASE RetireTally(t)
  BY <1>17 DEF RetireTally, Goto, PCs, DrainerTypes, Handles, CounterTypes,
     Holding
<1>18. CASE RetireDone(t)
  BY <1>18, Cards DEF RetireDone, Goto, Bump, Announce, PCs, DrainerTypes,
     Handles, CounterTypes, RefreshTypes, FlagTypes, Holding
<1>19. CASE StorageClosed(t)
  BY <1>19, DrainThrowsTypes, BumpTypes DEF StorageClosed, RefreshTypes,
     FlagTypes
<1>20. CASE SessionEnds(t)
  <2>1. /\ pc' \in [Tabs -> PCs] /\ \A u \in Tabs \ {t} : pc'[u] = pc[u]
        /\ pc'[t] \in {"idle", "lock", "reauth"}
        /\ requested' \in [Tabs -> BOOLEAN] /\ armed' \in [Tabs -> BOOLEAN]
        /\ mayAuth' \in [Tabs -> BOOLEAN]
    <3> USE <1>20 DEF SessionEnds, Goto, PCs, DrainerTypes, FlagTypes
    <3>1. CASE Leave(t) /\ (armed' = armed \/ ScheduleRetry(t))
      BY <3>1, LeaveTypes, ScheduleRetryTypes
    <3>2. CASE /\ mayAuth' = [mayAuth EXCEPT ![t] = FALSE]
               /\ pc' = [pc EXCEPT ![t] = "reauth"]
               /\ UNCHANGED <<requested, armed>>
      BY <3>2
    <3>3. CASE /\ requested' = [requested EXCEPT ![t] = FALSE]
               /\ pc' = [pc EXCEPT ![t] = "lock"]
               /\ UNCHANGED <<armed, mayAuth>>
      BY <3>3
    <3> QED BY <3>1, <3>2, <3>3
  <2>2. DrainerTypes'
    BY <1>20, <2>1 DEF SessionEnds, Release, DrainerTypes
  <2>3. Handles'
    BY <1>20, <2>1 DEF SessionEnds, Handles, Holding, DrainerTypes
  <2>4. FlagTypes'
    BY <1>20, <2>1 DEF SessionEnds, FlagTypes
  <2> QED BY <1>20, <2>2, <2>3, <2>4 DEF SessionEnds
<1>21. CASE ReauthSettles(t)
  BY <1>21 DEF ReauthSettles, Goto, PCs, DrainerTypes, Handles, FlagTypes,
     AuthTypes, Holding
<1> QED BY <1>1, <1>2, <1>3, <1>4, <1>5, <1>6, <1>7, <1>8, <1>9, <1>10, <1>11,
   <1>12, <1>13, <1>14, <1>15, <1>16, <1>17, <1>18, <1>19, <1>20, <1>21 DEF
   DrainStep

\* Every step of enqueue(), retry() and discard() keeps the types.
LEMMA CallStepTypes ==
  ASSUME TypeInv, NEW t \in Tabs, CallStep(t)
  PROVE  TypeOK' /\ Handles'
<1> USE TypeInv, Frames, QueueAssumption, NoRecordAssumption
<1> USE DEF TypeInv, TypeOK, store, engine, drainer, auth, counters, calls,
         refresh, history, bounds
<1>1. CASE EnqueueCommit(t)
  BY <1>1 DEF EnqueueCommit, Record, Ids, NoOp, StoreTypes, HistoryTypes,
     CallTypes
<1>2. CASE EnqueueDone(t)
  BY <1>2, DrainCallTypes, BumpTypes DEF EnqueueDone, Announce, NoOp,
     FlagTypes, CallTypes, RefreshTypes
<1>3. CASE RequeueCommit(t)
  BY <1>3 DEF RequeueCommit, Requeued, Bump, NoOp, Record, StoreTypes,
     CallTypes, RefreshTypes
<1>4. CASE RequeueTally(t)
  BY <1>4 DEF RequeueTally, NoOp, CallTypes, CounterTypes
<1>5. CASE RequeueDone(t)
  BY <1>5, Cards, DrainCallTypes, BumpTypes DEF RequeueDone, NoOp, Announce,
     FlagTypes, CallTypes, RefreshTypes, CounterTypes
<1>6. CASE DiscardCommit(t)
  <2>1. StoreTypes' /\ HistoryTypes'
    BY <1>6 DEF DiscardCommit, StoreTypes, HistoryTypes, IdsOf, Record
  <2>2. CallTypes'
    BY <1>6 DEF DiscardCommit, NoOp, CallTypes
  <2>3. RefreshTypes'
    BY <1>6, BumpTypes DEF DiscardCommit, RefreshTypes
  <2> QED BY <1>6, <2>1, <2>2, <2>3 DEF DiscardCommit
<1>7. CASE DiscardDone(t)
  BY <1>7, Cards DEF DiscardDone, NoOp, Bump, Announce, CallTypes,
     RefreshTypes, CounterTypes, FlagTypes
<1> QED BY <1>1, <1>2, <1>3, <1>4, <1>5, <1>6, <1>7 DEF CallStep

\* Every step of a refresh pass keeps the types.
LEMMA RefreshStepTypes ==
  ASSUME TypeInv, NEW t \in Tabs, RefreshStep(t)
  PROVE  TypeOK' /\ Handles'
<1> USE TypeInv, Frames, QueueAssumption, NoRecordAssumption
<1> USE DEF TypeInv, TypeOK, store, engine, drainer, auth, counters, calls,
         refresh, history, bounds
<1>1. CASE AnnounceArrives(t)
  BY <1>1 DEF AnnounceArrives, RequestRefresh, Mark, RefreshTypes, FlagTypes,
     HistoryTypes
<1>2. CASE RefreshTimerFires(t)
  BY <1>2 DEF RefreshTimerFires, RequestRefresh, Mark, RefreshTypes,
     FlagTypes, HistoryTypes
<1>3. CASE RefreshUsage(t)
  BY <1>3, Cards DEF RefreshUsage, RefreshTypes, CounterTypes
<1>4. CASE RefreshCommit(t)
  <2>1. RefreshTypes'
    BY <1>4 DEF RefreshCommit, RefreshTypes
  <2>2. CounterTypes'
    BY <1>4, Cards DEF RefreshCommit, CounterTypes
  <2>3. FlagTypes' /\ HistoryTypes'
    BY <1>4 DEF RefreshCommit, FlagTypes, HistoryTypes
  <2> QED BY <1>4, <2>1, <2>2, <2>3 DEF RefreshCommit
<1>5. CASE RefreshEnds(t)
  BY <1>5, DrainCallTypes DEF RefreshEnds, RefreshTypes, FlagTypes,
     DrainerTypes, Handles, Holding
<1> QED BY <1>1, <1>2, <1>3, <1>4, <1>5 DEF RefreshStep

\* Every step of start() and stop() keeps the types.
LEMMA LifeStepTypes ==
  ASSUME TypeInv, NEW t \in Tabs, LifeStep(t)
  PROVE  TypeOK' /\ Handles'
<1> USE TypeInv, Frames, QueueAssumption, NoRecordAssumption
<1> USE DEF TypeInv, TypeOK, store, engine, drainer, auth, counters, calls,
         refresh, history, bounds
<1>1. CASE StartRead(t)
  <2> USE <1>1 DEF StartRead, Forget
  <2>1. DrainerTypes' /\ Handles'
    BY DEF SetMode, DrainerTypes, Handles, Holding
  <2>2. FlagTypes' /\ AuthTypes'
    BY DEF FlagTypes, AuthTypes
  <2>3. CounterTypes' /\ RefreshTypes'
    BY Cards DEF CounterTypes, RefreshTypes
  <2>4. CallTypes'
    BY DEF CallTypes, NoOp
  <2> QED BY <2>1, <2>2, <2>3, <2>4
<1>2. CASE StartDone(t)
  BY <1>2 DEF StartDone, Goto, PCs, DrainerTypes, Handles, Holding
<1>3. CASE Close(t)
  BY <1>3 DEF Close, DrainerTypes, Handles, RefreshTypes, FlagTypes,
     CounterTypes, Holding
<1> QED BY <1>1, <1>2, <1>3 DEF LifeStep

\* Calls, crashes, faults and late logins keep the types.
LEMMA StimulusTypes ==
  ASSUME TypeInv, NEW t \in Tabs, Stimulus(t)
  PROVE  TypeOK' /\ Handles'
<1> USE TypeInv, Frames, QueueAssumption, NoRecordAssumption
<1> USE DEF TypeInv, TypeOK, store, engine, drainer, auth, counters, calls,
         refresh, history, bounds
<1>1. ASSUME NEW w \in Writes, Enqueue(t, w)
      PROVE  TypeOK' /\ Handles'
  BY <1>1 DEF Enqueue, HasRoom, DbOpen, NoOp, CallTypes, CounterTypes,
     AuthTypes
<1>2. ASSUME NEW w \in Ids, RetryCall(t, w)
      PROVE  TypeOK' /\ Handles'
  BY <1>2 DEF RetryCall, NoOp, CallTypes, CounterTypes
<1>3. ASSUME NEW w \in Ids, DiscardCall(t, w)
      PROVE  TypeOK' /\ Handles'
  BY <1>3 DEF DiscardCall, NoOp, CallTypes, CounterTypes
<1>4. CASE Flush(t)
  BY <1>4, DrainCallTypes DEF Flush, FlagTypes, CounterTypes
<1>5. CASE Stop(t)
  BY <1>5 DEF Stop, DrainerTypes, Handles, FlagTypes, CounterTypes, Holding
<1>6. CASE Crash(t)
  <2> USE <1>6 DEF Crash, Forget
  <2>1. EngineTypes'
    BY DEF InFlight, EngineTypes, Handles, Holding
  <2>2. DrainerTypes' /\ Handles'
    BY DEF Release, SetMode, Goto, PCs, DrainerTypes, Handles, Holding
  <2>3. FlagTypes'
    BY DEF FlagTypes
  <2>4. CounterTypes'
    BY DEF CounterTypes
  <2>5. CallTypes'
    BY DEF CallTypes, NoOp
  <2>6. RefreshTypes'
    BY DEF RefreshTypes
  <2> QED BY <2>1, <2>2, <2>3, <2>4, <2>5, <2>6
<1>7. CASE EnqueueFails(t)
  BY <1>7 DEF EnqueueFails, Bump, Fault, NoOp, CallTypes, CounterTypes,
     RefreshTypes
<1>8. CASE CallFails(t)
  BY <1>8 DEF CallFails, Bump, Fault, NoOp, CallTypes, CounterTypes,
     RefreshTypes, HistoryTypes
<1>9. CASE SendFails(t)
  BY <1>9 DEF SendFails, Fault, Goto, SetMode, PCs, EngineTypes, DrainerTypes,
     Handles, CounterTypes, Holding
<1>10. CASE StorageFails(t)
  BY <1>10, DrainThrowsTypes, BumpTypes DEF StorageFails, Fault, Goto,
     SetMode, PCs, DrainerTypes, Handles, FlagTypes, RefreshTypes,
     CounterTypes, Holding
<1>11. CASE ReauthFails(t)
  BY <1>11 DEF ReauthFails, Fault, ScheduleRetry, Leave, Goto, PCs,
     DrainerTypes, Handles, FlagTypes, CounterTypes, Holding
<1>12. CASE ReauthEmpty(t)
  BY <1>12 DEF ReauthEmpty, Fault, Goto, PCs, DrainerTypes, Handles,
     FlagTypes, CounterTypes, AuthTypes, Holding
<1>13. CASE LateLogin(t)
  BY <1>13 DEF LateLogin, FlagTypes, AuthTypes
<1>14. CASE ExpireCredential(t)
  BY <1>14 DEF ExpireCredential, Fault, AuthTypes, CounterTypes
<1> QED BY <1>1, <1>2, <1>3, <1>4, <1>5, <1>6, <1>7, <1>8, <1>9, <1>10, <1>11,
   <1>12, <1>13, <1>14 DEF Stimulus

\* The only steps that touch the two stores, or the record of what was
\* accepted, delivered, dead-lettered and given up.
LEMMA StoreSteps ==
  ASSUME Next
  PROVE  \/ UNCHANGED <<store, accepted, delivered, everDead, gone>>
         \/ \E t \in Tabs :
              \/ EnqueueCommit(t) \/ RemoveCommit(t) \/ RetireCommit(t)
              \/ Trim(t) \/ RequeueCommit(t) \/ DiscardCommit(t)
         \/ \E f \in FutureWrites :
              NewerAppends(f) \/ NewerRemoves(f) \/ NewerRetires(f)
<1> USE DEF store, history, vars
<1> DEFINE Goal == \/ UNCHANGED <<store, accepted, delivered, everDead, gone>>
                   \/ \E t \in Tabs :
                        \/ EnqueueCommit(t) \/ RemoveCommit(t) \/ RetireCommit(t)
                        \/ Trim(t) \/ RequeueCommit(t) \/ DiscardCommit(t)
                   \/ \E f \in FutureWrites :
                        NewerAppends(f) \/ NewerRemoves(f) \/ NewerRetires(f)
<1>1. ASSUME NEW t \in Tabs, DrainStep(t)
      PROVE  Goal
  BY <1>1 DEF DrainStep, AcquireLock, LockBusy, SessionStopped, ReadHead, HeadEmpty,
     HeadBlocked, HeadRetires, HeadSend, EngineAccepts, EngineRejects,
     EngineUnauthenticated, RemoveDone, RetireTrims, RetireTally, RetireDone,
     StorageClosed, SessionEnds, ReauthSettles
<1>2. ASSUME NEW t \in Tabs, CallStep(t) \/ RefreshStep(t) \/ TimerFires(t)
                               \/ LifeStep(t)
      PROVE  Goal
  BY <1>2 DEF CallStep, RefreshStep, TimerFires, LifeStep, EnqueueDone, RequeueTally,
     RequeueDone, DiscardDone, AnnounceArrives, RefreshTimerFires, RefreshUsage,
     RefreshCommit, RefreshEnds, StartRead, StartDone, Close
<1>3. ASSUME NEW t \in Tabs, Stimulus(t)
      PROVE  Goal
  BY <1>3 DEF Stimulus, Enqueue, RetryCall, DiscardCall, Flush, Stop, Crash,
     EnqueueFails, CallFails, SendFails, StorageFails, ReauthFails, ReauthEmpty,
     LateLogin, ExpireCredential
<1>4. ASSUME NEW m \in late, LateArrives(m)
      PROVE  Goal
  BY <1>4 DEF LateArrives
<1>5. ASSUME NEW f \in FutureWrites, \/ NewerAppends(f) \/ NewerSends(f)
                                     \/ NewerRemoves(f) \/ NewerRetires(f)
      PROVE  Goal
  BY <1>5 DEF NewerSends
<1>6. ASSUME Rest
      PROVE  Goal
  BY <1>6 DEF Rest
<1> HIDE DEF Goal
<1>7. Goal
  BY <1>1, <1>2, <1>3, <1>4, <1>5, <1>6 DEF Next
<1> QED BY <1>7 DEF Goal

\* TypeInv is kept by every step: the types by the lemmas above, the
\* finiteness of the stores as each step adds one record at most.
LEMMA TypeStep ==
  ASSUME TypeInv, [Next]_vars
  PROVE  TypeInv'
<1>1. TypeOK' /\ Handles'
  <2> USE TypeInv, Frames, QueueAssumption, NoRecordAssumption
  <2> USE DEF TypeInv, TypeOK, store, engine, drainer, auth, counters, calls,
         refresh, history, bounds
  <2>1. ASSUME NEW t \in Tabs,
               DrainStep(t) \/ CallStep(t) \/ RefreshStep(t) \/ LifeStep(t)
                 \/ Stimulus(t)
        PROVE  TypeOK' /\ Handles'
    BY <2>1, DrainStepTypes, CallStepTypes, RefreshStepTypes, LifeStepTypes,
       StimulusTypes
  <2>2. ASSUME NEW t \in Tabs, TimerFires(t)
        PROVE  TypeOK' /\ Handles'
    BY <2>2, DrainCallTypes DEF TimerFires, FlagTypes
  <2>3. ASSUME NEW m \in late, LateArrives(m)
        PROVE  TypeOK' /\ Handles'
    <3>1. EngineTypes'
      BY <2>3 DEF LateArrives, Apply, EngineTypes, Request
    <3> QED BY <2>3, <3>1 DEF LateArrives
  <2>4. ASSUME NEW f \in FutureWrites, NewerAppends(f)
        PROVE  TypeOK' /\ Handles'
    BY <2>4 DEF NewerAppends, AnnounceAll, StoreTypes, FlagTypes, HistoryTypes,
       Record, Ids
  <2>5. ASSUME NEW f \in FutureWrites, NewerSends(f)
        PROVE  TypeOK' /\ Handles'
    BY <2>5 DEF NewerSends, Apply, EngineTypes, Ids
  <2>6. ASSUME NEW f \in FutureWrites, NewerRemoves(f)
        PROVE  TypeOK' /\ Handles'
    BY <2>6 DEF NewerRemoves, AnnounceAll, StoreTypes, FlagTypes, HistoryTypes,
       Ids
  <2>7. ASSUME NEW f \in FutureWrites, NewerRetires(f)
        PROVE  TypeOK' /\ Handles'
    BY <2>7, HeadOrNone DEF NewerRetires, AnnounceAll, StoreTypes, FlagTypes,
       HistoryTypes, Ids
  <2>8. CASE UNCHANGED vars
    BY <2>8 DEF vars
  <2> QED BY <2>1, <2>2, <2>3, <2>4, <2>5, <2>6, <2>7, <2>8 DEF Next, Rest
<1>2. FiniteStores'
  <2>1. \E x, y : outbox' \subseteq outbox \cup {x} /\ dead' \subseteq dead \cup {y}
    <3> USE DEF store, vars
    <3>1. CASE UNCHANGED store
      BY <3>1
    <3>2. ASSUME NEW t \in Tabs, EnqueueCommit(t) \/ RequeueCommit(t)
          PROVE  \E x : outbox' \subseteq outbox \cup {x} /\ dead' \subseteq dead
      BY <3>2 DEF EnqueueCommit, RequeueCommit
    <3>3. ASSUME NEW t \in Tabs, RemoveCommit(t) \/ Trim(t) \/ DiscardCommit(t)
          PROVE  outbox' \subseteq outbox /\ dead' \subseteq dead
      BY <3>3 DEF RemoveCommit, Trim, DiscardCommit
    <3>4. ASSUME NEW t \in Tabs, RetireCommit(t)
          PROVE  outbox' \subseteq outbox /\ dead' \subseteq dead \cup {cur[t]}
      BY <3>4 DEF RetireCommit
    <3>5. ASSUME NEW f \in FutureWrites, NewerAppends(f)
          PROVE  \E x : outbox' \subseteq outbox \cup {x} /\ dead' \subseteq dead
      BY <3>5 DEF NewerAppends
    <3>6. ASSUME NEW f \in FutureWrites, NewerRemoves(f) \/ NewerRetires(f)
          PROVE  outbox' \subseteq outbox /\ dead' \subseteq dead \cup {Head0}
      BY <3>6 DEF NewerRemoves, NewerRetires
    <3> QED BY <3>1, <3>2, <3>3, <3>4, <3>5, <3>6, StoreSteps
  <2> QED BY <2>1, FS_AddElement, FS_Subset DEF TypeInv, FiniteStores
<1> QED BY <1>1, <1>2 DEF TypeInv

\* TypeInv holds at the start, when the database is empty.
LEMMA TypeInit == Init => TypeInv
<1> SUFFICES ASSUME Init PROVE TypeInv
  OBVIOUS
<1> USE DEF Init
<1>1. StoreTypes /\ EngineTypes /\ HistoryTypes /\ RefreshTypes
  BY DEF StoreTypes, EngineTypes, HistoryTypes, RefreshTypes
<1>2. DrainerTypes /\ FlagTypes
  BY DEF DrainerTypes, FlagTypes, PCs
<1>3. AuthTypes /\ CounterTypes /\ CallTypes
  BY DEF AuthTypes, CounterTypes, CallTypes, NoOp
<1>4. FiniteStores
  BY FS_EmptySet DEF FiniteStores
<1>5. Handles
  BY DEF Handles, Holding
<1> QED BY <1>1, <1>2, <1>3, <1>4, <1>5 DEF TypeInv, TypeOK

\* TypeInv is inductive.
THEOREM TypeInvariant == Spec => []TypeInv
<1>1. Init => TypeInv
  BY TypeInit
<1>2. TypeInv /\ [Next]_vars => TypeInv'
  BY TypeStep
<1> QED BY <1>1, <1>2, PTL DEF Spec

\* Every variable keeps to its type: with any tabs, writes, caps and faults.
THEOREM TypeCorrectness == Spec => []TypeOK
<1>1. TypeInv => TypeOK
  BY DEF TypeInv
<1> QED BY <1>1, TypeInvariant, PTL

-----------------------------------------------------------------------------
(* Mutual exclusion of the drain sessions.                                 *)

\* SingleDrainer, strengthened: who drains holds the lock.
MutexInv ==
  WebLocks => \A t \in Tabs : pc[t] \in InSession => lock = t

\* A step of t leaves the others' drain loops alone, enters a session only by
\* taking the lock, keeps it while the session lasts, and frees it only as its
\* holder.
SessionStep(t) ==
  /\ \A u \in Tabs \ {t} : pc'[u] = pc[u]
  /\ \/ AcquireLock(t)
     \/ pc'[t] \in InSession => pc[t] \in InSession /\ lock' = lock
  /\ AcquireLock(t) \/ lock' = lock \/ lock = t

\* Each step of a drain loop keeps to the discipline of the lock.
LEMMA DrainStepSession ==
  ASSUME TypeInv, NEW t \in Tabs, DrainStep(t)
  PROVE  SessionStep(t)
<1> USE DEF TypeInv, TypeOK, DrainerTypes, SessionStep, InSession, Goto
<1>1. CASE AcquireLock(t)
  BY <1>1 DEF AcquireLock
<1>2. CASE LockBusy(t) \/ SessionStopped(t) \/ ReadHead(t)
  BY <1>2 DEF LockBusy, SessionStopped, ReadHead, Leave
<1>3. CASE HeadEmpty(t) \/ HeadBlocked(t) \/ HeadSend(t)
  BY <1>3 DEF HeadEmpty, HeadBlocked, HeadSend
<1>4. CASE HeadRetires(t) \/ EngineRejects(t) \/ StorageClosed(t)
  BY <1>4 DEF HeadRetires, EngineRejects, StorageClosed, Retire, DrainThrows,
     Release, Leave
<1>5. CASE EngineAccepts(t) \/ EngineUnauthenticated(t)
  BY <1>5 DEF EngineAccepts, EngineUnauthenticated
<1>6. CASE RemoveCommit(t) \/ RemoveDone(t)
  BY <1>6 DEF RemoveCommit, RemoveDone
<1>7. CASE RetireCommit(t) \/ RetireTrims(t) \/ Trim(t) \/ RetireTally(t)
             \/ RetireDone(t)
  BY <1>7 DEF RetireCommit, RetireTrims, Trim, RetireTally, RetireDone
<1>8. CASE SessionEnds(t) \/ ReauthSettles(t)
  BY <1>8 DEF SessionEnds, ReauthSettles, Release, Leave, Ends
<1> QED BY <1>1, <1>2, <1>3, <1>4, <1>5, <1>6, <1>7, <1>8 DEF DrainStep

\* So do the steps of calls, refresh passes, timers and start() ...
LEMMA OtherSession ==
  ASSUME TypeInv, NEW t \in Tabs,
         CallStep(t) \/ RefreshStep(t) \/ TimerFires(t) \/ LifeStep(t)
  PROVE  SessionStep(t)
<1> USE DEF TypeInv, TypeOK, DrainerTypes, SessionStep, InSession, Goto,
       drainer, DrainCall
<1>1. CASE CallStep(t)
  BY <1>1 DEF CallStep, EnqueueCommit, EnqueueDone, RequeueCommit,
     RequeueTally, RequeueDone, DiscardCommit, DiscardDone
<1>2. CASE RefreshStep(t)
  BY <1>2 DEF RefreshStep, AnnounceArrives, RefreshTimerFires, RefreshUsage,
     RefreshCommit, RefreshEnds
<1>3. CASE TimerFires(t)
  BY <1>3 DEF TimerFires
<1>4. CASE LifeStep(t)
  BY <1>4 DEF LifeStep, StartRead, StartDone, Close, Forget
<1> QED BY <1>1, <1>2, <1>3, <1>4

\* ... and stops, crashes, failing calls and logins.
LEMMA StimulusSession ==
  ASSUME TypeInv, NEW t \in Tabs, Stimulus(t)
  PROVE  SessionStep(t)
<1> USE DEF TypeInv, TypeOK, DrainerTypes, SessionStep, InSession, Goto,
       drainer, DrainCall
<1>1. ASSUME NEW w \in Ids, Enqueue(t, w) \/ RetryCall(t, w) \/ DiscardCall(t, w)
      PROVE  SessionStep(t)
  BY <1>1 DEF Enqueue, RetryCall, DiscardCall
<1>2. CASE Flush(t) \/ Stop(t) \/ Crash(t)
  BY <1>2 DEF Flush, Stop, Crash, Release, Forget
<1>3. CASE EnqueueFails(t) \/ CallFails(t) \/ SendFails(t)
  BY <1>3 DEF EnqueueFails, CallFails, SendFails
<1>4. CASE StorageFails(t)
  BY <1>4 DEF StorageFails, DrainThrows, Release, Leave
<1>5. CASE ReauthFails(t) \/ ReauthEmpty(t) \/ LateLogin(t)
             \/ ExpireCredential(t)
  BY <1>5 DEF ReauthFails, ReauthEmpty, LateLogin, ExpireCredential, Leave
<1> QED BY <1>1, <1>2, <1>3, <1>4, <1>5 DEF Stimulus, Ids

\* MutexInv is kept by every step.
LEMMA MutexStep ==
  ASSUME TypeInv, MutexInv, [Next]_vars
  PROVE  MutexInv'
<1>1. ASSUME NEW t \in Tabs, SessionStep(t)
      PROVE  MutexInv'
  BY <1>1, QueueAssumption
     DEF MutexInv, SessionStep, AcquireLock, Goto, InSession, TypeInv, TypeOK,
         DrainerTypes
<1>2. CASE UNCHANGED drainer
  BY <1>2 DEF MutexInv, drainer
<1>3. ASSUME NEW m \in late, LateArrives(m)
      PROVE  UNCHANGED drainer
  BY <1>3 DEF LateArrives
<1>4. ASSUME NEW f \in FutureWrites,
             NewerAppends(f) \/ NewerSends(f) \/ NewerRemoves(f) \/ NewerRetires(f)
      PROVE  UNCHANGED drainer
  BY <1>4 DEF NewerAppends, NewerSends, NewerRemoves, NewerRetires
<1>5. CASE UNCHANGED vars
  BY <1>5, <1>2 DEF vars
<1> QED BY <1>1, <1>2, <1>3, <1>4, <1>5, DrainStepSession, OtherSession,
           StimulusSession DEF Next, Rest

\* With Web Locks, whoever is in a session holds the lock: one tab at a time.
THEOREM MutualExclusion == Spec => []SingleDrainer
<1>1. Init => MutexInv
  BY DEF Init, MutexInv, InSession
<1>2. TypeInv /\ MutexInv /\ [Next]_vars => MutexInv'
  BY MutexStep
<1>3. MutexInv => SingleDrainer
  BY DEF MutexInv, SingleDrainer
<1> QED BY <1>1, <1>2, <1>3, TypeInvariant, PTL DEF Spec

-----------------------------------------------------------------------------
(* No stored write is lost, with Web Locks or without.                     *)

\* A key names one record, for as long as the record is stored or a drain loop
\* remembers it: what is removed under cur[t].seq can only be cur[t].
KeysInv ==
  /\ \A r \in outbox : r.seq < nextSeq
  /\ \A r, s \in outbox : r.seq = s.seq => r = s
  /\ \A t \in Tabs : cur[t] # NoRecord =>
       /\ cur[t].seq < nextSeq
       /\ \A r \in outbox : r.seq = cur[t].seq => r = cur[t]

\* A drain loop removes as delivered only what has taken effect.
RemoveInv ==
  \A t \in Tabs : pc[t] = "remove" => cur[t].id \in Effects

\* The inductive strengthening of NoWriteLost.
LostInv == KeysInv /\ RemoveInv /\ NoWriteLost

\* Where a drain loop holds a record that it has not taken out of the outbox.
HoldingHead == {"head", "sending", "remove", "retire"}

\* A step of t leaves the others' drain loops alone, changes the record t holds
\* only by reading the head or by letting go, comes by a head only by reading
\* it, and reaches the removal of a record only by the engine's acknowledgement
\* of it.
HoldStep(t) ==
  /\ \A u \in Tabs \ {t} : pc'[u] = pc[u] /\ cur'[u] = cur[u]
  /\ ReadHead(t) \/ cur'[t] = cur[t] \/ cur'[t] = NoRecord
  /\ pc'[t] \in HoldingHead =>
       ReadHead(t) \/ (pc[t] \in HoldingHead /\ cur'[t] = cur[t])
  /\ pc'[t] = "remove" => \/ EngineAccepts(t) /\ cur'[t] = cur[t]
                          \/ pc[t] = "remove" /\ cur'[t] = cur[t]

\* Each step of a drain loop holds on to its record that way.
LEMMA DrainStepHold ==
  ASSUME TypeInv, NEW t \in Tabs, DrainStep(t)
  PROVE  HoldStep(t)
<1> USE DEF TypeInv, TypeOK, DrainerTypes, HoldStep, HoldingHead, Goto
<1>1. CASE AcquireLock(t) \/ LockBusy(t) \/ SessionStopped(t)
  BY <1>1 DEF AcquireLock, LockBusy, SessionStopped, Leave
<1>2. CASE ReadHead(t)
  BY <1>2 DEF ReadHead
<1>3. CASE HeadEmpty(t) \/ HeadBlocked(t) \/ HeadSend(t)
  BY <1>3 DEF HeadEmpty, HeadBlocked, HeadSend
<1>4. CASE HeadRetires(t) \/ EngineRejects(t) \/ StorageClosed(t)
  BY <1>4 DEF HeadRetires, EngineRejects, StorageClosed, Retire, DrainThrows,
     Leave
<1>5. CASE EngineAccepts(t) \/ EngineUnauthenticated(t)
  BY <1>5 DEF EngineAccepts, EngineUnauthenticated
<1>6. CASE RemoveCommit(t) \/ RemoveDone(t)
  BY <1>6 DEF RemoveCommit, RemoveDone
<1>7. CASE RetireCommit(t) \/ RetireTrims(t) \/ Trim(t) \/ RetireTally(t)
             \/ RetireDone(t)
  BY <1>7 DEF RetireCommit, RetireTrims, Trim, RetireTally, RetireDone
<1>8. CASE SessionEnds(t) \/ ReauthSettles(t)
  BY <1>8 DEF SessionEnds, ReauthSettles, Leave, Ends
<1> QED BY <1>1, <1>2, <1>3, <1>4, <1>5, <1>6, <1>7, <1>8 DEF DrainStep

\* So do the steps of calls, refresh passes, timers and start() ...
LEMMA OtherHold ==
  ASSUME TypeInv, NEW t \in Tabs,
         CallStep(t) \/ RefreshStep(t) \/ TimerFires(t) \/ LifeStep(t)
  PROVE  HoldStep(t)
<1> USE DEF TypeInv, TypeOK, DrainerTypes, HoldStep, HoldingHead, Goto, drainer, DrainCall
<1>1. CASE CallStep(t)
  BY <1>1 DEF CallStep, EnqueueCommit, EnqueueDone, RequeueCommit,
     RequeueTally, RequeueDone, DiscardCommit, DiscardDone
<1>2. CASE RefreshStep(t)
  BY <1>2 DEF RefreshStep, AnnounceArrives, RefreshTimerFires, RefreshUsage,
     RefreshCommit, RefreshEnds
<1>3. CASE TimerFires(t)
  BY <1>3 DEF TimerFires
<1>4. CASE LifeStep(t)
  BY <1>4 DEF LifeStep, StartRead, StartDone, Close, Forget, Handles
<1> QED BY <1>1, <1>2, <1>3, <1>4

\* ... and stops, crashes, failing calls and logins.
LEMMA StimulusHold ==
  ASSUME TypeInv, NEW t \in Tabs, Stimulus(t)
  PROVE  HoldStep(t)
<1> USE DEF TypeInv, TypeOK, DrainerTypes, HoldStep, HoldingHead, Goto, drainer, DrainCall
<1>1. ASSUME NEW w \in Ids, Enqueue(t, w) \/ RetryCall(t, w) \/ DiscardCall(t, w)
      PROVE  HoldStep(t)
  BY <1>1 DEF Enqueue, RetryCall, DiscardCall
<1>2. CASE Flush(t) \/ Stop(t) \/ Crash(t)
  BY <1>2 DEF Flush, Stop, Crash, Forget
<1>3. CASE EnqueueFails(t) \/ CallFails(t) \/ SendFails(t)
  BY <1>3 DEF EnqueueFails, CallFails, SendFails
<1>4. CASE StorageFails(t)
  BY <1>4 DEF StorageFails, DrainThrows, Leave
<1>5. CASE ReauthFails(t) \/ ReauthEmpty(t) \/ LateLogin(t)
             \/ ExpireCredential(t)
  BY <1>5 DEF ReauthFails, ReauthEmpty, LateLogin, ExpireCredential, Leave
<1> QED BY <1>1, <1>2, <1>3, <1>4, <1>5 DEF Stimulus, Ids

\* What any step does to the records the drain loops hold.
LEMMA HoldSteps ==
  ASSUME TypeInv, [Next]_vars
  PROVE  UNCHANGED <<pc, cur>> \/ \E t \in Tabs : HoldStep(t)
<1>1. ASSUME NEW m \in late, LateArrives(m)
      PROVE  UNCHANGED <<pc, cur>>
  BY <1>1 DEF LateArrives, drainer
<1>2. ASSUME NEW f \in FutureWrites,
             NewerAppends(f) \/ NewerSends(f) \/ NewerRemoves(f) \/ NewerRetires(f)
      PROVE  UNCHANGED <<pc, cur>>
  BY <1>2 DEF NewerAppends, NewerSends, NewerRemoves, NewerRetires, drainer
<1>3. CASE UNCHANGED vars
  BY <1>3 DEF vars, drainer
<1> QED BY <1>1, <1>2, <1>3, DrainStepHold, OtherHold, StimulusHold DEF Next, Rest

\* What the engine has applied after applying one write more.
LEMMA ApplyAdds ==
  ASSUME EngineTypes, NEW w \in Ids, Apply(w)
  PROVE  Effects' = Effects \cup {w}
<1>1. CASE w \in Effects
  BY <1>1 DEF Apply, Effects
<1>2. CASE w \notin Effects
  <2>1. /\ Len(applied') = Len(applied) + 1 /\ Len(applied) \in Nat
        /\ applied'[Len(applied) + 1] = w
        /\ \A i \in 1 .. Len(applied) : applied'[i] = applied[i]
    BY <1>2 DEF Apply, EngineTypes
  <2>2. ASSUME NEW x \in Effects'
        PROVE  x \in Effects \cup {w}
    <3>1. PICK i \in 1 .. Len(applied') : x = applied'[i]
      BY DEF Effects
    <3>2. i = Len(applied) + 1 \/ i \in 1 .. Len(applied)
      BY <2>1
    <3> QED BY <2>1, <3>1, <3>2 DEF Effects
  <2>3. ASSUME NEW x \in Effects
        PROVE  x \in Effects'
    <3>1. PICK i \in 1 .. Len(applied) : x = applied[i]
      BY DEF Effects
    <3>2. i \in 1 .. Len(applied') /\ applied'[i] = x
      BY <2>1, <3>1
    <3> QED BY <3>2 DEF Effects
  <2>4. w \in Effects'
    <3>1. Len(applied') \in 1 .. Len(applied') /\ applied'[Len(applied')] = w
      BY <2>1
    <3> QED BY <3>1 DEF Effects
  <2> QED BY <2>2, <2>3, <2>4
<1> QED BY <1>1, <1>2

\* The steps in which the engine may apply a write.
LEMMA EngineSteps ==
  ASSUME Next
  PROVE  \/ UNCHANGED applied
         \/ \E t \in Tabs : EngineAccepts(t) \/ EngineRejects(t)
         \/ \E m \in late : LateArrives(m)
         \/ \E f \in FutureWrites : NewerSends(f)
<1> USE DEF engine, store, vars
<1> DEFINE Goal == \/ UNCHANGED applied
                   \/ \E t \in Tabs : EngineAccepts(t) \/ EngineRejects(t)
                   \/ \E m \in late : LateArrives(m)
                   \/ \E f \in FutureWrites : NewerSends(f)
<1>1. ASSUME NEW t \in Tabs, DrainStep(t)
      PROVE  Goal
  BY <1>1 DEF DrainStep, AcquireLock, LockBusy, SessionStopped, ReadHead, HeadEmpty,
     HeadBlocked, HeadRetires, HeadSend, EngineUnauthenticated, RemoveCommit,
     RemoveDone, RetireCommit, RetireTrims, Trim, RetireTally, RetireDone,
     StorageClosed, SessionEnds, ReauthSettles
<1>2. ASSUME NEW t \in Tabs, CallStep(t) \/ RefreshStep(t) \/ TimerFires(t)
                               \/ LifeStep(t)
      PROVE  Goal
  BY <1>2 DEF CallStep, RefreshStep, TimerFires, LifeStep, EnqueueCommit, EnqueueDone,
     RequeueCommit, RequeueTally, RequeueDone, DiscardCommit, DiscardDone,
     AnnounceArrives, RefreshTimerFires, RefreshUsage, RefreshCommit, RefreshEnds,
     StartRead, StartDone, Close
<1>3. ASSUME NEW t \in Tabs, Stimulus(t)
      PROVE  Goal
  BY <1>3 DEF Stimulus, Enqueue, RetryCall, DiscardCall, Flush, Stop, Crash,
     EnqueueFails, CallFails, SendFails, StorageFails, ReauthFails, ReauthEmpty,
     LateLogin, ExpireCredential
<1>4. ASSUME NEW f \in FutureWrites, \/ NewerAppends(f) \/ NewerSends(f)
                                     \/ NewerRemoves(f) \/ NewerRetires(f)
      PROVE  Goal
  BY <1>4 DEF NewerAppends, NewerRemoves, NewerRetires
<1>5. ASSUME (\E m \in late : LateArrives(m)) \/ Rest
      PROVE  Goal
  BY <1>5 DEF Rest
<1> HIDE DEF Goal
<1>6. Goal
  BY <1>1, <1>2, <1>3, <1>4, <1>5 DEF Next
<1> QED BY <1>6 DEF Goal

\* The engine forgets nothing.
LEMMA EffectsGrow ==
  ASSUME TypeInv, [Next]_vars
  PROVE  Effects \subseteq Effects'
<1> USE DEF TypeInv, TypeOK
<1>1. CASE UNCHANGED applied
  BY <1>1 DEF Effects
<1>2. ASSUME NEW t \in Tabs, EngineAccepts(t) \/ EngineRejects(t)
      PROVE  Effects \subseteq Effects'
  <2>1. req[t].id \in Ids
    BY <1>2 DEF EngineAccepts, EngineRejects, Handles, Request
  <2> QED BY <1>1, <1>2, <2>1, ApplyAdds DEF EngineAccepts, EngineRejects
<1>3. ASSUME NEW m \in late, LateArrives(m)
      PROVE  Effects \subseteq Effects'
  <2>1. m.id \in Ids
    BY DEF EngineTypes, Request
  <2> QED BY <1>1, <1>3, <2>1, ApplyAdds DEF LateArrives
<1>4. ASSUME NEW f \in FutureWrites, NewerSends(f)
      PROVE  Effects \subseteq Effects'
  BY <1>4, ApplyAdds DEF NewerSends, Ids
<1> QED BY <1>1, <1>2, <1>3, <1>4, EngineSteps DEF vars, engine

\* What any step does to the outbox: at most one record more, under the next
\* key.
LEMMA OutboxGrows ==
  ASSUME TypeInv, [Next]_vars
  PROVE  \/ outbox' \subseteq outbox /\ nextSeq' = nextSeq
         \/ /\ nextSeq' = nextSeq + 1
            /\ \E r \in Record : r.seq = nextSeq /\ outbox' = outbox \cup {r}
<1> USE DEF TypeInv, TypeOK, StoreTypes, store, vars
<1>1. CASE UNCHANGED store
  BY <1>1
<1>2. ASSUME NEW t \in Tabs, EnqueueCommit(t)
      PROVE  /\ nextSeq' = nextSeq + 1
             /\ \E r \in Record : r.seq = nextSeq /\ outbox' = outbox \cup {r}
  <2>1. PICK a \in adding[t] :
          /\ outbox' = outbox \cup {[seq |-> nextSeq, id |-> a.id, by |-> a.by]}
          /\ nextSeq' = nextSeq + 1
    BY <1>2 DEF EnqueueCommit
  <2>2. [seq |-> nextSeq, id |-> a.id, by |-> a.by] \in Record
    BY DEF CallTypes, Record, Ids
  <2> QED BY <2>1, <2>2
<1>3. ASSUME NEW t \in Tabs,
             RemoveCommit(t) \/ RetireCommit(t) \/ Trim(t) \/ DiscardCommit(t)
      PROVE  outbox' \subseteq outbox /\ nextSeq' = nextSeq
  BY <1>3 DEF RemoveCommit, RetireCommit, Trim, DiscardCommit
<1>4. ASSUME NEW t \in Tabs, RequeueCommit(t), ~UNCHANGED store
      PROVE  /\ nextSeq' = nextSeq + 1
             /\ \E r \in Record : r.seq = nextSeq /\ outbox' = outbox \cup {r}
  <2>1. PICK d \in dead : outbox' = outbox \cup {Requeued(d)} /\ nextSeq' = nextSeq + 1
    BY <1>4 DEF RequeueCommit
  <2>2. Requeued(d) \in Record /\ Requeued(d).seq = nextSeq
    BY DEF Requeued, Record
  <2> QED BY <2>1, <2>2
<1>5. ASSUME NEW f \in FutureWrites, NewerAppends(f)
      PROVE  /\ nextSeq' = nextSeq + 1
             /\ \E r \in Record : r.seq = nextSeq /\ outbox' = outbox \cup {r}
  <2>1. PICK p \in Principals :
          outbox' = outbox \cup {[seq |-> nextSeq, id |-> f, by |-> p]}
    BY <1>5 DEF NewerAppends
  <2>2. [seq |-> nextSeq, id |-> f, by |-> p] \in Record
    BY DEF Record, Ids
  <2> QED BY <1>5, <2>1, <2>2 DEF NewerAppends
<1>6. ASSUME NEW f \in FutureWrites, NewerRemoves(f) \/ NewerRetires(f)
      PROVE  outbox' \subseteq outbox /\ nextSeq' = nextSeq
  BY <1>6 DEF NewerRemoves, NewerRetires
<1> QED BY <1>1, <1>2, <1>3, <1>4, <1>5, <1>6, StoreSteps

\* A key is never used twice, and a drain loop remembers keys it has read.
LEMMA KeysStep ==
  ASSUME TypeInv, KeysInv, [Next]_vars
  PROVE  KeysInv'
<1> USE DEF TypeInv, TypeOK, StoreTypes
<1>1. /\ nextSeq \in Nat /\ nextSeq' \in Nat /\ nextSeq <= nextSeq'
      /\ \A r \in outbox' \ outbox : r.seq = nextSeq /\ nextSeq' = nextSeq + 1
      /\ \A r, s \in outbox' \ outbox : r = s
      /\ \A r \in outbox : r.seq \in Nat
  BY OutboxGrows DEF Record
<1>2. \A r \in outbox' : r.seq < nextSeq'
  BY <1>1 DEF KeysInv
<1>3. \A r, s \in outbox' : r.seq = s.seq => r = s
  BY <1>1 DEF KeysInv
<1>4. \A u \in Tabs : \/ cur'[u] = cur[u] \/ cur'[u] = NoRecord
                      \/ cur'[u] \in outbox /\ UNCHANGED store
  <2>1. ASSUME NEW t \in Tabs, ReadHead(t)
        PROVE  (cur'[t] = NoRecord \/ cur'[t] \in outbox) /\ UNCHANGED store
    BY <2>1, HeadIsLowest DEF ReadHead, DrainerTypes, Head0
  <2> QED BY <2>1, HoldSteps DEF HoldStep
<1>5. ASSUME NEW u \in Tabs, cur'[u] # NoRecord
      PROVE  /\ cur'[u].seq < nextSeq'
             /\ \A r \in outbox' : r.seq = cur'[u].seq => r = cur'[u]
  <2>1. CASE cur'[u] = cur[u]
    <3>1. cur[u].seq < nextSeq /\ cur[u].seq \in Nat
      BY <1>5, <2>1 DEF KeysInv, DrainerTypes, Record
    <3> QED BY <1>1, <1>5, <2>1, <3>1 DEF KeysInv
  <2>2. CASE cur'[u] \in outbox /\ UNCHANGED store
    BY <2>2 DEF KeysInv, store
  <2> QED BY <1>4, <1>5, <2>1, <2>2
<1> QED BY <1>2, <1>3, <1>5 DEF KeysInv

\* Only an acknowledged write is removed as delivered.
LEMMA RemoveStep ==
  ASSUME TypeInv, RemoveInv, [Next]_vars
  PROVE  RemoveInv'
<1> SUFFICES ASSUME NEW u \in Tabs, pc'[u] = "remove"
             PROVE  cur'[u].id \in Effects'
  BY DEF RemoveInv
<1>1. CASE pc[u] = "remove" /\ cur'[u] = cur[u]
  BY <1>1, EffectsGrow DEF RemoveInv
<1>2. CASE EngineAccepts(u) /\ cur'[u] = cur[u]
  <2>1. Apply(req[u].id) /\ req[u].id = cur[u].id /\ req[u].id \in Ids
    BY <1>2 DEF EngineAccepts, TypeInv, Handles, Request
  <2> QED BY <1>2, <2>1, ApplyAdds DEF TypeInv, TypeOK
<1> QED BY <1>1, <1>2, HoldSteps DEF HoldStep

\* Where a stored write is accounted for.
Accounted == IdsOf(outbox) \cup IdsOf(dead) \cup delivered \cup gone

\* No step loses sight of a write.
LEMMA AccountedStep ==
  ASSUME TypeInv, KeysInv, [Next]_vars
  PROVE  /\ Accounted \subseteq Accounted'
         /\ IdsOf(accepted)' \subseteq IdsOf(accepted) \cup IdsOf(outbox)'
<1> USE DEF Accounted, IdsOf, store, vars, history
<1>1. CASE UNCHANGED <<store, accepted, delivered, everDead, gone>>
  BY <1>1
<1>2. ASSUME NEW t \in Tabs, EnqueueCommit(t)
      PROVE  /\ Accounted \subseteq Accounted'
             /\ IdsOf(accepted)' \subseteq IdsOf(accepted) \cup IdsOf(outbox)'
  BY <1>2 DEF EnqueueCommit
<1>3. ASSUME NEW t \in Tabs, RemoveCommit(t) \/ RetireCommit(t)
      PROVE  Accounted \subseteq Accounted' /\ accepted' = accepted
  <2>1. cur[t] \in Record
    BY <1>3 DEF RemoveCommit, RetireCommit, TypeInv, Handles, Holding
  <2>2. \A r \in outbox : r.seq = cur[t].seq => r = cur[t]
    BY <2>1, NoRecordAssumption DEF KeysInv
  <2>3. CASE RemoveCommit(t)
    BY <2>2, <2>3 DEF RemoveCommit
  <2>4. CASE RetireCommit(t)
    BY <2>2, <2>4 DEF RetireCommit
  <2> QED BY <1>3, <2>3, <2>4
<1>4. ASSUME NEW t \in Tabs, Trim(t) \/ DiscardCommit(t)
      PROVE  Accounted \subseteq Accounted' /\ accepted' = accepted
  BY <1>4 DEF Trim, DiscardCommit
<1>5. ASSUME NEW t \in Tabs, RequeueCommit(t), ~UNCHANGED store
      PROVE  Accounted \subseteq Accounted' /\ accepted' = accepted
  <2>1. PICK d \in dead :
          /\ outbox' = outbox \cup {Requeued(d)} /\ dead' = dead \ {d}
          /\ UNCHANGED <<delivered, gone, accepted>>
    BY <1>5 DEF RequeueCommit
  <2>2. Requeued(d).id = d.id
    BY DEF Requeued, TypeInv, TypeOK, StoreTypes, Record
  <2> QED BY <2>1, <2>2
<1>6. ASSUME NEW f \in FutureWrites,
             NewerAppends(f) \/ NewerRemoves(f) \/ NewerRetires(f)
      PROVE  /\ Accounted \subseteq Accounted'
             /\ IdsOf(accepted)' \subseteq IdsOf(accepted) \cup IdsOf(outbox)'
  BY <1>6 DEF NewerAppends, NewerRemoves, NewerRetires
<1>7. ASSUME NEW t \in Tabs, RequeueCommit(t), UNCHANGED store
      PROVE  UNCHANGED <<store, accepted, delivered, everDead, gone>>
  BY <1>7 DEF RequeueCommit
<1> QED BY <1>1, <1>2, <1>3, <1>4, <1>5, <1>6, <1>7, StoreSteps

\* What is removed as delivered has taken effect.
LEMMA DeliveredStep ==
  ASSUME TypeInv, RemoveInv, delivered \subseteq Effects, [Next]_vars
  PROVE  delivered' \subseteq Effects'
<1>1. CASE UNCHANGED delivered
  BY <1>1, EffectsGrow
<1>2. ASSUME NEW t \in Tabs, RemoveCommit(t)
      PROVE  delivered' \subseteq Effects
  BY <1>2 DEF RemoveCommit, RemoveInv
<1>3. ASSUME NEW f \in FutureWrites, NewerRemoves(f)
      PROVE  delivered' \subseteq Effects
  BY <1>3 DEF NewerRemoves
<1>4. ASSUME NEW t \in Tabs,
             \/ EnqueueCommit(t) \/ RetireCommit(t) \/ Trim(t)
             \/ RequeueCommit(t) \/ DiscardCommit(t)
      PROVE  UNCHANGED delivered
  BY <1>4 DEF EnqueueCommit, RetireCommit, Trim, RequeueCommit, DiscardCommit,
     history
<1>5. ASSUME NEW f \in FutureWrites, NewerAppends(f) \/ NewerRetires(f)
      PROVE  UNCHANGED delivered
  BY <1>5 DEF NewerAppends, NewerRetires
<1> QED BY <1>1, <1>2, <1>3, <1>4, <1>5, StoreSteps, EffectsGrow
      DEF vars, history

\* LostInv is kept by every step.
LEMMA LostStep ==
  ASSUME TypeInv, LostInv, [Next]_vars
  PROVE  LostInv'
<1>1. KeysInv' /\ RemoveInv'
  BY KeysStep, RemoveStep DEF LostInv
<1>2. delivered' \subseteq Effects'
  BY DeliveredStep DEF LostInv, NoWriteLost
<1>3. IdsOf(accepted)' \subseteq Accounted'
  <2>1. IdsOf(accepted) \subseteq Accounted
    BY DEF LostInv, NoWriteLost, Accounted, IdsOf
  <2> QED BY <2>1, AccountedStep DEF LostInv, Accounted
<1>4. NoWriteLost'
  BY <1>2, <1>3 DEF NoWriteLost, Accounted, IdsOf
<1> QED BY <1>1, <1>4 DEF LostInv

\* LostInv is inductive, relative to TypeInv.
LEMMA LostInvariant == Spec => []LostInv
<1>1. Init => LostInv
  BY DEF Init, LostInv, KeysInv, RemoveInv, NoWriteLost
<1>2. TypeInv /\ LostInv /\ [Next]_vars => LostInv'
  BY LostStep
<1> QED BY <1>1, <1>2, TypeInvariant, PTL DEF Spec

\* No stored write is ever lost, with any tabs, writes, caps and faults, with
\* Web Locks or without: until the engine has it, it is stored somewhere, or was
\* evicted or discarded; and what was removed as delivered has taken effect.
THEOREM NothingLost == Spec => []NoWriteLost
<1>1. LostInv => NoWriteLost
  BY DEF LostInv
<1> QED BY <1>1, LostInvariant, PTL

-----------------------------------------------------------------------------
(* Strict FIFO, with Web Locks or without.                                 *)

\* A write is stored once: its localId is reserved by one enqueue() call until
\* that call's transaction commits, and then belongs to one record.
IdsInv ==
  /\ \A a, b \in accepted : a.id = b.id => a = b
  /\ \A t \in Tabs : \A a \in adding[t] : a.id \notin IdsOf(accepted)
  /\ \A t, u \in Tabs : \A a \in adding[t], b \in adding[u] :
       a.id = b.id => t = u /\ a = b

\* x is a stored write, under the key it was first given or a later one.
Stored(x) ==
  /\ x.id \in IdsOf(accepted)
  /\ \A b \in accepted : x.id = b.id => b.seq <= x.seq

\* So is whatever is in a store or held by a drain loop.
StoredInv ==
  /\ \A b \in accepted : b.seq < nextSeq
  /\ \A x \in outbox \cup dead : Stored(x)
  /\ \A t \in Tabs : cur[t] # NoRecord => Stored(cur[t])
  /\ \A m \in late : m.id \in IdsOf(accepted)
  /\ Effects \subseteq IdsOf(accepted)

\* A write that was never dead-lettered is where it was stored, or delivered.
WhereInv ==
  /\ IdsOf(dead) \subseteq everDead /\ gone \subseteq everDead
  /\ \A a \in accepted : a.id \notin everDead => a \in outbox \/ a.id \in delivered

\* Everything stored before w has taken effect, or was dead-lettered.
Ready(w) ==
  \A a, b \in accepted :
    b.id = w /\ a.seq < b.seq /\ a.id \notin everDead => a.id \in Effects

\* A drain loop holds, and sends, only what is ready: so is a request that
\* arrives after its sender gave it up.
ReadyInv ==
  /\ \A t \in Tabs : cur[t] # NoRecord => Ready(cur[t].id)
  /\ \A m \in late : Ready(m.id)

\* The inductive strengthening of StrictFifo, on top of LostInv.
FifoInv == IdsInv /\ StoredInv /\ WhereInv /\ ReadyInv /\ StrictFifo

\* The only step that reserves a localId.
LEMMA AddingSteps ==
  ASSUME TypeInv, [Next]_vars
  PROVE  \/ \A t \in Tabs : adding'[t] \subseteq adding[t]
         \/ \E t \in Tabs, w \in Writes : Enqueue(t, w)
<1> USE DEF TypeInv, TypeOK, CallTypes, calls
<1> DEFINE Kept == \A u \in Tabs : adding'[u] \subseteq adding[u]
<1>1. ASSUME NEW t \in Tabs, DrainStep(t)
      PROVE  UNCHANGED adding
  BY <1>1 DEF DrainStep, AcquireLock, LockBusy, SessionStopped, ReadHead,
     HeadEmpty, HeadBlocked, HeadRetires, HeadSend, EngineAccepts,
     EngineRejects, EngineUnauthenticated, RemoveCommit, RemoveDone,
     RetireCommit, RetireTrims, Trim, RetireTally, RetireDone, StorageClosed,
     SessionEnds, ReauthSettles
<1>2. ASSUME NEW t \in Tabs, CallStep(t)
      PROVE  Kept
  BY <1>2 DEF CallStep, EnqueueCommit, EnqueueDone, RequeueCommit,
     RequeueTally, RequeueDone, DiscardCommit, DiscardDone
<1>3. ASSUME NEW t \in Tabs, RefreshStep(t) \/ TimerFires(t)
      PROVE  UNCHANGED adding
  BY <1>3 DEF RefreshStep, AnnounceArrives, RefreshTimerFires, RefreshUsage,
     RefreshCommit, RefreshEnds, TimerFires
<1>4. ASSUME NEW t \in Tabs, LifeStep(t)
      PROVE  Kept
  BY <1>4 DEF LifeStep, StartRead, StartDone, Close, Forget
<1>5. ASSUME NEW t \in Tabs, Stimulus(t),
             \A w \in Writes : ~Enqueue(t, w)
      PROVE  Kept
  BY <1>5 DEF Stimulus, RetryCall, DiscardCall, Flush, Stop, Crash, Forget,
     EnqueueFails, CallFails, SendFails, StorageFails, ReauthFails,
     ReauthEmpty, LateLogin, ExpireCredential
<1>6. ASSUME NEW m \in late, LateArrives(m)
      PROVE  UNCHANGED adding
  BY <1>6 DEF LateArrives
<1>7. ASSUME NEW f \in FutureWrites,
             NewerAppends(f) \/ NewerSends(f) \/ NewerRemoves(f) \/ NewerRetires(f)
      PROVE  UNCHANGED adding
  BY <1>7 DEF NewerAppends, NewerSends, NewerRemoves, NewerRetires
<1>8. UNCHANGED adding => Kept
  OBVIOUS
<1>9. UNCHANGED vars => UNCHANGED adding
  BY DEF vars
<1> HIDE DEF Kept
<1>10. Kept \/ \E t \in Tabs, w \in Writes : Enqueue(t, w)
  BY <1>1, <1>2, <1>3, <1>4, <1>5, <1>6, <1>7, <1>8, <1>9 DEF Next, Rest
<1> QED BY <1>10 DEF Kept

\* A request is given up only while a drain loop waits for its answer.
LEMMA LateSteps ==
  ASSUME [Next]_vars
  PROVE  late' \subseteq late \cup {req[t] : t \in {u \in Tabs : pc[u] = "sending"}}
<1> USE DEF engine
<1> DEFINE Sent == {req[t] : t \in {u \in Tabs : pc[u] = "sending"}}
<1>1. ASSUME NEW t \in Tabs, DrainStep(t)
      PROVE  UNCHANGED late
  BY <1>1 DEF DrainStep, AcquireLock, LockBusy, SessionStopped, ReadHead,
     HeadEmpty, HeadBlocked, HeadRetires, HeadSend, EngineAccepts,
     EngineRejects, EngineUnauthenticated, RemoveCommit, RemoveDone,
     RetireCommit, RetireTrims, Trim, RetireTally, RetireDone, StorageClosed,
     SessionEnds, ReauthSettles
<1>2. ASSUME NEW t \in Tabs,
             CallStep(t) \/ RefreshStep(t) \/ TimerFires(t) \/ LifeStep(t)
      PROVE  UNCHANGED late
  BY <1>2 DEF CallStep, EnqueueCommit, EnqueueDone, RequeueCommit,
     RequeueTally, RequeueDone, DiscardCommit, DiscardDone, RefreshStep,
     AnnounceArrives, RefreshTimerFires, RefreshUsage, RefreshCommit,
     RefreshEnds, TimerFires, LifeStep, StartRead, StartDone, Close
<1>3. ASSUME NEW t \in Tabs, Stimulus(t)
      PROVE  late' \subseteq late \cup Sent
  BY <1>3 DEF Stimulus, Enqueue, RetryCall, DiscardCall, Flush, Stop, Crash,
     InFlight, EnqueueFails, CallFails, SendFails, StorageFails, ReauthFails,
     ReauthEmpty, LateLogin, ExpireCredential
<1>4. ASSUME NEW m \in late, LateArrives(m)
      PROVE  late' \subseteq late
  BY <1>4 DEF LateArrives
<1>5. ASSUME NEW f \in FutureWrites,
             NewerAppends(f) \/ NewerSends(f) \/ NewerRemoves(f) \/ NewerRetires(f)
      PROVE  UNCHANGED late
  BY <1>5 DEF NewerAppends, NewerSends, NewerRemoves, NewerRetires
<1> QED BY <1>1, <1>2, <1>3, <1>4, <1>5 DEF Next, Rest, vars

\* What any step adds to the stored writes: a record under the next key, whose
\* localId was reserved or is the newer build's.
LEMMA AcceptedSteps ==
  ASSUME TypeInv, IdsInv, [Next]_vars
  PROVE  \/ accepted' = accepted
         \/ \E r \in Record :
              /\ r.seq = nextSeq /\ nextSeq' = nextSeq + 1
              /\ r.id \notin IdsOf(accepted)
              /\ accepted' = accepted \cup {r} /\ outbox' = outbox \cup {r}
              /\ UNCHANGED <<dead, delivered, everDead, gone>>
              /\ \A t \in Tabs : \A a \in adding'[t] : a.id # r.id
<1> USE DEF TypeInv, TypeOK, StoreTypes, CallTypes, history, vars
<1>1. ASSUME NEW t \in Tabs, EnqueueCommit(t)
      PROVE  \E r \in Record :
              /\ r.seq = nextSeq /\ nextSeq' = nextSeq + 1
              /\ r.id \notin IdsOf(accepted)
              /\ accepted' = accepted \cup {r} /\ outbox' = outbox \cup {r}
              /\ UNCHANGED <<dead, delivered, everDead, gone>>
              /\ \A u \in Tabs : \A a \in adding'[u] : a.id # r.id
  <2>1. PICK b \in adding[t] :
          /\ outbox' = outbox \cup {[seq |-> nextSeq, id |-> b.id, by |-> b.by]}
          /\ accepted' = accepted \cup {[seq |-> nextSeq, id |-> b.id, by |-> b.by]}
          /\ nextSeq' = nextSeq + 1
          /\ adding' = [adding EXCEPT ![t] = @ \ {b}]
          /\ UNCHANGED <<dead, delivered, everDead, gone>>
    BY <1>1 DEF EnqueueCommit
  <2> DEFINE r == [seq |-> nextSeq, id |-> b.id, by |-> b.by]
  <2>2. r \in Record /\ r.seq = nextSeq /\ r.id = b.id
    BY DEF Record, Ids
  <2>3. b.id \notin IdsOf(accepted)
    BY DEF IdsInv
  <2>4. ASSUME NEW u \in Tabs, NEW a \in adding'[u]
        PROVE  a.id # b.id
    <3>1. a \in adding[u] /\ ~(u = t /\ a = b)
      BY <2>1, <2>4
    <3> QED BY <3>1 DEF IdsInv
  <2> HIDE DEF r
  <2> QED BY <2>1, <2>2, <2>3, <2>4 DEF r
<1>2. ASSUME NEW f \in FutureWrites, NewerAppends(f)
      PROVE  \E r \in Record :
              /\ r.seq = nextSeq /\ nextSeq' = nextSeq + 1
              /\ r.id \notin IdsOf(accepted)
              /\ accepted' = accepted \cup {r} /\ outbox' = outbox \cup {r}
              /\ UNCHANGED <<dead, delivered, everDead, gone>>
              /\ \A u \in Tabs : \A a \in adding'[u] : a.id # r.id
  <2>1. PICK p \in Principals :
          /\ outbox' = outbox \cup {[seq |-> nextSeq, id |-> f, by |-> p]}
          /\ accepted' = accepted \cup {[seq |-> nextSeq, id |-> f, by |-> p]}
    BY <1>2 DEF NewerAppends
  <2> DEFINE r == [seq |-> nextSeq, id |-> f, by |-> p]
  <2>2. r \in Record /\ r.seq = nextSeq /\ r.id = f
    BY DEF Record, Ids
  <2>3. \A u \in Tabs : \A a \in adding'[u] : a.id # f
    BY <1>2, QueueAssumption DEF NewerAppends, calls
  <2> HIDE DEF r
  <2>4. /\ f \notin IdsOf(accepted) /\ nextSeq' = nextSeq + 1
        /\ UNCHANGED <<dead, delivered, everDead, gone>>
    BY <1>2 DEF NewerAppends
  <2> QED BY <2>1, <2>2, <2>3, <2>4 DEF r
<1>3. ASSUME NEW t \in Tabs,
             \/ RemoveCommit(t) \/ RetireCommit(t) \/ Trim(t)
             \/ RequeueCommit(t) \/ DiscardCommit(t)
      PROVE  accepted' = accepted
  BY <1>3 DEF RemoveCommit, RetireCommit, Trim, RequeueCommit, DiscardCommit
<1>4. ASSUME NEW f \in FutureWrites, NewerRemoves(f) \/ NewerRetires(f)
      PROVE  accepted' = accepted
  BY <1>4 DEF NewerRemoves, NewerRetires
<1> QED BY <1>1, <1>2, <1>3, <1>4, StoreSteps

\* A localId is never stored twice.
LEMMA IdsStep ==
  ASSUME TypeInv, IdsInv, [Next]_vars
  PROVE  IdsInv'
<1>1. CASE accepted' = accepted /\ \A t \in Tabs : adding'[t] \subseteq adding[t]
  BY <1>1 DEF IdsInv, IdsOf
<1>2. ASSUME NEW t \in Tabs, NEW w \in Writes, Enqueue(t, w)
      PROVE  IdsInv'
  <2>1. /\ w \notin IdsOf(accepted) /\ \A u \in Tabs : w \notin IdsOf(adding[u])
        /\ adding' = [adding EXCEPT ![t] = @ \cup {[id |-> w, by |-> who[t]]}]
        /\ UNCHANGED accepted
    BY <1>2 DEF Enqueue, history
  <2>2. \A u \in Tabs : adding'[u] = IF u = t THEN adding[t] \cup {[id |-> w, by |-> who[t]]}
                                     ELSE adding[u]
    BY <2>1 DEF TypeInv, TypeOK, CallTypes
  <2> QED BY <2>1, <2>2 DEF IdsInv, IdsOf
<1>3. CASE /\ accepted' # accepted
           /\ \A t \in Tabs : adding'[t] \subseteq adding[t]
  <2>1. PICK r \in Record :
              /\ r.id \notin IdsOf(accepted) /\ accepted' = accepted \cup {r}
              /\ \A t \in Tabs : \A a \in adding'[t] : a.id # r.id
    BY <1>3, AcceptedSteps
  <2> QED BY <1>3, <2>1 DEF IdsInv, IdsOf
<1> QED BY <1>1, <1>2, <1>3, AddingSteps

\* The dead letters hold only records that were in a store or a drain loop.
LEMMA DeadGrows ==
  ASSUME TypeInv, [Next]_vars
  PROVE  \A d \in dead' \ dead : \/ d \in outbox
                                 \/ \E t \in Tabs : cur[t] = d /\ d \in Record
<1> USE DEF TypeInv, TypeOK, StoreTypes, store, vars
<1>1. CASE UNCHANGED store
  BY <1>1
<1>2. ASSUME NEW t \in Tabs, EnqueueCommit(t) \/ RemoveCommit(t) \/ Trim(t)
                               \/ RequeueCommit(t) \/ DiscardCommit(t)
      PROVE  dead' \subseteq dead
  BY <1>2 DEF EnqueueCommit, RemoveCommit, Trim, RequeueCommit, DiscardCommit
<1>3. ASSUME NEW t \in Tabs, RetireCommit(t)
      PROVE  dead' \subseteq dead \cup {cur[t]} /\ cur[t] \in Record
  BY <1>3 DEF RetireCommit, Handles, Holding
<1>4. ASSUME NEW f \in FutureWrites, NewerAppends(f) \/ NewerRemoves(f)
      PROVE  dead' \subseteq dead
  BY <1>4 DEF NewerAppends, NewerRemoves
<1>5. ASSUME NEW f \in FutureWrites, NewerRetires(f)
      PROVE  dead' \subseteq dead \cup {Head0} /\ Head0 \in outbox
  BY <1>5, HeadIsLowest DEF NewerRetires, Head0
<1> QED BY <1>1, <1>2, <1>3, <1>4, <1>5, StoreSteps

\* A new record of the outbox is a new write, or a dead letter requeued.
LEMMA OutboxNew ==
  ASSUME TypeInv, [Next]_vars, NEW x \in outbox' \ outbox
  PROVE  /\ x.seq = nextSeq /\ nextSeq' = nextSeq + 1
         /\ x \in accepted' \/ x.id \in IdsOf(dead)
<1> USE DEF TypeInv, TypeOK, StoreTypes, store, vars
<1>1. CASE UNCHANGED store
  BY <1>1
<1>2. ASSUME NEW t \in Tabs, EnqueueCommit(t)
      PROVE  x.seq = nextSeq /\ nextSeq' = nextSeq + 1 /\ x \in accepted'
  BY <1>2 DEF EnqueueCommit
<1>3. ASSUME NEW t \in Tabs,
             RemoveCommit(t) \/ RetireCommit(t) \/ Trim(t) \/ DiscardCommit(t)
      PROVE  FALSE
  BY <1>3 DEF RemoveCommit, RetireCommit, Trim, DiscardCommit
<1>4. ASSUME NEW t \in Tabs, RequeueCommit(t), ~UNCHANGED store
      PROVE  x.seq = nextSeq /\ nextSeq' = nextSeq + 1 /\ x.id \in IdsOf(dead)
  <2>1. PICK d \in dead : outbox' = outbox \cup {Requeued(d)} /\ nextSeq' = nextSeq + 1
    BY <1>4 DEF RequeueCommit
  <2>2. Requeued(d).id = d.id /\ Requeued(d).seq = nextSeq
    BY DEF Requeued, Record
  <2> QED BY <2>1, <2>2 DEF IdsOf
<1>5. ASSUME NEW f \in FutureWrites, NewerAppends(f)
      PROVE  x.seq = nextSeq /\ nextSeq' = nextSeq + 1 /\ x \in accepted'
  BY <1>5 DEF NewerAppends
<1>6. ASSUME NEW f \in FutureWrites, NewerRemoves(f) \/ NewerRetires(f)
      PROVE  FALSE
  BY <1>6 DEF NewerRemoves, NewerRetires
<1> QED BY <1>1, <1>2, <1>3, <1>4, <1>5, <1>6, StoreSteps

\* What the engine may apply in a step: what a drain loop sent, what arrives
\* late, or the head, when the newer build sends it.
LEMMA AppliedSteps ==
  ASSUME TypeInv, [Next]_vars
  PROVE  \/ applied' = applied
         \/ \E w \in Ids :
              /\ Apply(w) /\ UNCHANGED <<store, history>>
              /\ \/ \E t \in Tabs :
                      pc[t] = "sending" /\ cur[t] \in Record /\ w = cur[t].id
                 \/ \E m \in late : w = m.id
                 \/ outbox # {} /\ w = Head0.id
<1> USE DEF TypeInv, TypeOK
<1>1. ASSUME NEW t \in Tabs, EngineAccepts(t) \/ EngineRejects(t)
      PROVE  \/ applied' = applied
             \/ /\ Apply(req[t].id) /\ req[t].id = cur[t].id
                /\ req[t].id \in Ids /\ cur[t] \in Record
                /\ pc[t] = "sending" /\ UNCHANGED <<store, history>>
  BY <1>1 DEF EngineAccepts, EngineRejects, Handles, Holding, Request
<1>2. ASSUME NEW m \in late, LateArrives(m)
      PROVE  \/ applied' = applied
             \/ Apply(m.id) /\ m.id \in Ids /\ UNCHANGED <<store, history>>
  BY <1>2 DEF LateArrives, EngineTypes, Request
<1>3. ASSUME NEW f \in FutureWrites, NewerSends(f)
      PROVE  /\ Apply(f) /\ f \in Ids /\ outbox # {} /\ f = Head0.id
             /\ UNCHANGED <<store, history>>
  BY <1>3 DEF NewerSends, Head0, Ids
<1> QED BY <1>1, <1>2, <1>3, EngineSteps DEF vars, engine

\* What a drain loop holds after a step: what it held, nothing, or the head.
LEMMA HeldSteps ==
  ASSUME TypeInv, [Next]_vars, NEW u \in Tabs, cur'[u] # NoRecord
  PROVE  \/ cur'[u] = cur[u]
         \/ outbox # {} /\ cur'[u] = Head0
<1>1. ASSUME NEW t \in Tabs, ReadHead(t)
      PROVE  cur'[t] = NoRecord \/ (outbox # {} /\ cur'[t] = Head0)
  BY <1>1 DEF ReadHead, TypeInv, TypeOK, DrainerTypes, Head0
<1> QED BY <1>1, HoldSteps DEF HoldStep

\* The head is ready: what was stored before it is no longer stored.
LEMMA HeadIsReady ==
  ASSUME TypeInv, LostInv, StoredInv, WhereInv, outbox # {}
  PROVE  Ready(Head0.id)
<1> USE DEF TypeInv, TypeOK, StoreTypes, HistoryTypes, Record
<1>1. Head0 \in outbox /\ \A s \in outbox : Head0.seq <= s.seq
  BY HeadIsLowest
<1>2. SUFFICES ASSUME NEW a \in accepted, NEW b \in accepted, b.id = Head0.id,
                      a.seq < b.seq, a.id \notin everDead
               PROVE  a.id \in Effects
  BY DEF Ready
<1>3. b.seq <= Head0.seq
  BY <1>1, <1>2 DEF StoredInv, Stored
<1>4. a.seq \in Nat /\ b.seq \in Nat /\ Head0.seq \in Nat
  BY <1>1
<1>5. a \notin outbox
  BY <1>1, <1>2, <1>3, <1>4
<1>6. a.id \in delivered
  BY <1>2, <1>5 DEF WhereInv
<1> QED BY <1>6 DEF LostInv, NoWriteLost

\* What the engine applies in a step is a stored write that is ready.
LEMMA AppliedIsReady ==
  ASSUME TypeInv, LostInv, StoredInv, WhereInv, ReadyInv, [Next]_vars,
         applied' # applied
  PROVE  \E w \in Ids : Apply(w) /\ Ready(w) /\ w \in IdsOf(accepted)
<1>1. PICK w \in Ids :
              /\ Apply(w)
              /\ \/ \E t \in Tabs : cur[t] \in Record /\ w = cur[t].id
                 \/ \E m \in late : w = m.id
                 \/ outbox # {} /\ w = Head0.id
  BY AppliedSteps
<1>2. ASSUME NEW t \in Tabs, cur[t] \in Record
      PROVE  Ready(cur[t].id) /\ cur[t].id \in IdsOf(accepted)
  BY <1>2, NoRecordAssumption DEF ReadyInv, StoredInv, Stored
<1>3. ASSUME NEW m \in late
      PROVE  Ready(m.id) /\ m.id \in IdsOf(accepted)
  BY DEF ReadyInv, StoredInv
<1>4. CASE outbox # {}
  <2>1. Ready(Head0.id) /\ Head0.id \in IdsOf(accepted)
    BY <1>4, HeadIsReady, HeadIsLowest
       DEF StoredInv, Stored, TypeInv, TypeOK
  <2> QED BY <1>1, <1>2, <1>3, <2>1
<1> QED BY <1>1, <1>2, <1>3, <1>4

\* The keys and localIds of the stored records stay those of stored writes.
LEMMA StoredStep ==
  ASSUME TypeInv, LostInv, FifoInv, [Next]_vars
  PROVE  StoredInv'
<1> USE DEF FifoInv
<1>1. /\ nextSeq \in Nat /\ nextSeq' \in Nat /\ nextSeq <= nextSeq'
      /\ \A b \in accepted : b.seq \in Nat
  BY OutboxGrows DEF TypeInv, TypeOK, StoreTypes, HistoryTypes, Record
<1>2. IdsOf(accepted) \subseteq IdsOf(accepted)'
  BY AcceptedSteps DEF IdsOf
<1>3. \A b \in accepted' : b.seq \in Nat /\ b.seq < nextSeq'
  BY <1>1, AcceptedSteps DEF StoredInv
<1>4. ASSUME NEW x, Stored(x)
      PROVE  Stored(x)'
  BY <1>2, <1>4, AcceptedSteps DEF Stored, IdsOf
<1>5. ASSUME NEW x \in outbox'
      PROVE  Stored(x)'
  <2>1. CASE x \in outbox
    BY <1>4, <2>1 DEF StoredInv
  <2>2. CASE x \notin outbox
    <3>1. /\ x.seq = nextSeq /\ nextSeq' = nextSeq + 1
          /\ x \in accepted' \/ x.id \in IdsOf(dead)
      BY <2>2, OutboxNew
    <3>2. IdsOf(dead) \subseteq IdsOf(accepted)
      BY DEF StoredInv, Stored, IdsOf
    <3>3. x.id \in IdsOf(accepted)'
      BY <1>2, <3>1, <3>2 DEF IdsOf
    <3>4. \A b \in accepted' : b.seq <= x.seq
      BY <1>1, <1>3, <3>1
    <3> QED BY <3>3, <3>4 DEF Stored
  <2> QED BY <2>1, <2>2
<1>6. ASSUME NEW t \in Tabs, cur[t] \in Record
      PROVE  Stored(cur[t])
  BY <1>6, NoRecordAssumption DEF StoredInv
<1>7. ASSUME NEW x \in dead'
      PROVE  Stored(x)'
  <2>1. CASE x \in dead \/ x \in outbox
    BY <1>4, <2>1 DEF StoredInv
  <2>2. ASSUME NEW t \in Tabs, cur[t] = x, x \in Record
        PROVE  Stored(x)'
    BY <1>4, <1>6, <2>2
  <2> QED BY <2>1, <2>2, DeadGrows
<1>8. ASSUME NEW t \in Tabs, cur'[t] # NoRecord
      PROVE  Stored(cur[t])'
  <2>1. CASE cur'[t] = cur[t]
    BY <1>4, <1>8, <2>1 DEF StoredInv, Stored
  <2>2. CASE outbox # {} /\ cur'[t] = Head0
    <3>1. Head0 \in outbox
      BY <2>2, HeadIsLowest DEF TypeInv, TypeOK
    <3> QED BY <1>4, <2>2, <3>1 DEF StoredInv, Stored
  <2> QED BY <1>8, <2>1, <2>2, HeldSteps
<1>9. ASSUME NEW m \in late'
      PROVE  m.id \in IdsOf(accepted)'
  <2>1. CASE m \in late
    BY <1>2, <2>1 DEF StoredInv
  <2>2. ASSUME NEW t \in Tabs, pc[t] = "sending", m = req[t]
        PROVE  m.id \in IdsOf(accepted)'
    <3>1. m.id = cur[t].id /\ cur[t] \in Record
      BY <2>2 DEF TypeInv, Handles, Holding
    <3> QED BY <1>2, <1>6, <3>1 DEF Stored
  <2> QED BY <2>1, <2>2, LateSteps
<1>10. Effects' \subseteq IdsOf(accepted)'
  <2>1. CASE applied' = applied
    BY <1>2, <2>1 DEF StoredInv, Effects
  <2>2. CASE applied' # applied
    BY <1>2, <2>2, AppliedIsReady, ApplyAdds DEF StoredInv, TypeInv, TypeOK
  <2> QED BY <2>1, <2>2
<1> QED BY <1>3, <1>5, <1>7, <1>8, <1>9, <1>10 DEF StoredInv

\* A write leaves its place only as delivered or dead-lettered.
LEMMA WhereStep ==
  ASSUME TypeInv, KeysInv, WhereInv, [Next]_vars
  PROVE  WhereInv' /\ everDead \subseteq everDead'
<1> USE DEF WhereInv, IdsOf, store
<1>1. CASE UNCHANGED <<store, accepted, delivered, everDead, gone>>
  BY <1>1
<1>2. ASSUME NEW t \in Tabs, EnqueueCommit(t)
      PROVE  WhereInv' /\ everDead \subseteq everDead'
  BY <1>2 DEF EnqueueCommit
<1>3. ASSUME NEW t \in Tabs, RemoveCommit(t) \/ RetireCommit(t)
      PROVE  WhereInv' /\ everDead \subseteq everDead'
  <2>1. cur[t] \in Record
    BY <1>3 DEF RemoveCommit, RetireCommit, TypeInv, Handles, Holding
  <2>2. \A r \in outbox : r.seq = cur[t].seq => r = cur[t]
    BY <2>1, NoRecordAssumption DEF KeysInv
  <2>3. CASE RemoveCommit(t)
    BY <2>2, <2>3 DEF RemoveCommit
  <2>4. CASE RetireCommit(t)
    BY <2>2, <2>4 DEF RetireCommit
  <2> QED BY <1>3, <2>3, <2>4
<1>4. ASSUME NEW t \in Tabs, Trim(t)
      PROVE  WhereInv' /\ everDead \subseteq everDead'
  <2>1. Excess \subseteq dead
    BY DEF Excess
  <2> QED BY <1>4, <2>1 DEF Trim
<1>5. ASSUME NEW t \in Tabs, DiscardCommit(t)
      PROVE  WhereInv' /\ everDead \subseteq everDead'
  BY <1>5 DEF DiscardCommit
<1>6. ASSUME NEW t \in Tabs, RequeueCommit(t)
      PROVE  WhereInv' /\ everDead \subseteq everDead'
  <2>1. /\ outbox \subseteq outbox' /\ dead' \subseteq dead
        /\ UNCHANGED <<accepted, delivered, everDead, gone>>
    BY <1>6 DEF RequeueCommit, history
  <2> QED BY <2>1
<1>7. ASSUME NEW f \in FutureWrites,
             NewerAppends(f) \/ NewerRemoves(f) \/ NewerRetires(f)
      PROVE  WhereInv' /\ everDead \subseteq everDead'
  BY <1>7 DEF NewerAppends, NewerRemoves, NewerRetires
<1> QED BY <1>1, <1>2, <1>3, <1>4, <1>5, <1>6, <1>7, StoreSteps DEF vars, history

\* What is ready stays so.
LEMMA ReadyStep ==
  ASSUME TypeInv, LostInv, FifoInv, [Next]_vars
  PROVE  ReadyInv'
<1> USE DEF FifoInv
<1>1. /\ \A b \in accepted : b.seq \in Nat /\ b.seq < nextSeq
      /\ nextSeq \in Nat
  BY DEF TypeInv, TypeOK, StoreTypes, HistoryTypes, Record, StoredInv
<1>2. everDead \subseteq everDead' /\ Effects \subseteq Effects'
  BY WhereStep, EffectsGrow DEF LostInv
<1>3. ASSUME NEW w \in IdsOf(accepted), Ready(w)
      PROVE  Ready(w)'
  <2> SUFFICES ASSUME NEW a \in accepted', NEW b \in accepted', b.id = w,
                      a.seq < b.seq, a.id \notin everDead'
               PROVE  a.id \in Effects'
    BY DEF Ready
  <2>1. b \in accepted
    BY AcceptedSteps, <1>3 DEF IdsInv, IdsOf
  <2>2. a \in accepted
    BY AcceptedSteps, <1>1, <2>1
  <2> QED BY <1>2, <1>3, <2>1, <2>2 DEF Ready
<1>4. ASSUME NEW t \in Tabs, cur'[t] # NoRecord
      PROVE  Ready(cur[t].id)'
  <2>1. CASE cur'[t] = cur[t]
    BY <1>3, <1>4, <2>1 DEF StoredInv, Stored, ReadyInv, Ready
  <2>2. CASE outbox # {} /\ cur'[t] = Head0
    <3>1. Head0 \in outbox /\ Ready(Head0.id)
      BY <2>2, HeadIsLowest, HeadIsReady DEF TypeInv, TypeOK
    <3>2. Head0.id \in IdsOf(accepted)
      BY <3>1 DEF StoredInv, Stored
    <3> QED BY <1>3, <2>2, <3>1, <3>2 DEF Ready
  <2> QED BY <1>4, <2>1, <2>2, HeldSteps
<1>5. ASSUME NEW m \in late'
      PROVE  Ready(m.id)'
  <2>1. CASE m \in late
    BY <1>3, <2>1 DEF StoredInv, ReadyInv
  <2>2. ASSUME NEW t \in Tabs, pc[t] = "sending", m = req[t]
        PROVE  Ready(m.id)'
    <3>1. m.id = cur[t].id /\ cur[t] # NoRecord
      BY <2>2, NoRecordAssumption DEF TypeInv, Handles, Holding
    <3> QED BY <1>3, <3>1 DEF StoredInv, Stored, ReadyInv
  <2> QED BY <2>1, <2>2, LateSteps
<1> QED BY <1>4, <1>5 DEF ReadyInv

\* A write that takes effect comes after all that was stored before it.
LEMMA FifoStep ==
  ASSUME TypeInv, LostInv, FifoInv, [Next]_vars
  PROVE  StrictFifo'
<1> USE DEF FifoInv
<1>1. SUFFICES ASSUME NEW a \in accepted', NEW b \in accepted',
                      a.seq < b.seq, b.id \in Effects', a.id \notin everDead'
               PROVE  \E i, j \in 1 .. Len(applied') :
                        i < j /\ applied'[i] = a.id /\ applied'[j] = b.id
  BY DEF StrictFifo
<1>2. /\ \A r \in accepted : r.seq \in Nat /\ r.seq < nextSeq
      /\ nextSeq \in Nat
  BY DEF TypeInv, TypeOK, StoreTypes, HistoryTypes, Record, StoredInv
<1>3. a.id \notin everDead
  BY <1>1, WhereStep DEF LostInv
<1>4. CASE applied' = applied
  <2>1. b.id \in Effects
    BY <1>1, <1>4 DEF Effects
  <2>2. b \in accepted
    BY <2>1, AcceptedSteps DEF StoredInv, IdsOf
  <2>3. a \in accepted
    BY <1>1, <1>2, <2>2, AcceptedSteps
  <2> QED BY <1>1, <1>3, <1>4, <2>1, <2>2, <2>3 DEF StrictFifo
<1>5. CASE applied' # applied
  <2>1. PICK w \in Ids : Apply(w) /\ Ready(w) /\ w \in IdsOf(accepted)
    BY <1>5, AppliedIsReady
  <2>2. /\ applied' = Append(applied, w) /\ applied \in Seq(Ids)
        /\ Effects' = Effects \cup {w}
    BY <1>5, <2>1, ApplyAdds DEF Apply, TypeInv, TypeOK, EngineTypes
  <2>3. /\ Len(applied) \in Nat /\ Len(applied') = Len(applied) + 1
        /\ applied'[Len(applied) + 1] = w
        /\ \A i \in 1 .. Len(applied) : applied'[i] = applied[i]
    BY <2>2
  <2>4. b \in accepted
    BY <1>1, <2>1, <2>2, AcceptedSteps DEF StoredInv, IdsOf
  <2>5. a \in accepted
    BY <1>1, <1>2, <2>4, AcceptedSteps
  <2>6. CASE b.id \in Effects
    <3>1. PICK i, j \in 1 .. Len(applied) :
            i < j /\ applied[i] = a.id /\ applied[j] = b.id
      BY <1>1, <1>3, <2>4, <2>5, <2>6 DEF StrictFifo
    <3>2. i \in 1 .. Len(applied') /\ j \in 1 .. Len(applied')
      BY <2>3
    <3> QED BY <2>3, <3>1, <3>2
  <2>7. CASE b.id \notin Effects
    <3>1. b.id = w
      BY <1>1, <2>2, <2>7
    <3>2. a.id \in Effects
      BY <1>1, <1>3, <2>1, <2>4, <2>5, <3>1 DEF Ready
    <3>3. PICK i \in 1 .. Len(applied) : applied[i] = a.id
      BY <3>2 DEF Effects
    <3>4. i \in 1 .. Len(applied') /\ Len(applied') \in 1 .. Len(applied')
          /\ i < Len(applied')
      BY <2>3
    <3> QED BY <2>3, <3>1, <3>3, <3>4
  <2> QED BY <2>6, <2>7
<1> QED BY <1>4, <1>5

\* FifoInv holds at the start, when nothing is stored.
LEMMA FifoInit == Init => FifoInv
<1> SUFFICES ASSUME Init PROVE FifoInv
  OBVIOUS
<1>1. Effects = {} /\ IdsOf({}) = {}
  BY DEF Init, Effects, IdsOf
<1> QED BY <1>1 DEF Init, FifoInv, IdsInv, StoredInv, WhereInv, ReadyInv,
           StrictFifo

\* FifoInv is kept by every step.
LEMMA FifoInvStep ==
  ASSUME TypeInv, LostInv, FifoInv, [Next]_vars
  PROVE  FifoInv'
BY IdsStep, StoredStep, WhereStep, ReadyStep, FifoStep DEF FifoInv, LostInv

\* Writes take effect in the order they were stored, with any tabs, writes,
\* caps and faults, with Web Locks or without: whatever two drain loops, late
\* requests, crashes, retries and a newer build do, only a write that was
\* dead-lettered is overtaken.
THEOREM EffectsInOrder == Spec => []StrictFifo
<1>1. Init => FifoInv
  BY FifoInit
<1>2. TypeInv /\ LostInv /\ FifoInv /\ [Next]_vars => FifoInv'
  BY FifoInvStep
<1>3. FifoInv => StrictFifo
  BY DEF FifoInv
<1> QED BY <1>1, <1>2, <1>3, TypeInvariant, LostInvariant, PTL DEF Spec

-----------------------------------------------------------------------------
(* Only the owner's credential carries a write.                            *)

\* What the client sends with is the credential of the identity the queue is
\* bound to, or an expired one.  The identity alone changes only in a login
\* that sets no credential, which a 401 to an expired one led to.
CredInv ==
  \A t \in Tabs :
    /\ ~prompt[t]
    /\ cred[t] \in {who[t], Expired}
    /\ pc[t] \in {"endAuth", "reauth"} => cred[t] = Expired
    /\ pc[t] = "sending" /\ req[t].as = Expired => cred[t] = Expired

\* No step of a drain loop parts the credential from the identity ...
LEMMA DrainStepCred ==
  ASSUME TypeInv, CredInv, NEW t \in Tabs, DrainStep(t)
  PROVE  CredInv'
<1> USE DEF TypeInv, TypeOK, DrainerTypes, AuthTypes, CredInv, Goto, auth
<1>1. CASE AcquireLock(t) \/ LockBusy(t) \/ SessionStopped(t)
  BY <1>1 DEF AcquireLock, LockBusy, SessionStopped, Leave
<1>2. CASE ReadHead(t) \/ HeadEmpty(t) \/ HeadBlocked(t)
  BY <1>2 DEF ReadHead, HeadEmpty, HeadBlocked
<1>3. CASE HeadSend(t)
  BY <1>3 DEF HeadSend
<1>4. CASE HeadRetires(t) \/ EngineRejects(t) \/ StorageClosed(t)
  BY <1>4 DEF HeadRetires, EngineRejects, StorageClosed, Retire, DrainThrows,
     Leave
<1>5. CASE EngineAccepts(t)
  BY <1>5 DEF EngineAccepts
<1>6. CASE EngineUnauthenticated(t)
  BY <1>6 DEF EngineUnauthenticated
<1>7. CASE RemoveCommit(t) \/ RemoveDone(t)
  BY <1>7 DEF RemoveCommit, RemoveDone
<1>8. CASE RetireCommit(t) \/ RetireTrims(t) \/ Trim(t) \/ RetireTally(t)
             \/ RetireDone(t)
  BY <1>8 DEF RetireCommit, RetireTrims, Trim, RetireTally, RetireDone
<1>9. CASE SessionEnds(t)
  BY <1>9 DEF SessionEnds, Leave, Ends
<1>10. CASE ReauthSettles(t)
  BY <1>10 DEF ReauthSettles
<1> QED BY <1>1, <1>2, <1>3, <1>4, <1>5, <1>6, <1>7, <1>8, <1>9, <1>10
        DEF DrainStep

\* ... nor does a call, a refresh pass, a timer or start() ...
LEMMA OtherCred ==
  ASSUME TypeInv, CredInv, NEW t \in Tabs,
         CallStep(t) \/ RefreshStep(t) \/ TimerFires(t) \/ LifeStep(t)
  PROVE  CredInv'
<1> USE DEF TypeInv, TypeOK, DrainerTypes, AuthTypes, FlagTypes, CredInv, Goto,
       auth, drainer, DrainCall
<1>1. CASE CallStep(t)
  BY <1>1 DEF CallStep, EnqueueCommit, EnqueueDone, RequeueCommit,
     RequeueTally, RequeueDone, DiscardCommit, DiscardDone
<1>2. CASE RefreshStep(t)
  BY <1>2 DEF RefreshStep, AnnounceArrives, RefreshTimerFires, RefreshUsage,
     RefreshCommit, RefreshEnds
<1>3. CASE TimerFires(t)
  BY <1>3 DEF TimerFires
<1>4. CASE StartRead(t)
  BY <1>4 DEF StartRead, Forget, Handles
<1>5. CASE StartDone(t) \/ Close(t)
  BY <1>5 DEF StartDone, Close
<1> QED BY <1>1, <1>2, <1>3, <1>4, <1>5 DEF LifeStep

\* ... nor anything else, while no abandoned login may settle.
LEMMA StimulusCred ==
  ASSUME TypeInv, CredInv, LateLogins = FALSE, NEW t \in Tabs, Stimulus(t)
  PROVE  CredInv'
<1> USE DEF TypeInv, TypeOK, DrainerTypes, AuthTypes, FlagTypes, CredInv, Goto,
       auth, drainer, DrainCall
<1>1. ASSUME NEW w \in Ids, Enqueue(t, w) \/ RetryCall(t, w) \/ DiscardCall(t, w)
      PROVE  CredInv'
  BY <1>1 DEF Enqueue, RetryCall, DiscardCall
<1>2. CASE Flush(t) \/ Stop(t)
  BY <1>2 DEF Flush, Stop
<1>3. CASE Crash(t)
  BY <1>3 DEF Crash, Forget
<1>4. CASE EnqueueFails(t) \/ CallFails(t) \/ SendFails(t)
  BY <1>4 DEF EnqueueFails, CallFails, SendFails
<1>5. CASE StorageFails(t)
  BY <1>5 DEF StorageFails, DrainThrows, Leave
<1>6. CASE ReauthFails(t)
  BY <1>6 DEF ReauthFails, Leave
<1>7. CASE ReauthEmpty(t)
  BY <1>7 DEF ReauthEmpty
<1>8. CASE LateLogin(t) \/ ExpireCredential(t)
  BY <1>8 DEF LateLogin, ExpireCredential
<1> QED BY <1>1, <1>2, <1>3, <1>4, <1>5, <1>6, <1>7, <1>8 DEF Stimulus, Ids

\* CredInv is kept by every step.
LEMMA CredStep ==
  ASSUME TypeInv, CredInv, LateLogins = FALSE, [Next]_vars
  PROVE  CredInv'
<1> USE DEF CredInv, drainer, auth
<1>1. ASSUME NEW m \in late, LateArrives(m)
      PROVE  CredInv'
  BY <1>1 DEF LateArrives
<1>2. ASSUME NEW f \in FutureWrites,
             NewerAppends(f) \/ NewerSends(f) \/ NewerRemoves(f) \/ NewerRetires(f)
      PROVE  CredInv'
  BY <1>2 DEF NewerAppends, NewerSends, NewerRemoves, NewerRetires
<1>3. CASE UNCHANGED vars
  BY <1>3 DEF vars
<1> QED BY <1>1, <1>2, <1>3, DrainStepCred, OtherCred, StimulusCred DEF Next, Rest

\* r is a write as it was stored, but for the key a retry() may have given it.
Owned(r) == \E a \in accepted : a.id = r.id /\ a.by = r.by

\* Whatever is stored, or held by a drain loop, keeps the identity it was
\* enqueued under, and was sent under no other.
OwnerInv ==
  /\ \A r \in outbox \cup dead : Owned(r)
  /\ \A t \in Tabs : cur[t] # NoRecord => Owned(cur[t])
  /\ \A s \in sentAs : \E a \in accepted : s = <<a.id, a.by>>

\* What any step adds to the stores: a new write, or one it moved.
LEMMA StoresNew ==
  ASSUME TypeInv, [Next]_vars, NEW x \in outbox' \cup dead'
  PROVE  \/ x \in outbox \cup dead \/ x \in accepted'
         \/ \E t \in Tabs : cur[t] = x /\ x \in Record
         \/ \E d \in dead : x.id = d.id /\ x.by = d.by
<1> USE DEF TypeInv, TypeOK, StoreTypes, store, vars
<1>1. CASE x \in dead'
  BY <1>1, DeadGrows
<1>2. CASE x \in outbox' \ outbox
  <2>1. CASE UNCHANGED store
    BY <1>2, <2>1
  <2>2. ASSUME NEW t \in Tabs, EnqueueCommit(t)
        PROVE  x \in accepted'
    BY <1>2, <2>2 DEF EnqueueCommit
  <2>3. ASSUME NEW t \in Tabs,
               RemoveCommit(t) \/ RetireCommit(t) \/ Trim(t) \/ DiscardCommit(t)
        PROVE  FALSE
    BY <1>2, <2>3 DEF RemoveCommit, RetireCommit, Trim, DiscardCommit
  <2>4. ASSUME NEW t \in Tabs, RequeueCommit(t)
        PROVE  \E d \in dead : x.id = d.id /\ x.by = d.by
    <3>1. PICK d \in dead : x = Requeued(d)
      BY <1>2, <2>4 DEF RequeueCommit
    <3>2. Requeued(d).id = d.id /\ Requeued(d).by = d.by
      BY DEF Requeued, Record
    <3> QED BY <3>1, <3>2
  <2>5. ASSUME NEW f \in FutureWrites, NewerAppends(f)
        PROVE  x \in accepted'
    BY <1>2, <2>5 DEF NewerAppends
  <2>6. ASSUME NEW f \in FutureWrites, NewerRemoves(f) \/ NewerRetires(f)
        PROVE  FALSE
    BY <1>2, <2>6 DEF NewerRemoves, NewerRetires
  <2> QED BY <2>1, <2>2, <2>3, <2>4, <2>5, <2>6, StoreSteps
<1> QED BY <1>1, <1>2

\* What any step adds to the authenticated sends: the head, under the
\* credential its owner is signed in with.
LEMMA SentSteps ==
  ASSUME TypeInv, CredInv, [Next]_vars
  PROVE  \/ sentAs' = sentAs
         \/ \E t \in Tabs : /\ cur[t] # NoRecord
                            /\ sentAs' = sentAs \cup {<<cur[t].id, cur[t].by>>}
<1> USE DEF history, vars
<1>1. ASSUME NEW t \in Tabs, HeadSend(t)
      PROVE  \/ sentAs' = sentAs
             \/ /\ cur[t] # NoRecord
                /\ sentAs' = sentAs \cup {<<cur[t].id, cur[t].by>>}
  BY <1>1 DEF HeadSend, Foreign, CredInv
<1>2. ASSUME NEW t \in Tabs, DrainStep(t), ~HeadSend(t)
      PROVE  UNCHANGED sentAs
  BY <1>2 DEF DrainStep, AcquireLock, LockBusy, SessionStopped, ReadHead,
     HeadEmpty, HeadBlocked, HeadRetires, EngineAccepts, EngineRejects,
     EngineUnauthenticated, RemoveCommit, RemoveDone, RetireCommit,
     RetireTrims, Trim, RetireTally, RetireDone, StorageClosed, SessionEnds,
     ReauthSettles
<1>3. ASSUME NEW t \in Tabs,
             CallStep(t) \/ RefreshStep(t) \/ TimerFires(t) \/ LifeStep(t)
      PROVE  UNCHANGED sentAs
  BY <1>3 DEF CallStep, EnqueueCommit, EnqueueDone, RequeueCommit,
     RequeueTally, RequeueDone, DiscardCommit, DiscardDone, RefreshStep,
     AnnounceArrives, RefreshTimerFires, RefreshUsage, RefreshCommit,
     RefreshEnds, TimerFires, LifeStep, StartRead, StartDone, Close
<1>4. ASSUME NEW t \in Tabs, Stimulus(t)
      PROVE  UNCHANGED sentAs
  BY <1>4 DEF Stimulus, Enqueue, RetryCall, DiscardCall, Flush, Stop, Crash,
     EnqueueFails, CallFails, SendFails, StorageFails, ReauthFails,
     ReauthEmpty, LateLogin, ExpireCredential
<1>5. ASSUME NEW m \in late, LateArrives(m)
      PROVE  UNCHANGED sentAs
  BY <1>5 DEF LateArrives
<1>6. ASSUME NEW f \in FutureWrites,
             NewerAppends(f) \/ NewerSends(f) \/ NewerRemoves(f) \/ NewerRetires(f)
      PROVE  UNCHANGED sentAs
  BY <1>6 DEF NewerAppends, NewerSends, NewerRemoves, NewerRetires
<1> QED BY <1>1, <1>2, <1>3, <1>4, <1>5, <1>6 DEF Next, Rest

\* OwnerInv is kept by every step.
LEMMA OwnerStep ==
  ASSUME TypeInv, IdsInv, CredInv, OwnerInv, [Next]_vars
  PROVE  OwnerInv'
<1>1. accepted \subseteq accepted'
  BY AcceptedSteps
<1>2. ASSUME NEW r, Owned(r)
      PROVE  \E a \in accepted' : a.id = r.id /\ a.by = r.by
  BY <1>1, <1>2 DEF Owned
<1>3. ASSUME NEW x \in outbox' \cup dead'
      PROVE  \E a \in accepted' : a.id = x.id /\ a.by = x.by
  <2>1. CASE x \in outbox \cup dead
    BY <1>2, <2>1 DEF OwnerInv
  <2>2. CASE x \in accepted'
    BY <2>2
  <2>3. CASE \E t \in Tabs : cur[t] = x /\ x \in Record
    BY <1>2, <2>3, NoRecordAssumption DEF OwnerInv
  <2>4. CASE \E d \in dead : x.id = d.id /\ x.by = d.by
    BY <1>1, <2>4 DEF OwnerInv, Owned
  <2> QED BY <2>1, <2>2, <2>3, <2>4, StoresNew
<1>4. ASSUME NEW t \in Tabs, cur'[t] # NoRecord
      PROVE  \E a \in accepted' : a.id = cur'[t].id /\ a.by = cur'[t].by
  <2>1. CASE cur'[t] = cur[t]
    BY <1>2, <1>4, <2>1 DEF OwnerInv
  <2>2. CASE outbox # {} /\ cur'[t] = Head0
    <3>1. Head0 \in outbox
      BY <2>2, HeadIsLowest DEF TypeInv, TypeOK
    <3> QED BY <1>2, <2>2, <3>1 DEF OwnerInv
  <2> QED BY <1>4, <2>1, <2>2, HeldSteps
<1>5. \A s \in sentAs' : \E a \in accepted' : s = <<a.id, a.by>>
  BY <1>1, SentSteps DEF OwnerInv, Owned
<1> QED BY <1>3, <1>4, <1>5 DEF OwnerInv, Owned

\* A write is only ever transmitted with its owner's credential, with any
\* tabs, logins, expiries and crashes, as long as a login that outlived
\* authTimeoutMs cannot settle behind the queue's back (LateLogins = FALSE):
\* with one that can, the run queue_late_login shows the opposite.
THEOREM OwnersCredential ==
  ASSUME LateLogins = FALSE
  PROVE  Spec => []NoForeignSend
<1>1. Init => CredInv /\ OwnerInv
  BY DEF Init, CredInv, OwnerInv
<1>2. TypeInv /\ IdsInv /\ CredInv /\ OwnerInv /\ [Next]_vars
        => CredInv' /\ OwnerInv'
  BY CredStep, OwnerStep
<1>3. IdsInv /\ OwnerInv => NoForeignSend
  BY DEF IdsInv, OwnerInv, NoForeignSend
<1>4. Init => FifoInv
  BY FifoInit
<1>5. TypeInv /\ LostInv /\ FifoInv /\ [Next]_vars => FifoInv'
  BY FifoInvStep
<1>6. FifoInv => IdsInv
  BY DEF FifoInv
<1> QED BY <1>1, <1>2, <1>3, <1>4, <1>5, <1>6, TypeInvariant, LostInvariant,
        PTL DEF Spec

-----------------------------------------------------------------------------
(* The records of a newer build.                                           *)

\* Where a drain loop is about to take its record out of the outbox, or waits
\* for the answer that decides it.
Taking == {"sending", "remove", "retire"}

\* A drain loop takes, and a retry() puts back, only what this build can read.
ReadableInv ==
  \A t \in Tabs : /\ pc[t] \in Taking => cur[t].id \notin FutureWrites
                  /\ op[t].what = "requeue" => op[t].id \notin FutureWrites

\* A drain loop sends and retires a head only after it has looked at its kind.
LEMMA DrainStepReadable ==
  ASSUME TypeInv, ReadableInv, NEW t \in Tabs, DrainStep(t)
  PROVE  ReadableInv'
<1> USE DEF TypeInv, TypeOK, DrainerTypes, ReadableInv, Taking, Goto, calls
<1>1. CASE AcquireLock(t) \/ LockBusy(t) \/ SessionStopped(t) \/ ReadHead(t)
  BY <1>1 DEF AcquireLock, LockBusy, SessionStopped, ReadHead, Leave
<1>2. CASE HeadEmpty(t) \/ HeadBlocked(t)
  BY <1>2 DEF HeadEmpty, HeadBlocked
<1>3. CASE HeadSend(t)
  BY <1>3, QueueAssumption DEF HeadSend
<1>4. CASE HeadRetires(t)
  BY <1>4, QueueAssumption DEF HeadRetires, Retire, DrainThrows, Leave
<1>5. CASE EngineRejects(t) \/ StorageClosed(t)
  BY <1>5 DEF EngineRejects, StorageClosed, Retire, DrainThrows, Leave
<1>6. CASE EngineAccepts(t) \/ EngineUnauthenticated(t)
  BY <1>6 DEF EngineAccepts, EngineUnauthenticated
<1>7. CASE RemoveCommit(t) \/ RemoveDone(t)
  BY <1>7 DEF RemoveCommit, RemoveDone
<1>8. CASE RetireCommit(t) \/ RetireTrims(t) \/ Trim(t) \/ RetireTally(t)
             \/ RetireDone(t)
  BY <1>8 DEF RetireCommit, RetireTrims, Trim, RetireTally, RetireDone
<1>9. CASE SessionEnds(t) \/ ReauthSettles(t)
  BY <1>9 DEF SessionEnds, ReauthSettles, Leave, Ends
<1> QED BY <1>1, <1>2, <1>3, <1>4, <1>5, <1>6, <1>7, <1>8, <1>9 DEF DrainStep

\* No call, refresh pass, timer or start() changes what a drain loop takes ...
LEMMA OtherReadable ==
  ASSUME TypeInv, ReadableInv, NEW t \in Tabs,
         CallStep(t) \/ RefreshStep(t) \/ TimerFires(t) \/ LifeStep(t)
  PROVE  ReadableInv'
<1> USE DEF TypeInv, TypeOK, DrainerTypes, CallTypes, NoOp, ReadableInv, Taking,
       Goto, calls, drainer, DrainCall
<1>1. CASE CallStep(t)
  <2>1. CASE EnqueueCommit(t) \/ EnqueueDone(t)
    BY <2>1 DEF EnqueueCommit, EnqueueDone
  <2>2. CASE RequeueCommit(t)
    BY <2>2 DEF RequeueCommit
  <2>3. CASE RequeueTally(t) \/ RequeueDone(t)
    BY <2>3 DEF RequeueTally, RequeueDone
  <2>4. CASE DiscardCommit(t) \/ DiscardDone(t)
    BY <2>4 DEF DiscardCommit, DiscardDone
  <2> QED BY <1>1, <2>1, <2>2, <2>3, <2>4 DEF CallStep
<1>2. CASE RefreshStep(t)
  BY <1>2 DEF RefreshStep, AnnounceArrives, RefreshTimerFires, RefreshUsage,
     RefreshCommit, RefreshEnds
<1>3. CASE TimerFires(t)
  BY <1>3 DEF TimerFires
<1>4. CASE LifeStep(t)
  BY <1>4 DEF LifeStep, StartRead, StartDone, Close, Forget, Handles
<1> QED BY <1>1, <1>2, <1>3, <1>4

\* ... and retry() refuses a write of a newer build.
LEMMA StimulusReadable ==
  ASSUME TypeInv, ReadableInv, NEW t \in Tabs, Stimulus(t)
  PROVE  ReadableInv'
<1> USE DEF TypeInv, TypeOK, DrainerTypes, CallTypes, NoOp, ReadableInv, Taking,
       Goto, calls, drainer, DrainCall
<1>1. ASSUME NEW w \in Ids, Enqueue(t, w) \/ RetryCall(t, w) \/ DiscardCall(t, w)
      PROVE  ReadableInv'
  BY <1>1 DEF Enqueue, RetryCall, DiscardCall
<1>2. CASE Flush(t) \/ Stop(t) \/ Crash(t)
  BY <1>2 DEF Flush, Stop, Crash, Forget
<1>3. CASE EnqueueFails(t) \/ CallFails(t) \/ SendFails(t)
  BY <1>3 DEF EnqueueFails, CallFails, SendFails
<1>4. CASE StorageFails(t)
  BY <1>4 DEF StorageFails, DrainThrows, Leave
<1>5. CASE ReauthFails(t) \/ ReauthEmpty(t) \/ LateLogin(t)
             \/ ExpireCredential(t)
  BY <1>5 DEF ReauthFails, ReauthEmpty, LateLogin, ExpireCredential, Leave
<1> QED BY <1>1, <1>2, <1>3, <1>4, <1>5 DEF Stimulus, Ids

\* ReadableInv is kept by every step.
LEMMA ReadableStep ==
  ASSUME TypeInv, ReadableInv, [Next]_vars
  PROVE  ReadableInv'
<1> USE DEF ReadableInv, drainer, calls
<1>1. ASSUME NEW m \in late, LateArrives(m)
      PROVE  ReadableInv'
  BY <1>1 DEF LateArrives
<1>2. ASSUME NEW f \in FutureWrites,
             NewerAppends(f) \/ NewerSends(f) \/ NewerRemoves(f) \/ NewerRetires(f)
      PROVE  ReadableInv'
  BY <1>2 DEF NewerAppends, NewerSends, NewerRemoves, NewerRetires
<1>3. CASE UNCHANGED vars
  BY <1>3 DEF vars
<1> QED BY <1>1, <1>2, <1>3, DrainStepReadable, OtherReadable,
        StimulusReadable DEF Next, Rest

\* A transaction of this build leaves the newer build's records where they are.
LEMMA NewerKept ==
  ASSUME TypeInv, KeysInv, ReadableInv, NEW t \in Tabs,
         \/ EnqueueCommit(t) \/ RemoveCommit(t) \/ RetireCommit(t)
         \/ Trim(t) \/ RequeueCommit(t)
  PROVE  FutureIn(outbox)' = FutureIn(outbox) /\ FutureIn(dead)' = FutureIn(dead)
<1> USE DEF TypeInv, TypeOK, StoreTypes, FutureIn, store
<1>1. CASE EnqueueCommit(t)
  BY <1>1, QueueAssumption DEF EnqueueCommit, CallTypes
<1>2. CASE RemoveCommit(t) \/ RetireCommit(t)
  <2>1. cur[t].id \notin FutureWrites /\ cur[t] # NoRecord
    BY <1>2, NoRecordAssumption DEF ReadableInv, Taking, RemoveCommit,
       RetireCommit, Handles, Holding
  <2>2. \A r \in outbox : r.seq = cur[t].seq => r.id \notin FutureWrites
    BY <2>1 DEF KeysInv
  <2> QED BY <1>2, <2>1, <2>2 DEF RemoveCommit, RetireCommit
<1>3. CASE Trim(t)
  BY <1>3 DEF Trim, Excess
<1>4. CASE RequeueCommit(t)
  BY <1>4 DEF RequeueCommit, Requeued, ReadableInv, Record
<1> QED BY <1>1, <1>2, <1>3, <1>4

\* Only the newer build, and a discard() the application asks for, ever change
\* which of the newer build's records are stored and which are dead letters,
\* with any tabs, writes and faults.
THEOREM NewerBuildsRecords == Spec => NewerUntouched
<1>1. Init => ReadableInv
  BY DEF Init, ReadableInv, Taking, NoOp
<1>2. TypeInv /\ ReadableInv /\ [Next]_vars => ReadableInv'
  BY ReadableStep
<1>3. TypeInv /\ LostInv /\ ReadableInv /\ [Next]_vars =>
        [ (FutureIn(outbox)' # FutureIn(outbox) \/ FutureIn(dead)' # FutureIn(dead))
            => \/ \E f \in FutureWrites :
                     NewerAppends(f) \/ NewerRemoves(f) \/ NewerRetires(f)
               \/ \E t \in Tabs : DiscardCommit(t) ]_vars
  <2>1. UNCHANGED store
          => FutureIn(outbox)' = FutureIn(outbox) /\ FutureIn(dead)' = FutureIn(dead)
    BY DEF store, FutureIn
  <2> QED BY <2>1, StoreSteps, NewerKept DEF LostInv
<1> QED BY <1>1, <1>2, <1>3, TypeInvariant, LostInvariant, PTL
        DEF Spec, NewerUntouched

-----------------------------------------------------------------------------
(* What a lone tab's counter knows.                                        *)

\* One tab, and no newer build: nobody else touches the stores.
LoneTab == FutureWrites = {} /\ \A t, u \in Tabs : t = u

\* What a step of t does to the reads t has in progress: a read that was begun
\* before the step and is not over is raced once the step has changed the
\* outbox, ended a mutation, or found it raced already.
RaceStep(t) ==
  /\ outbox' = outbox \/ Mutating(t)'
  /\ pc'[t] = "head" =>
       \/ ReadHead(t)
       \/ /\ pc[t] = "head"
          /\ Mutating(t) \/ "head" \in raced[t]
               => Mutating(t)' \/ "head" \in raced'[t]
  /\ rf'[t] = "count" =>
       \/ RefreshUsage(t)
       \/ /\ rf[t] = "count" /\ rfSeen'[t] = rfSeen[t]
          /\ Mutating(t) \/ "refresh" \in raced[t]
               => Mutating(t)' \/ "refresh" \in raced'[t]
  /\ op'[t].what = "requeued" => RequeueCommit(t) \/ op[t].what = "requeued"

\* The steps of the drain loop race the reads they overlap ...
LEMMA DrainStepRace ==
  ASSUME TypeInv, NEW t \in Tabs, DrainStep(t)
  PROVE  RaceStep(t)
<1> USE DEF TypeInv, TypeOK, DrainerTypes, RefreshTypes, RaceStep, Mutating,
       Bump, Goto, calls, store, refresh
<1>1. CASE AcquireLock(t) \/ LockBusy(t) \/ SessionStopped(t)
  BY <1>1 DEF AcquireLock, LockBusy, SessionStopped, Leave
<1>2. CASE ReadHead(t)
  BY <1>2 DEF ReadHead, Mark
<1>3. CASE HeadEmpty(t) \/ HeadBlocked(t) \/ HeadSend(t)
  BY <1>3 DEF HeadEmpty, HeadBlocked, HeadSend, LeaveHead
<1>4. CASE HeadRetires(t)
  BY <1>4 DEF HeadRetires, LeaveHead, Retire, DrainThrows, Leave
<1>5. CASE EngineRejects(t) \/ StorageClosed(t)
  BY <1>5 DEF EngineRejects, StorageClosed, Retire, DrainThrows, Leave
<1>6. CASE EngineAccepts(t) \/ EngineUnauthenticated(t)
  BY <1>6 DEF EngineAccepts, EngineUnauthenticated
<1>7. CASE RemoveCommit(t) \/ RemoveDone(t)
  BY <1>7 DEF RemoveCommit, RemoveDone
<1>8. CASE RetireCommit(t) \/ RetireTrims(t) \/ Trim(t) \/ RetireTally(t)
             \/ RetireDone(t)
  BY <1>8 DEF RetireCommit, RetireTrims, Trim, RetireTally, RetireDone
<1>9. CASE SessionEnds(t) \/ ReauthSettles(t)
  BY <1>9 DEF SessionEnds, ReauthSettles, Leave, Ends
<1> QED BY <1>1, <1>2, <1>3, <1>4, <1>5, <1>6, <1>7, <1>8, <1>9 DEF DrainStep

\* ... so do those of calls, refresh passes, timers and start() ...
LEMMA OtherRace ==
  ASSUME TypeInv, NEW t \in Tabs,
         CallStep(t) \/ RefreshStep(t) \/ TimerFires(t) \/ LifeStep(t)
  PROVE  RaceStep(t)
<1> USE DEF TypeInv, TypeOK, DrainerTypes, RefreshTypes, CallTypes, NoOp,
       RaceStep, Mutating, Goto, drainer, calls, store, DrainCall
<1>1. CASE EnqueueCommit(t)
  <2>1. PICK a \in adding[t] : added' = [added EXCEPT ![t] = @ \cup {a.id}]
    BY <1>1 DEF EnqueueCommit
  <2>2. a.id \in added'[t]
    BY <2>1
  <2>3. added'[t] # {}
    BY <2>2
  <2> QED BY <1>1, <2>3 DEF EnqueueCommit, refresh
<1>2. CASE EnqueueDone(t)
  BY <1>2 DEF EnqueueDone, Bump
<1>3. CASE RequeueCommit(t)
  BY <1>3 DEF RequeueCommit, Bump
<1>4. CASE RequeueTally(t)
  BY <1>4 DEF RequeueTally, refresh
<1>5. CASE RequeueDone(t)
  BY <1>5 DEF RequeueDone, Bump
<1>6. CASE DiscardCommit(t)
  BY <1>6 DEF DiscardCommit, Bump
<1>7. CASE DiscardDone(t)
  BY <1>7 DEF DiscardDone, Bump
<1>8. CASE AnnounceArrives(t) \/ RefreshTimerFires(t)
  BY <1>8 DEF AnnounceArrives, RefreshTimerFires, RequestRefresh, Mark
<1>9. CASE RefreshUsage(t) \/ RefreshCommit(t) \/ RefreshEnds(t)
  BY <1>9 DEF RefreshUsage, RefreshCommit, RefreshEnds
<1>10. CASE TimerFires(t)
  BY <1>10 DEF TimerFires, refresh
<1>11. CASE StartRead(t)
  BY <1>11 DEF StartRead, Forget, Handles
<1>12. CASE StartDone(t)
  BY <1>12 DEF StartDone, Handles, refresh
<1>13. CASE Close(t)
  BY <1>13 DEF Close
<1> QED BY <1>1, <1>2, <1>3, <1>4, <1>5, <1>6, <1>7, <1>8, <1>9, <1>10, <1>11,
        <1>12, <1>13 DEF CallStep, RefreshStep, LifeStep

\* ... and stops, crashes, failing calls and logins.
LEMMA StimulusRace ==
  ASSUME TypeInv, NEW t \in Tabs, Stimulus(t)
  PROVE  RaceStep(t)
<1> USE DEF TypeInv, TypeOK, DrainerTypes, RefreshTypes, CallTypes, NoOp,
       RaceStep, Mutating, Goto, drainer, calls, store, DrainCall
<1>1. ASSUME NEW w \in Ids, Enqueue(t, w) PROVE RaceStep(t)
  BY <1>1 DEF Enqueue, refresh
<1>2. ASSUME NEW w \in Ids, RetryCall(t, w) \/ DiscardCall(t, w)
      PROVE  RaceStep(t)
  BY <1>2 DEF RetryCall, DiscardCall, refresh
<1>3. CASE Flush(t) \/ Stop(t)
  BY <1>3 DEF Flush, Stop, refresh
<1>4. CASE Crash(t)
  BY <1>4 DEF Crash, Forget
<1>5. CASE EnqueueFails(t) \/ CallFails(t)
  BY <1>5 DEF EnqueueFails, CallFails, Bump
<1>6. CASE SendFails(t)
  BY <1>6 DEF SendFails, refresh
<1>7. CASE StorageFails(t)
  BY <1>7 DEF StorageFails, DrainThrows, Leave, Bump
<1>8. CASE ReauthFails(t) \/ ReauthEmpty(t) \/ LateLogin(t)
             \/ ExpireCredential(t)
  BY <1>8 DEF ReauthFails, ReauthEmpty, LateLogin, ExpireCredential, Leave,
     refresh
<1> QED BY <1>1, <1>2, <1>3, <1>4, <1>5, <1>6, <1>7, <1>8 DEF Stimulus, Ids

\* What any step does to the reads and the record of a lone tab.
LEMMA LoneSteps ==
  ASSUME TypeInv, LoneTab, [Next]_vars, NEW t \in Tabs
  PROVE  RaceStep(t) /\ HoldStep(t)
<1>1. UNCHANGED <<outbox, pc, cur, rf, rfSeen, raced, adding, added, op>>
        => RaceStep(t) /\ HoldStep(t)
  BY DEF RaceStep, HoldStep, Mutating
<1>2. ASSUME NEW m \in late, LateArrives(m)
      PROVE  UNCHANGED <<outbox, pc, cur, rf, rfSeen, raced, adding, added, op>>
  BY <1>2 DEF LateArrives, store, drainer, calls, refresh
<1>3. UNCHANGED vars
        => UNCHANGED <<outbox, pc, cur, rf, rfSeen, raced, adding, added, op>>
  BY DEF vars, store, drainer, calls, refresh
<1>4. ASSUME NEW u \in Tabs
      PROVE  u = t
  BY DEF LoneTab
<1>5. FutureWrites = {}
  BY DEF LoneTab
<1>6. ASSUME NEW u \in Tabs, \/ DrainStep(u) \/ CallStep(u) \/ RefreshStep(u)
                             \/ TimerFires(u) \/ LifeStep(u) \/ Stimulus(u)
      PROVE  RaceStep(t) /\ HoldStep(t)
  BY <1>4, <1>6, DrainStepRace, OtherRace, StimulusRace, DrainStepHold,
     OtherHold, StimulusHold
<1> QED BY <1>1, <1>2, <1>3, <1>5, <1>6 DEF Next, Rest

\* A lone tab's drain loop is the only one to take a record out.
LEMMA LoneOutbox ==
  ASSUME TypeInv, LoneTab, [Next]_vars, NEW t \in Tabs
  PROVE  outbox \subseteq outbox' \/ RemoveCommit(t) \/ RetireCommit(t)
<1> USE DEF store, vars
<1>1. ASSUME NEW u \in Tabs,
             EnqueueCommit(u) \/ Trim(u) \/ RequeueCommit(u) \/ DiscardCommit(u)
      PROVE  outbox \subseteq outbox'
  BY <1>1 DEF EnqueueCommit, Trim, RequeueCommit, DiscardCommit
<1> QED BY <1>1, StoreSteps DEF LoneTab

\* What the drain loop of a lone tab holds is still in the outbox, until it
\* takes it out itself.
HeldInv ==
  \A t \in Tabs :
    pc[t] \in HoldingHead /\ cur[t] # NoRecord => cur[t] \in outbox

\* A head read that found nothing is right, unless it is raced.
EmptyInv ==
  \A t \in Tabs : pc[t] = "head" /\ cur[t] = NoRecord
                    => outbox = {} \/ CounterRaced(t, "head")

\* A refresh pass that has counted the outbox is right, unless it is raced.
SeenInv ==
  \A t \in Tabs : rf[t] = "count"
                    => rfSeen[t] = Cardinality(outbox) \/ CounterRaced(t, "refresh")

\* The enqueue() calls under way can be counted.
AddingFinite == \A t \in Tabs : IsFiniteSet(adding[t])

\* HeldInv is kept by every step.
LEMMA HeldStep ==
  ASSUME TypeInv, LoneTab, HeldInv, [Next]_vars
  PROVE  HeldInv'
<1> SUFFICES ASSUME NEW t \in Tabs, pc'[t] \in HoldingHead, cur'[t] # NoRecord
             PROVE  cur'[t] \in outbox'
  BY DEF HeldInv
<1>1. CASE ReadHead(t)
  BY <1>1, HeadIsLowest DEF ReadHead, Head0, TypeInv, TypeOK, DrainerTypes, store
<1>2. CASE ~ReadHead(t)
  <2>1. pc[t] \in HoldingHead /\ cur'[t] = cur[t]
    BY <1>2, LoneSteps DEF HoldStep
  <2>2. ~RemoveCommit(t) /\ ~RetireCommit(t)
    BY DEF RemoveCommit, RetireCommit, Goto, HoldingHead, TypeInv, TypeOK,
       DrainerTypes
  <2> QED BY <2>1, <2>2, LoneOutbox DEF HeldInv
<1> QED BY <1>1, <1>2

\* EmptyInv is kept by every step.
LEMMA EmptyStep ==
  ASSUME TypeInv, LoneTab, EmptyInv, [Next]_vars
  PROVE  EmptyInv'
<1> SUFFICES ASSUME NEW t \in Tabs, pc'[t] = "head", cur'[t] = NoRecord
             PROVE  outbox' = {} \/ Mutating(t)' \/ "head" \in raced'[t]
  BY DEF EmptyInv, CounterRaced
<1>1. CASE ReadHead(t)
  <2>1. Head0 = NoRecord /\ outbox' = outbox
    BY <1>1 DEF ReadHead, TypeInv, TypeOK, DrainerTypes, store
  <2>2. outbox = {}
    BY <2>1, HeadIsLowest, NoRecordAssumption DEF TypeInv, TypeOK, StoreTypes
  <2> QED BY <2>1, <2>2
<1>2. CASE ~ReadHead(t)
  <2>1. RaceStep(t) /\ HoldStep(t)
    BY LoneSteps
  <2>2. pc[t] = "head" /\ cur[t] = NoRecord
    BY <1>2, <2>1 DEF RaceStep, HoldStep, HoldingHead
  <2> QED BY <1>2, <2>1, <2>2 DEF EmptyInv, CounterRaced, RaceStep
<1> QED BY <1>1, <1>2

\* SeenInv is kept by every step.
LEMMA SeenStep ==
  ASSUME TypeInv, LoneTab, SeenInv, [Next]_vars
  PROVE  SeenInv'
<1> SUFFICES ASSUME NEW t \in Tabs, rf'[t] = "count"
             PROVE  \/ rfSeen'[t] = Cardinality(outbox)' \/ Mutating(t)'
                    \/ "refresh" \in raced'[t]
  BY DEF SeenInv, CounterRaced
<1>1. CASE RefreshUsage(t)
  BY <1>1 DEF RefreshUsage, TypeInv, TypeOK, CounterTypes, store
<1>2. CASE ~RefreshUsage(t)
  BY <1>2, LoneSteps DEF SeenInv, CounterRaced, RaceStep
<1> QED BY <1>1, <1>2

\* AddingFinite is kept by every step.
LEMMA AddingFiniteStep ==
  ASSUME TypeInv, AddingFinite, [Next]_vars
  PROVE  AddingFinite'
<1>1. CASE \A t \in Tabs : adding'[t] \subseteq adding[t]
  BY <1>1, FS_Subset DEF AddingFinite
<1>2. ASSUME NEW t \in Tabs, NEW w \in Writes, Enqueue(t, w)
      PROVE  AddingFinite'
  <2>1. \A u \in Tabs : \/ adding'[u] = adding[u]
                        \/ adding'[u] = adding[u] \cup {[id |-> w, by |-> who[t]]}
    BY <1>2 DEF Enqueue, TypeInv, TypeOK, CallTypes
  <2>2. ASSUME NEW u \in Tabs
        PROVE  IsFiniteSet(adding'[u])
    <3>1. IsFiniteSet(adding[u])
      BY DEF AddingFinite
    <3>2. IsFiniteSet(adding[u] \cup {[id |-> w, by |-> who[t]]})
      BY <3>1, FS_AddElement
    <3> QED BY <2>1, <3>1, <3>2
  <2> QED BY <2>2 DEF AddingFinite
<1> QED BY <1>1, <1>2, AddingSteps

\* Where a drain loop has taken its record out and not counted it down yet.
TakenOut == {"removed", "retired", "trim", "trimmed"}

\* What the counter of t should cover: the stored writes, the reserved ones and
\* the one just taken out.
Owed(t) == Cardinality(outbox) + Cardinality(adding[t])
             + (IF pc[t] \in TakenOut THEN 1 ELSE 0)

\* What it covers: itself, and the write a retry() has just put back.
Covered(t) == pending[t] + (IF op[t].what = "requeued" THEN 1 ELSE 0)

\* The counter of a lone tab covers what it should, once it is read at start().
CountInv ==
  \A t \in Tabs : life[t] \in {"up", "stopping", "opening"}
                    => Covered(t) >= Owed(t)

\* The record a lone tab takes out is one that is there.
LEMMA TakeOne ==
  ASSUME TypeInv, KeysInv, HeldInv, NEW t \in Tabs, pc[t] \in {"remove", "retire"}
  PROVE  Cardinality({r \in outbox : r.seq # cur[t].seq}) = Cardinality(outbox) - 1
<1>1. cur[t] \in outbox /\ cur[t] # NoRecord
  BY NoRecordAssumption DEF HeldInv, HoldingHead, TypeInv, Handles, Holding
<1>2. {r \in outbox : r.seq # cur[t].seq} = outbox \ {cur[t]}
  BY <1>1 DEF KeysInv
<1>3. IsFiniteSet(outbox)
  BY DEF TypeInv, FiniteStores
<1> QED BY <1>1, <1>2, <1>3, FS_RemoveElement

\* A record under the next key is one more.
LEMMA AddOne ==
  ASSUME TypeInv, KeysInv, NEW r, r.seq = nextSeq
  PROVE  Cardinality(outbox \cup {r}) = Cardinality(outbox) + 1
<1>1. r \notin outbox
  BY DEF KeysInv, TypeInv, TypeOK, StoreTypes
<1> QED BY <1>1, FS_AddElement DEF TypeInv, FiniteStores

\* The drain loop counts down after it has taken a record out, and its reset
\* on an empty head is right ...
LEMMA DrainStepCount ==
  ASSUME TypeInv, KeysInv, LoneTab, AddingFinite, HeldInv, EmptyInv, CountInv,
         NEW t \in Tabs, DrainStep(t)
  PROVE  CountInv'
<1>1. /\ Cardinality(outbox) \in Nat /\ Cardinality(adding[t]) \in Nat
      /\ pending[t] \in Int
  BY Cards, FS_CardinalityType DEF AddingFinite, TypeInv, TypeOK, CounterTypes
<1>2. SUFFICES ASSUME life'[t] \in {"up", "stopping", "opening"}
               PROVE  Covered(t)' >= Owed(t)'
  BY DEF CountInv, LoneTab
<1>3. ASSUME UNCHANGED <<outbox, life, adding, op, pending>>,
             pc'[t] \in TakenOut => pc[t] \in TakenOut
      PROVE  Covered(t)' >= Owed(t)'
  BY <1>1, <1>2, <1>3 DEF CountInv, Covered, Owed
<1> USE DEF TypeInv, TypeOK, DrainerTypes, CounterTypes, TakenOut, Goto, calls,
       store, counters
<1>4. CASE AcquireLock(t) \/ LockBusy(t) \/ SessionStopped(t) \/ ReadHead(t)
  BY <1>3, <1>4 DEF AcquireLock, LockBusy, SessionStopped, ReadHead, Leave
<1>5. CASE HeadEmpty(t)
  <2>1. /\ pc[t] = "head" /\ UNCHANGED <<outbox, life, adding, op>>
        /\ pc'[t] = "endIdle"
        /\ pending'[t] = IF CounterRaced(t, "head") THEN pending[t] ELSE 0
    BY <1>5 DEF HeadEmpty
  <2>2. CASE CounterRaced(t, "head")
    BY <1>1, <1>2, <2>1, <2>2 DEF CountInv, Covered, Owed
  <2>3. CASE ~CounterRaced(t, "head")
    <3>1. outbox = {} /\ adding[t] = {} /\ op[t].what = "none"
      BY <1>5, <2>3 DEF HeadEmpty, EmptyInv, CounterRaced, Mutating
    <3> QED BY <2>1, <2>3, <3>1, FS_EmptySet DEF Covered, Owed
  <2> QED BY <2>2, <2>3
<1>6. CASE HeadBlocked(t) \/ HeadSend(t)
  BY <1>3, <1>6 DEF HeadBlocked, HeadSend
<1>7. CASE HeadRetires(t) \/ EngineRejects(t) \/ StorageClosed(t)
  BY <1>3, <1>7 DEF HeadRetires, EngineRejects, StorageClosed, Retire,
     DrainThrows, Leave
<1>8. CASE EngineAccepts(t) \/ EngineUnauthenticated(t)
  BY <1>3, <1>8 DEF EngineAccepts, EngineUnauthenticated
<1>9. CASE RemoveCommit(t) \/ RetireCommit(t)
  <2>1. /\ pc[t] \in {"remove", "retire"} /\ pc'[t] \in TakenOut
        /\ UNCHANGED <<life, adding, op, pending>>
        /\ outbox' = {r \in outbox : r.seq # cur[t].seq}
    BY <1>9 DEF RemoveCommit, RetireCommit
  <2>2. Cardinality(outbox') = Cardinality(outbox) - 1
    BY <2>1, TakeOne
  <2> QED BY <1>1, <1>2, <2>1, <2>2 DEF CountInv, Covered, Owed
<1>10. CASE RemoveDone(t) \/ RetireTally(t)
  <2>1. /\ pc[t] \in TakenOut /\ pc'[t] \notin TakenOut
        /\ UNCHANGED <<life, adding, op, outbox>>
        /\ pending'[t] = pending[t] - 1
    BY <1>10 DEF RemoveDone, RetireTally
  <2> QED BY <1>1, <1>2, <2>1 DEF CountInv, Covered, Owed
<1>11. CASE RetireTrims(t) \/ Trim(t) \/ RetireDone(t)
  BY <1>3, <1>11 DEF RetireTrims, Trim, RetireDone
<1>12. CASE SessionEnds(t) \/ ReauthSettles(t)
  BY <1>3, <1>12 DEF SessionEnds, ReauthSettles, Leave, Ends
<1> QED BY <1>4, <1>5, <1>6, <1>7, <1>8, <1>9, <1>10, <1>11, <1>12 DEF DrainStep

\* A set that loses an element is one smaller.
LEMMA DropOne ==
  ASSUME NEW S, IsFiniteSet(S), NEW a \in S, NEW T, T = S \ {a}
  PROVE  Cardinality(T) = Cardinality(S) - 1
<1>1. Cardinality(S \ {a}) = Cardinality(S) - 1
  BY FS_RemoveElement
<1> QED BY <1>1

\* A set that gains an element is one larger.
LEMMA GrowOne ==
  ASSUME NEW S, IsFiniteSet(S), NEW a, a \notin S, NEW T, T = S \cup {a}
  PROVE  Cardinality(T) = Cardinality(S) + 1
<1>1. Cardinality(S \cup {a}) = Cardinality(S) + 1
  BY FS_AddElement
<1> QED BY <1>1

\* ... calls reserve before they store, or are covered until they count up;
\* a refresh pass and start() count what is there ...
LEMMA OtherCount ==
  ASSUME TypeInv, KeysInv, LoneTab, AddingFinite, SeenInv, CountInv,
         NEW t \in Tabs,
         CallStep(t) \/ RefreshStep(t) \/ TimerFires(t) \/ LifeStep(t)
  PROVE  CountInv'
<1>1. /\ Cardinality(outbox) \in Nat /\ Cardinality(adding[t]) \in Nat
      /\ pending[t] \in Int
  BY Cards, FS_CardinalityType DEF AddingFinite, TypeInv, TypeOK, CounterTypes
<1>2. SUFFICES ASSUME life'[t] \in {"up", "stopping", "opening"}
               PROVE  Covered(t)' >= Owed(t)'
  BY DEF CountInv, LoneTab
<1>3. ASSUME UNCHANGED <<outbox, adding, pending>>,
             life[t] \in {"up", "stopping", "opening"},
             op'[t].what = "requeued" <=> op[t].what = "requeued",
             pc'[t] \in TakenOut => pc[t] \in TakenOut
      PROVE  Covered(t)' >= Owed(t)'
  BY <1>1, <1>2, <1>3 DEF CountInv, Covered, Owed
<1> USE DEF TypeInv, TypeOK, DrainerTypes, CounterTypes, CallTypes, NoOp,
       TakenOut, Goto, drainer, calls, store, counters, DrainCall
<1>4. CASE EnqueueCommit(t)
  <2>1. PICK a \in adding[t] :
          /\ outbox' = outbox \cup {[seq |-> nextSeq, id |-> a.id, by |-> a.by]}
          /\ adding' = [adding EXCEPT ![t] = @ \ {a}]
          /\ UNCHANGED <<life, op, pending, pc>>
    BY <1>4 DEF EnqueueCommit
  <2>2. Cardinality(outbox') = Cardinality(outbox) + 1
    BY <2>1, AddOne
  <2>3. IsFiniteSet(adding[t]) /\ adding'[t] = adding[t] \ {a}
    BY <2>1 DEF AddingFinite
  <2>4. Cardinality(adding'[t]) = Cardinality(adding[t]) - 1
    BY <2>3, DropOne, Zenon
  <2> QED BY <1>1, <1>2, <2>1, <2>2, <2>4 DEF CountInv, Covered, Owed
<1>5. CASE EnqueueDone(t)
  BY <1>2, <1>3, <1>5 DEF EnqueueDone
<1>6. CASE RequeueCommit(t)
  <2>1. CASE UNCHANGED store /\ op' = [op EXCEPT ![t] = NoOp]
    BY <1>2, <1>3, <1>6, <2>1 DEF RequeueCommit
  <2>2. CASE op' = [op EXCEPT ![t].what = "requeued"] /\ ~UNCHANGED store
    <3>1. PICK d \in dead : outbox' = outbox \cup {Requeued(d)}
      BY <1>6, <2>2 DEF RequeueCommit
    <3>2. Requeued(d).seq = nextSeq
      BY DEF Requeued, StoreTypes, Record
    <3>3. Cardinality(outbox') = Cardinality(outbox) + 1
      BY <3>1, <3>2, AddOne
    <3>4. op[t].what = "requeue" /\ op'[t].what = "requeued"
      BY <1>6, <2>2 DEF RequeueCommit
    <3> QED BY <1>1, <1>2, <1>6, <3>3, <3>4
            DEF RequeueCommit, CountInv, Covered, Owed
  <2> QED BY <1>6, <2>1, <2>2 DEF RequeueCommit
<1>7. CASE RequeueTally(t)
  <2>1. /\ op[t].what = "requeued" /\ op'[t].what = "counting"
        /\ pending'[t] = pending[t] + 1
        /\ UNCHANGED <<life, adding, outbox, pc>>
    BY <1>7 DEF RequeueTally
  <2> QED BY <1>1, <1>2, <2>1 DEF CountInv, Covered, Owed
<1>8. CASE RequeueDone(t)
  BY <1>2, <1>3, <1>8 DEF RequeueDone
<1>9. CASE DiscardCommit(t)
  BY <1>2, <1>3, <1>9 DEF DiscardCommit
<1>10. CASE DiscardDone(t)
  BY <1>2, <1>3, <1>10 DEF DiscardDone
<1>11. CASE AnnounceArrives(t) \/ RefreshTimerFires(t)
  BY <1>2, <1>3, <1>11 DEF AnnounceArrives, RefreshTimerFires
<1>12. CASE RefreshUsage(t) \/ RefreshEnds(t) \/ TimerFires(t)
  BY <1>2, <1>3, <1>12 DEF RefreshUsage, RefreshEnds, TimerFires
<1>13. CASE RefreshCommit(t)
  <2>1. CASE CounterRaced(t, "refresh")
    BY <1>2, <1>3, <1>13, <2>1 DEF RefreshCommit
  <2>2. CASE ~CounterRaced(t, "refresh")
    <3>1. /\ adding[t] = {} /\ pc[t] \notin TakenOut
          /\ op[t].what # "requeued"
          /\ pending'[t] = rfSeen[t] /\ rfSeen[t] = Cardinality(outbox)
          /\ UNCHANGED <<outbox, adding, pc, op>>
      BY <1>13, <2>2 DEF RefreshCommit, SeenInv, CounterRaced, Mutating
    <3>2. Cardinality(adding[t]) = 0
      BY <3>1, FS_EmptySet
    <3>3. Covered(t)' = Cardinality(outbox)
      BY <1>1, <3>1 DEF Covered
    <3>4. Cardinality(outbox') = Cardinality(outbox)
      BY <3>1, Zenon
    <3>5. Cardinality(adding'[t]) = 0 /\ pc'[t] \notin TakenOut
      BY <3>1, <3>2, Zenon
    <3>6. Owed(t)' = Cardinality(outbox)
      BY <1>1, <3>4, <3>5 DEF Owed
    <3> QED BY <1>1, <3>3, <3>6
  <2> QED BY <2>1, <2>2
<1>14. CASE StartRead(t)
  <2>1. /\ pending'[t] = Cardinality(outbox) /\ UNCHANGED outbox
        /\ adding'[t] = {} /\ op'[t].what = "none" /\ pc'[t] = "idle"
    BY <1>14 DEF StartRead, Forget, Handles
  <2> QED BY <1>1, <2>1, FS_EmptySet DEF Covered, Owed
<1>15. CASE StartDone(t) \/ Close(t)
  BY <1>2, <1>3, <1>15 DEF StartDone, Close
<1> QED BY <1>4, <1>5, <1>6, <1>7, <1>8, <1>9, <1>10, <1>11, <1>12, <1>13,
        <1>14, <1>15 DEF CallStep, RefreshStep, LifeStep

\* ... and nothing else lowers it but an enqueue() call whose transaction
\* aborts.
LEMMA StimulusCount ==
  ASSUME TypeInv, LoneTab, AddingFinite, CountInv, NEW t \in Tabs, Stimulus(t)
  PROVE  CountInv'
<1>1. /\ Cardinality(outbox) \in Nat /\ Cardinality(adding[t]) \in Nat
      /\ pending[t] \in Int
  BY Cards, FS_CardinalityType DEF AddingFinite, TypeInv, TypeOK, CounterTypes
<1>2. SUFFICES ASSUME life'[t] \in {"up", "stopping", "opening"}
               PROVE  Covered(t)' >= Owed(t)'
  BY DEF CountInv, LoneTab
<1>3. ASSUME UNCHANGED <<outbox, adding, pending>>,
             life[t] \in {"up", "stopping", "opening"},
             op'[t].what = "requeued" <=> op[t].what = "requeued",
             pc'[t] \in TakenOut => pc[t] \in TakenOut
      PROVE  Covered(t)' >= Owed(t)'
  BY <1>1, <1>2, <1>3 DEF CountInv, Covered, Owed
<1> USE DEF TypeInv, TypeOK, DrainerTypes, CounterTypes, CallTypes, NoOp,
       TakenOut, Goto, drainer, calls, store, counters, DrainCall
<1>4. ASSUME NEW w \in Writes, Enqueue(t, w) PROVE Covered(t)' >= Owed(t)'
  <2> DEFINE a == [id |-> w, by |-> who[t]]
  <2>1. /\ pending'[t] = pending[t] + 1 /\ a \notin adding[t]
        /\ adding'[t] = adding[t] \cup {a}
        /\ UNCHANGED <<life, op, outbox, pc>>
    BY <1>4 DEF Enqueue, IdsOf
  <2>2. Cardinality(adding'[t]) = Cardinality(adding[t]) + 1
    <3>1. IsFiniteSet(adding[t])
      BY DEF AddingFinite
    <3> QED BY <2>1, <3>1, GrowOne, Zenon
  <2> QED BY <1>1, <1>2, <2>1, <2>2 DEF CountInv, Covered, Owed
<1>5. ASSUME NEW w \in Ids, RetryCall(t, w) \/ DiscardCall(t, w)
      PROVE  Covered(t)' >= Owed(t)'
  BY <1>2, <1>3, <1>5 DEF RetryCall, DiscardCall
<1>6. CASE Flush(t) \/ Stop(t) \/ Crash(t)
  BY <1>2, <1>3, <1>6 DEF Flush, Stop, Crash
<1>7. CASE EnqueueFails(t)
  <2>1. PICK a \in adding[t] :
          /\ adding'[t] = adding[t] \ {a} /\ pending'[t] = pending[t] - 1
          /\ UNCHANGED <<life, op, outbox, pc>>
    BY <1>7 DEF EnqueueFails
  <2>2. IsFiniteSet(adding[t])
    BY DEF AddingFinite
  <2>3. Cardinality(adding'[t]) = Cardinality(adding[t]) - 1
    BY <2>1, <2>2, DropOne, Zenon
  <2>4. Cardinality(outbox') = Cardinality(outbox) /\ pc'[t] = pc[t]
    BY <2>1, Zenon
  <2>5. Covered(t)' = Covered(t) - 1 /\ Covered(t) \in Int
    BY <1>1, <2>1 DEF Covered
  <2> HIDE DEF TypeInv, TakenOut
  <2>6. Owed(t)' = Owed(t) - 1 /\ Owed(t) \in Int
    BY <1>1, <2>3, <2>4 DEF Owed
  <2>7. Covered(t) >= Owed(t)
    BY <1>2, <2>1 DEF CountInv
  <2> QED BY <2>5, <2>6, <2>7
<1>8. CASE CallFails(t)
  BY <1>2, <1>3, <1>8 DEF CallFails
<1>9. CASE SendFails(t)
  BY <1>2, <1>3, <1>9 DEF SendFails
<1>10. CASE StorageFails(t)
  BY <1>2, <1>3, <1>10 DEF StorageFails, DrainThrows, Leave
<1>11. CASE ReauthFails(t) \/ ReauthEmpty(t) \/ LateLogin(t)
             \/ ExpireCredential(t)
  BY <1>2, <1>3, <1>11 DEF ReauthFails, ReauthEmpty, LateLogin,
     ExpireCredential, Leave
<1> QED BY <1>4, <1>5, <1>6, <1>7, <1>8, <1>9, <1>10, <1>11 DEF Stimulus

\* CountInv is kept by every step.
LEMMA CountStep ==
  ASSUME TypeInv, KeysInv, LoneTab, AddingFinite, HeldInv, EmptyInv, SeenInv,
         CountInv, [Next]_vars
  PROVE  CountInv'
<1>1. UNCHANGED <<outbox, life, pc, pending, adding, op>> => CountInv'
  BY DEF CountInv, Covered, Owed
<1>2. ASSUME NEW m \in late, LateArrives(m)
      PROVE  CountInv'
  BY <1>1, <1>2 DEF LateArrives, store, drainer, calls, counters
<1>3. UNCHANGED vars => CountInv'
  BY <1>1 DEF vars, store, drainer, calls, counters
<1>4. FutureWrites = {}
  BY DEF LoneTab
<1> QED BY <1>2, <1>3, <1>4, DrainStepCount, OtherCount, StimulusCount
        DEF Next, Rest

\* A write put back by a retry() that is not counted yet is still there: the
\* drain loop does not hold it, and does not read the head before it is counted.
RequeuedInv ==
  \A t \in Tabs : op[t].what = "requeued" => \E r \in outbox \ accepted : r # cur[t]

\* The writes admitted, and stored as they were, are no more than the cap.
CapInv ==
  \A t \in Tabs :
    Cardinality(outbox \cap accepted) + Cardinality(adding[t]) <= MaxItems

\* RequeuedInv is kept by every step.
LEMMA RequeuedStep ==
  ASSUME TypeInv, KeysInv, IdsInv, StoredInv, LoneTab, RequeuedInv, [Next]_vars
  PROVE  RequeuedInv'
<1> SUFFICES ASSUME NEW t \in Tabs, op'[t].what = "requeued"
             PROVE  \E r \in outbox' \ accepted' : r # cur'[t]
  BY DEF RequeuedInv
<1>1. nextSeq \in Nat /\ RaceStep(t) /\ HoldStep(t)
  BY LoneSteps DEF TypeInv, TypeOK, StoreTypes
<1>2. CASE RequeueCommit(t) /\ op[t].what # "requeued"
  <2>1. PICK d \in dead : outbox' = outbox \cup {Requeued(d)}
    BY <1>2 DEF RequeueCommit, NoOp, TypeInv, TypeOK, CallTypes
  <2>2. Requeued(d).seq = nextSeq
    BY DEF Requeued, TypeInv, TypeOK, StoreTypes, Record
  <2>3. accepted' = accepted /\ cur' = cur
    BY <1>2 DEF RequeueCommit, history, drainer
  <2>4. Requeued(d) \notin accepted
    BY <1>1, <2>2 DEF StoredInv
  <2>5. Requeued(d) # cur[t]
    <3>1. ASSUME Requeued(d) = cur[t]
          PROVE  FALSE
      <4>1. cur[t] = NoRecord \/ cur[t].seq < nextSeq
        BY DEF KeysInv
      <4>2. Requeued(d) \in Record
        BY DEF Requeued, TypeInv, TypeOK, StoreTypes, Record
      <4> QED BY <1>1, <2>2, <3>1, <4>1, <4>2, NoRecordAssumption
    <3> QED BY <3>1
  <2> QED BY <2>1, <2>3, <2>4, <2>5
<1>3. CASE op[t].what = "requeued"
  <2>1. PICK r \in outbox \ accepted : r # cur[t]
    BY <1>3 DEF RequeuedInv
  <2>2. r \in Record /\ r.seq < nextSeq
    BY DEF KeysInv, TypeInv, TypeOK, StoreTypes
  <2>3. r \in outbox'
    <3>1. CASE outbox \subseteq outbox'
      BY <3>1
    <3>2. CASE RemoveCommit(t) \/ RetireCommit(t)
      <4>1. cur[t] # NoRecord
        BY <3>2, NoRecordAssumption
           DEF RemoveCommit, RetireCommit, TypeInv, Handles, Holding
      <4>2. r.seq # cur[t].seq
        BY <2>1, <4>1 DEF KeysInv
      <4> QED BY <3>2, <4>2 DEF RemoveCommit, RetireCommit
    <3> QED BY <3>1, <3>2, LoneOutbox
  <2>4. r \notin accepted'
    <3>1. \A x \in accepted' \ accepted : x.seq = nextSeq
      BY AcceptedSteps
    <3> QED BY <1>1, <2>1, <2>2, <3>1
  <2>5. r # cur'[t]
    BY <1>1, <1>3, <2>1, <2>2, NoRecordAssumption DEF HoldStep, ReadHead
  <2> QED BY <2>3, <2>4, <2>5
<1> QED BY <1>1, <1>2, <1>3 DEF RaceStep

\* Any step but enqueue() leaves the admitted writes as many or fewer: storing
\* a write moves it from the reserved ones.
LEMMA AdmittedSteps ==
  ASSUME TypeInv, KeysInv, IdsInv, StoredInv, LoneTab, AddingFinite, [Next]_vars,
         NEW t \in Tabs, \A w \in Writes : ~Enqueue(t, w)
  PROVE  Cardinality(outbox' \cap accepted') + Cardinality(adding'[t])
           <= Cardinality(outbox \cap accepted) + Cardinality(adding[t])
<1>1. IsFiniteSet(outbox \cap accepted) /\ IsFiniteSet(adding[t])
  BY FS_Subset DEF TypeInv, FiniteStores, AddingFinite
<1>2. /\ Cardinality(outbox \cap accepted) \in Nat
      /\ Cardinality(adding[t]) \in Nat
  BY <1>1, FS_CardinalityType
<1>3. CASE accepted' = accepted
  <2>1. adding'[t] \subseteq adding[t]
    BY AddingSteps DEF LoneTab
  <2>2. outbox' \cap accepted' \subseteq outbox \cap accepted
    <3>1. ASSUME NEW x \in outbox' \ outbox
          PROVE  x \notin accepted
      BY OutboxNew DEF StoredInv, TypeInv, TypeOK, StoreTypes
    <3> QED BY <1>3, <3>1
  <2>3. /\ IsFiniteSet(outbox' \cap accepted') /\ IsFiniteSet(adding'[t])
        /\ Cardinality(outbox' \cap accepted') <= Cardinality(outbox \cap accepted)
        /\ Cardinality(adding'[t]) <= Cardinality(adding[t])
    BY <1>1, <2>1, <2>2, FS_Subset
  <2>4. /\ Cardinality(outbox' \cap accepted') \in Nat
        /\ Cardinality(adding'[t]) \in Nat
    BY <2>3, FS_CardinalityType
  <2> QED BY <1>2, <2>3, <2>4
<1>4. CASE accepted' # accepted
  <2>1. EnqueueCommit(t)
    <3>1. \E u \in Tabs : EnqueueCommit(u)
      <4>1. \A u \in Tabs : RemoveCommit(u) \/ RetireCommit(u) \/ Trim(u)
                              \/ RequeueCommit(u) \/ DiscardCommit(u)
                                => accepted' = accepted
        BY DEF RemoveCommit, RetireCommit, Trim, RequeueCommit, DiscardCommit,
           history
      <4> QED BY <1>4, <4>1, StoreSteps DEF LoneTab, vars, history
    <3> QED BY <3>1 DEF LoneTab
  <2>2. PICK a \in adding[t] :
          /\ outbox' = outbox \cup {[seq |-> nextSeq, id |-> a.id, by |-> a.by]}
          /\ accepted' = accepted \cup {[seq |-> nextSeq, id |-> a.id, by |-> a.by]}
          /\ adding' = [adding EXCEPT ![t] = @ \ {a}]
    BY <2>1 DEF EnqueueCommit
  <2>3. adding'[t] = adding[t] \ {a}
    BY <2>2 DEF TypeInv, TypeOK, CallTypes
  <2>4. Cardinality(adding'[t]) = Cardinality(adding[t]) - 1
    BY <1>1, <2>3, DropOne, Zenon
  <2> DEFINE r == [seq |-> nextSeq, id |-> a.id, by |-> a.by]
  <2>5. r \notin outbox
    BY DEF KeysInv, TypeInv, TypeOK, StoreTypes
  <2>6. outbox' \cap accepted' = (outbox \cap accepted) \cup {r}
                                   \cup (outbox \cap {r}) \cup ({r} \cap accepted)
    BY <2>2
  <2>7. outbox' \cap accepted' = (outbox \cap accepted) \cup {r}
    BY <2>6
  <2> HIDE DEF r
  <2>8. Cardinality(outbox' \cap accepted') = Cardinality(outbox \cap accepted) + 1
    BY <1>1, <2>5, <2>7, FS_AddElement
  <2> QED BY <1>2, <2>4, <2>8
<1> QED BY <1>3, <1>4

\* CapInv is kept by every step: enqueue() compares the cap with a counter that
\* covers what is admitted and, while a retry() has a write back that it has not
\* counted, that write too.
LEMMA CapStep ==
  ASSUME TypeInv, KeysInv, IdsInv, StoredInv, LoneTab, AddingFinite, RequeuedInv,
         CountInv, CapInv, [Next]_vars
  PROVE  CapInv'
<1> SUFFICES ASSUME NEW t \in Tabs
             PROVE  Cardinality(outbox' \cap accepted') + Cardinality(adding'[t])
                      <= MaxItems
  BY DEF CapInv
<1>1. IsFiniteSet(outbox) /\ IsFiniteSet(outbox \cap accepted) /\ IsFiniteSet(adding[t])
  BY FS_Subset DEF TypeInv, FiniteStores, AddingFinite
<1>2. /\ Cardinality(outbox \cap accepted) \in Nat /\ Cardinality(outbox) \in Nat
      /\ Cardinality(adding[t]) \in Nat /\ MaxItems \in Nat
  BY <1>1, FS_CardinalityType, QueueAssumption
<1>3. ASSUME NEW w \in Writes, Enqueue(t, w)
      PROVE  Cardinality(outbox' \cap accepted') + Cardinality(adding'[t])
               <= MaxItems
  <2> DEFINE a == [id |-> w, by |-> who[t]]
  <2>1. /\ adding'[t] = adding[t] \cup {a} /\ a \notin adding[t]
        /\ outbox' = outbox /\ accepted' = accepted
        /\ life[t] \in {"up", "stopping"} /\ pending[t] + 1 <= MaxItems
    BY <1>3 DEF Enqueue, IdsOf, DbOpen, HasRoom, store, history, TypeInv,
       TypeOK, CallTypes
  <2> HIDE DEF a
  <2>2. Cardinality(adding'[t]) = Cardinality(adding[t]) + 1
    BY <1>1, <2>1, GrowOne, Zenon
  <2>3. Covered(t) >= Owed(t) /\ pending[t] \in Int
    BY <2>1 DEF CountInv, TypeInv, TypeOK, CounterTypes
  <2>4. pending[t] >= Cardinality(outbox \cap accepted) + Cardinality(adding[t])
    <3>1. CASE op[t].what # "requeued"
      <4>1. Cardinality(outbox \cap accepted) <= Cardinality(outbox)
        BY <1>1, FS_Subset
      <4> QED BY <1>2, <2>3, <3>1, <4>1 DEF Covered, Owed
    <3>2. CASE op[t].what = "requeued"
      <4>1. PICK r \in outbox : r \notin accepted
        BY <3>2 DEF RequeuedInv
      <4>2. /\ outbox \cap accepted \subseteq outbox \ {r}
            /\ IsFiniteSet(outbox \ {r})
            /\ Cardinality(outbox \ {r}) = Cardinality(outbox) - 1
        BY <1>1, <4>1, FS_RemoveElement
      <4>3. Cardinality(outbox \cap accepted) <= Cardinality(outbox \ {r})
        BY <4>2, FS_Subset
      <4>4. Cardinality(outbox \cap accepted) <= Cardinality(outbox) - 1
        BY <1>2, <4>2, <4>3
      <4> QED BY <1>2, <2>3, <3>2, <4>4 DEF Covered, Owed
    <3> QED BY <3>1, <3>2
  <2>5. Cardinality(outbox' \cap accepted') = Cardinality(outbox \cap accepted)
    BY <2>1, Zenon
  <2> QED BY <1>2, <2>1, <2>2, <2>3, <2>4, <2>5
<1>4. CASE \A w \in Writes : ~Enqueue(t, w)
  <2>1. Cardinality(outbox \cap accepted) + Cardinality(adding[t]) <= MaxItems
    BY DEF CapInv
  <2>2. /\ IsFiniteSet(outbox' \cap accepted') /\ IsFiniteSet(adding'[t])
    <3>1. FiniteStores' /\ AddingFinite'
      BY TypeStep, AddingFiniteStep DEF TypeInv
    <3> QED BY <3>1, FS_Subset DEF FiniteStores, AddingFinite
  <2>3. /\ Cardinality(outbox' \cap accepted') \in Nat
        /\ Cardinality(adding'[t]) \in Nat
    BY <2>2, FS_CardinalityType
  <2>4. Cardinality(outbox' \cap accepted') + Cardinality(adding'[t])
          <= Cardinality(outbox \cap accepted) + Cardinality(adding[t])
    BY <1>4, AdmittedSteps
  <2> QED BY <1>2, <2>1, <2>3, <2>4
<1> QED BY <1>3, <1>4

\* What a lone tab's counter knows, and what it is good for.
LoneInv ==
  /\ AddingFinite /\ HeldInv /\ EmptyInv /\ SeenInv /\ CountInv /\ RequeuedInv
  /\ CapInv

\* LoneInv holds at the start: nothing is stored, reserved or read.
LEMMA LoneInit == Init => LoneInv
<1> SUFFICES ASSUME Init PROVE LoneInv
  OBVIOUS
<1>1. Cardinality({}) = 0 /\ IsFiniteSet({}) /\ {} \cap {} = {}
  BY FS_EmptySet
<1>2. AddingFinite /\ HeldInv /\ EmptyInv /\ SeenInv /\ RequeuedInv
  BY <1>1 DEF Init, AddingFinite, HeldInv, HoldingHead, EmptyInv, SeenInv,
     RequeuedInv, NoOp
<1>3. CountInv
  BY <1>1 DEF Init, CountInv, Covered, Owed, NoOp, TakenOut
<1>4. CapInv
  BY <1>1, QueueAssumption DEF Init, CapInv
<1> QED BY <1>2, <1>3, <1>4 DEF LoneInv

\* LoneInv is inductive, for a lone tab.
LEMMA LoneInvariant ==
  ASSUME LoneTab
  PROVE  Spec => []LoneInv
<1>1. Init => LoneInv /\ FifoInv
  BY LoneInit, FifoInit
<1>2. TypeInv /\ LostInv /\ FifoInv /\ LoneInv /\ [Next]_vars => LoneInv'
  <2> SUFFICES ASSUME TypeInv, LostInv, FifoInv, LoneInv, [Next]_vars
               PROVE  LoneInv'
    OBVIOUS
  <2>1. KeysInv /\ IdsInv /\ StoredInv
    BY DEF LostInv, FifoInv
  <2>2. /\ AddingFinite /\ HeldInv /\ EmptyInv /\ SeenInv /\ CountInv
        /\ RequeuedInv /\ CapInv
    BY DEF LoneInv
  <2>3. AddingFinite' /\ HeldInv' /\ EmptyInv' /\ SeenInv'
    BY <2>2, AddingFiniteStep, HeldStep, EmptyStep, SeenStep
  <2>4. CountInv'
    BY <2>1, <2>2, CountStep
  <2>5. RequeuedInv' /\ CapInv'
    BY <2>1, <2>2, RequeuedStep, CapStep
  <2> QED BY <2>3, <2>4, <2>5 DEF LoneInv
<1>3. TypeInv /\ LostInv /\ FifoInv /\ [Next]_vars => FifoInv'
  BY FifoInvStep
<1> QED BY <1>1, <1>2, <1>3, TypeInvariant, LostInvariant, PTL DEF Spec

\* The counter the cap is checked against never falls below what is stored or
\* reserved: for a lone tab, whatever calls overlap, fail, stop and crash.
THEOREM CounterCovers ==
  ASSUME LoneTab
  PROVE  Spec => []NeverUnderCounts
<1>1. TypeInv /\ LoneInv => NeverUnderCounts
  <2> SUFFICES ASSUME TypeInv, LoneInv, NEW t \in Tabs,
                      life[t] \in {"up", "stopping"}
               PROVE  Covered(t) >= Cardinality(outbox) + Cardinality(adding[t])
    BY DEF NeverUnderCounts, Covered
  <2>1. /\ Cardinality(outbox) \in Nat /\ Cardinality(adding[t]) \in Nat
        /\ pending[t] \in Int
    BY Cards, FS_CardinalityType
       DEF LoneInv, AddingFinite, TypeInv, TypeOK, CounterTypes
  <2>2. Covered(t) >= Owed(t)
    BY DEF LoneInv, CountInv
  <2> QED BY <2>1, <2>2 DEF Covered, Owed
<1> QED BY <1>1, LoneInvariant, TypeInvariant, PTL

\* A lone tab admits no more writes than maxItems, whatever calls overlap.
THEOREM CapIsKept ==
  ASSUME LoneTab, Tabs # {}
  PROVE  Spec => []CapHolds
<1>1. TypeInv /\ LoneInv => CapHolds
  <2> SUFFICES ASSUME TypeInv, LoneInv
               PROVE  CapHolds
    OBVIOUS
  <2>1. PICK t : t \in Tabs
    OBVIOUS
  <2>2. IsFiniteSet(outbox \cap accepted) /\ IsFiniteSet(adding[t])
    BY <2>1, FS_Subset DEF LoneInv, AddingFinite, TypeInv, FiniteStores
  <2>3. /\ Cardinality(outbox \cap accepted) \in Nat
        /\ Cardinality(adding[t]) \in Nat
    BY <2>2, FS_CardinalityType
  <2> QED BY <2>1, <2>3, QueueAssumption DEF LoneInv, CapInv, CapHolds
<1> QED BY <1>1, LoneInvariant, TypeInvariant, PTL

-----------------------------------------------------------------------------
(* The dead letters.                                                       *)

\* The dead letters this build can read, and so evict.
Evictable == {d \in dead : d.id \notin FutureWrites}

\* An eviction leaves no more of them than the cap: below the oldest one it
\* leaves are at least as many as it had to evict.
LEMMA EvictionEnough ==
  ASSUME TypeInv
  PROVE  Cardinality(Evictable \ Excess) <= MaxDeadLettered
<1> DEFINE Older(d) == {e \in Evictable : e.seq < d.seq}
           Left     == Evictable \ Excess
<1>1. /\ IsFiniteSet(Evictable) /\ IsFiniteSet(Left)
      /\ Cardinality(Evictable) <= Cardinality(dead)
  BY FS_Subset DEF TypeInv, FiniteStores, Evictable
<1>2. /\ Cardinality(dead) \in Nat /\ Cardinality(Evictable) \in Nat
      /\ Cardinality(Left) \in Nat /\ MaxDeadLettered \in Nat
  BY <1>1, FS_CardinalityType, QueueAssumption DEF TypeInv, FiniteStores
<1>3. CASE Left = {}
  BY <1>2, <1>3, FS_EmptySet
<1>4. CASE Left # {}
  <2>1. \A d \in Evictable : d.seq \in Nat
    BY DEF Evictable, TypeInv, TypeOK, StoreTypes, Record
  <2>2. PICK d \in Left : \A e \in Left : d.seq <= e.seq
    <3> HIDE DEF Left
    <3>1. \A e \in Left : e.seq \in Nat
      BY <2>1 DEF Left
    <3> QED BY <1>4, <3>1, LowestKey
  <2>3. ~(Cardinality(Older(d)) < Cardinality(dead) - MaxDeadLettered)
    BY <2>2 DEF Excess, Evictable
  <2>4. Older(d) \subseteq Evictable /\ Older(d) \cap Left = {}
    BY <2>1, <2>2
  <2> HIDE DEF Older, Left
  <2>5. /\ IsFiniteSet(Older(d)) /\ Cardinality(Older(d)) \in Nat
    BY <1>1, <2>4, FS_Subset, FS_CardinalityType
  <2>6. Cardinality(Older(d) \cup Left) = Cardinality(Older(d)) + Cardinality(Left)
    <3>1. Cardinality(Older(d) \cup Left)
            = Cardinality(Older(d)) + Cardinality(Left) - Cardinality(Older(d) \cap Left)
      BY <1>1, <2>5, FS_Union
    <3>2. Cardinality(Older(d) \cap Left) = 0
      BY <2>4, FS_EmptySet
    <3> QED BY <1>2, <2>5, <3>1, <3>2
  <2>7. Cardinality(Older(d) \cup Left) <= Cardinality(Evictable)
    <3>1. Older(d) \cup Left \subseteq Evictable
      BY <2>4 DEF Left
    <3> QED BY <1>1, <3>1, FS_Subset
  <2> QED BY <1>1, <1>2, <2>3, <2>5, <2>6, <2>7 DEF Left
<1> QED BY <1>3, <1>4

\* A tab that will count the dead letters before it retires another write
\* without an eviction: its counter is at the cap, it is retiring one, or its
\* page is gone.
Open == {"up", "stopping", "opening"}

Retiring == {"retired", "trim", "trimmed", "tally"}

Full(t) == deadCount[t] >= MaxDeadLettered

Counted(t) ==
  \/ life[t] = "down"
  \/ life[t] = "closed" /\ pc[t] # "retire"
  \/ life[t] \in Open /\ (Full(t) \/ pc[t] \in Retiring)

\* A tab that is about to evict.
Evicting(t) == life[t] \in Open /\ Full(t) /\ pc[t] \in {"retired", "trim"}

\* How many dead letters over the first MaxDeadLettered - 1 a tab accounts for.
Weight(t) == (IF Counted(t) THEN 1 ELSE 0) + (IF Evicting(t) THEN 1 ELSE 0)
               - (IF life[t] = "stopping" THEN 1 ELSE 0)

Counteds  == {t \in Tabs : Counted(t)}
Evictings == {t \in Tabs : Evicting(t)}
Stoppings == {t \in Tabs : life[t] = "stopping"}

\* The dead letters are no more than the tabs account for, with one more for
\* each fault, crash and stop; and the tabs that are stopping have been stopped.
DeadInv ==
  /\ Cardinality(Evictable) + Cardinality(Stoppings)
       <= MaxDeadLettered - 1 + Cardinality(Counteds) + Cardinality(Evictings)
            + faults + starts
  /\ Cardinality(Stoppings) <= starts

\* What a step of t does to the account.
WeightStep(t) ==
  /\ \A u \in Tabs \ {t} :
       /\ life'[u] = life[u]
       /\ Counted(u)' <=> Counted(u)
       /\ Evicting(u)' <=> Evicting(u)
  /\ faults' >= faults /\ starts' >= starts
  /\ life'[t] = "stopping" => life[t] = "stopping" \/ starts' = starts + 1
  /\ \/ Trim(t) /\ Counted(t)'
     \/ Cardinality(dead') < MaxDeadLettered
     \/ Weight(t)' + faults' + starts' >= Weight(t) + faults + starts

\* A drain loop that retires a write accounts for it, until it has evicted
\* enough or counted what there is ...
LEMMA DrainStepWeight ==
  ASSUME TypeInv, NEW t \in Tabs, DrainStep(t)
  PROVE  WeightStep(t)
<1> USE QueueAssumption
<1> USE DEF TypeInv, TypeOK, DrainerTypes, CounterTypes, WeightStep, Weight,
       Counted, Evicting, Full, Open, Retiring, Goto, bounds, counters
<1>1. CASE AcquireLock(t) \/ LockBusy(t) \/ SessionStopped(t) \/ ReadHead(t)
  BY <1>1 DEF AcquireLock, LockBusy, SessionStopped, ReadHead, Leave
<1>2. CASE HeadEmpty(t) \/ HeadBlocked(t) \/ HeadSend(t)
  BY <1>2 DEF HeadEmpty, HeadBlocked, HeadSend
<1>3. CASE HeadRetires(t)
  BY <1>3 DEF HeadRetires, Retire, DrainThrows, Leave
<1>4. CASE EngineRejects(t)
  BY <1>4 DEF EngineRejects, Retire, DrainThrows, Leave
<1>5. CASE StorageClosed(t)
  BY <1>5 DEF StorageClosed, DrainThrows, Leave
<1>6. CASE EngineAccepts(t) \/ EngineUnauthenticated(t)
  BY <1>6 DEF EngineAccepts, EngineUnauthenticated
<1>7. CASE RemoveCommit(t) \/ RemoveDone(t)
  BY <1>7 DEF RemoveCommit, RemoveDone
<1>8. CASE RetireCommit(t)
  BY <1>8 DEF RetireCommit, Handles
<1>9. CASE RetireTrims(t)
  BY <1>9 DEF RetireTrims
<1>10. CASE Trim(t)
  BY <1>10 DEF Trim, Handles
<1>11. CASE RetireTally(t)
  BY <1>11 DEF RetireTally, MustTrim
<1>12. CASE RetireDone(t)
  <2>1. deadCount'[t] = Cardinality(dead') /\ Cardinality(dead') \in Nat
    BY <1>12, Cards DEF RetireDone, store
  <2> QED BY <1>12, <2>1 DEF RetireDone
<1>13. CASE SessionEnds(t) \/ ReauthSettles(t)
  BY <1>13 DEF SessionEnds, ReauthSettles, Leave, Ends
<1> QED BY <1>1, <1>2, <1>3, <1>4, <1>5, <1>6, <1>7, <1>8, <1>9, <1>10, <1>11,
        <1>12, <1>13 DEF DrainStep

\* ... calls, refresh passes and start() count what there is ...
LEMMA OtherWeight ==
  ASSUME TypeInv, NEW t \in Tabs,
         CallStep(t) \/ RefreshStep(t) \/ TimerFires(t) \/ LifeStep(t)
  PROVE  WeightStep(t)
<1> USE QueueAssumption
<1> USE DEF TypeInv, TypeOK, DrainerTypes, CounterTypes, WeightStep, Weight,
       Counted, Evicting, Full, Open, Retiring, Goto, bounds, counters, drainer,
       DrainCall
<1>1. Cardinality(dead) \in Nat
  BY Cards
<1>2. CASE EnqueueCommit(t) \/ RequeueCommit(t) \/ RequeueTally(t) \/ DiscardCommit(t)
  BY <1>2 DEF EnqueueCommit, RequeueCommit, RequeueTally, DiscardCommit
<1>3. CASE EnqueueDone(t) \/ TimerFires(t)
  BY <1>3 DEF EnqueueDone, TimerFires
<1>4. CASE RequeueDone(t) \/ DiscardDone(t)
  <2>1. deadCount'[t] = Cardinality(dead') /\ Cardinality(dead') \in Nat
    BY <1>1, <1>4 DEF RequeueDone, DiscardDone, store
  <2> QED BY <1>4, <2>1 DEF RequeueDone, DiscardDone
<1>5. CASE AnnounceArrives(t) \/ RefreshTimerFires(t) \/ RefreshUsage(t)
             \/ RefreshEnds(t)
  BY <1>5 DEF AnnounceArrives, RefreshTimerFires, RefreshUsage, RefreshEnds
<1>6. CASE RefreshCommit(t)
  <2>1. \/ deadCount'[t] = deadCount[t]
        \/ deadCount'[t] = Cardinality(dead') /\ Cardinality(dead') \in Nat
    BY <1>1, <1>6 DEF RefreshCommit, store
  <2> QED BY <1>6, <2>1 DEF RefreshCommit
<1>7. CASE StartRead(t)
  <2>1. deadCount'[t] = Cardinality(dead') /\ Cardinality(dead') \in Nat
    BY <1>1, <1>7 DEF StartRead, store
  <2>2. pc'[t] = "idle" /\ pc[t] = "idle"
    BY <1>7 DEF StartRead, Handles
  <2> QED BY <1>7, <2>1, <2>2 DEF StartRead
<1>8. CASE StartDone(t)
  BY <1>8 DEF StartDone, Handles
<1>9. CASE Close(t)
  BY <1>9 DEF Close
<1> QED BY <1>2, <1>3, <1>4, <1>5, <1>6, <1>7, <1>8, <1>9
        DEF CallStep, RefreshStep, LifeStep

\* ... and a fault, a stop or a crash between the two transactions of a
\* retirement leaves one more.
LEMMA StimulusWeight ==
  ASSUME TypeInv, NEW t \in Tabs, Stimulus(t)
  PROVE  WeightStep(t)
<1> USE QueueAssumption
<1> USE DEF TypeInv, TypeOK, DrainerTypes, CounterTypes, WeightStep, Weight,
       Counted, Evicting, Full, Open, Retiring, Goto, bounds, counters, drainer,
       DrainCall, Fault
<1>1. ASSUME NEW w \in Ids, Enqueue(t, w) \/ RetryCall(t, w) \/ DiscardCall(t, w)
      PROVE  WeightStep(t)
  BY <1>1 DEF Enqueue, RetryCall, DiscardCall
<1>2. CASE Flush(t)
  BY <1>2 DEF Flush
<1>3. CASE Stop(t)
  BY <1>3 DEF Stop
<1>4. CASE Crash(t)
  BY <1>4 DEF Crash
<1>5. CASE EnqueueFails(t) \/ CallFails(t) \/ SendFails(t)
  BY <1>5 DEF EnqueueFails, CallFails, SendFails
<1>6. CASE StorageFails(t)
  BY <1>6 DEF StorageFails, DrainThrows, Leave
<1>7. CASE ReauthFails(t) \/ ReauthEmpty(t) \/ LateLogin(t)
             \/ ExpireCredential(t)
  BY <1>7 DEF ReauthFails, ReauthEmpty, LateLogin, ExpireCredential, Leave
<1> QED BY <1>1, <1>2, <1>3, <1>4, <1>5, <1>6, <1>7 DEF Stimulus, Ids

\* What any step does to the dead letters this build can read.
LEMMA EvictableSteps ==
  ASSUME TypeInv, [Next]_vars
  PROVE  \/ Evictable' \subseteq Evictable
         \/ \E t \in Tabs : RetireCommit(t) /\ Evictable' \subseteq Evictable \cup {cur[t]}
<1> USE DEF Evictable, store, vars
<1>1. ASSUME NEW t \in Tabs, \/ EnqueueCommit(t) \/ RemoveCommit(t) \/ Trim(t)
                             \/ RequeueCommit(t) \/ DiscardCommit(t)
      PROVE  Evictable' \subseteq Evictable
  BY <1>1 DEF EnqueueCommit, RemoveCommit, Trim, RequeueCommit, DiscardCommit
<1>2. ASSUME NEW t \in Tabs, RetireCommit(t)
      PROVE  Evictable' \subseteq Evictable \cup {cur[t]}
  BY <1>2 DEF RetireCommit
<1>3. ASSUME NEW f \in FutureWrites,
             NewerAppends(f) \/ NewerRemoves(f) \/ NewerRetires(f)
      PROVE  Evictable' \subseteq Evictable
  BY <1>3 DEF NewerAppends, NewerRemoves, NewerRetires
<1> QED BY <1>1, <1>2, <1>3, StoreSteps

\* A set that differs from another in t alone differs from it in size by that.
LEMMA OneApart ==
  ASSUME NEW S, NEW T, NEW t, IsFiniteSet(S), IsFiniteSet(T), S \ {t} = T \ {t}
  PROVE  Cardinality(T) = Cardinality(S) + (IF t \in T THEN 1 ELSE 0)
                                         - (IF t \in S THEN 1 ELSE 0)
<1>1. /\ Cardinality(S \ {t}) = IF t \in S THEN Cardinality(S) - 1 ELSE Cardinality(S)
      /\ Cardinality(T \ {t}) = IF t \in T THEN Cardinality(T) - 1 ELSE Cardinality(T)
  BY FS_RemoveElement
<1>2. Cardinality(S \ {t}) = Cardinality(T \ {t})
  BY Zenon
<1>3. Cardinality(S) \in Nat /\ Cardinality(T) \in Nat
  BY FS_CardinalityType
<1> QED BY <1>1, <1>2, <1>3

\* One element makes a set larger by one at most.
LEMMA OneMore ==
  ASSUME NEW S, NEW T, NEW x, IsFiniteSet(S), T \subseteq S \cup {x}
  PROVE  Cardinality(T) <= Cardinality(S) + 1
<1>1. /\ IsFiniteSet(S \cup {x})
      /\ Cardinality(S \cup {x}) = Cardinality(S) \/
           Cardinality(S \cup {x}) = Cardinality(S) + 1
  BY FS_AddElement
<1>2. IsFiniteSet(T) /\ Cardinality(T) <= Cardinality(S \cup {x})
  BY <1>1, FS_Subset
<1>3. Cardinality(S) \in Nat /\ Cardinality(T) \in Nat
  BY <1>2, FS_CardinalityType
<1> QED BY <1>1, <1>2, <1>3

\* The account of all the tabs moves with that of the tab that takes the step.
LEMMA AccountSteps ==
  ASSUME IsFiniteSet(Tabs), NEW t \in Tabs, WeightStep(t)
  PROVE  Cardinality(Counteds)' + Cardinality(Evictings)' - Cardinality(Stoppings)'
           = Cardinality(Counteds) + Cardinality(Evictings) - Cardinality(Stoppings)
               + Weight(t)' - Weight(t)
<1>1. /\ IsFiniteSet(Counteds) /\ IsFiniteSet(Evictings) /\ IsFiniteSet(Stoppings)
      /\ IsFiniteSet(Counteds') /\ IsFiniteSet(Evictings')
      /\ IsFiniteSet(Stoppings')
  BY FS_Subset DEF Counteds, Evictings, Stoppings
<1>2. /\ Counteds \ {t} = Counteds' \ {t} /\ Evictings \ {t} = Evictings' \ {t}
      /\ Stoppings \ {t} = Stoppings' \ {t}
  BY DEF WeightStep, Counteds, Evictings, Stoppings
<1>3. /\ (t \in Counteds <=> Counted(t)) /\ (t \in Counteds' <=> Counted(t)')
      /\ (t \in Evictings <=> Evicting(t)) /\ (t \in Evictings' <=> Evicting(t)')
      /\ (t \in Stoppings <=> life[t] = "stopping")
      /\ (t \in Stoppings' <=> life'[t] = "stopping")
  BY DEF Counteds, Evictings, Stoppings
<1>4. /\ Cardinality(Counteds') = Cardinality(Counteds)
                                    + (IF t \in Counteds' THEN 1 ELSE 0)
                                    - (IF t \in Counteds THEN 1 ELSE 0)
      /\ Cardinality(Evictings') = Cardinality(Evictings)
                                    + (IF t \in Evictings' THEN 1 ELSE 0)
                                    - (IF t \in Evictings THEN 1 ELSE 0)
      /\ Cardinality(Stoppings') = Cardinality(Stoppings)
                                    + (IF t \in Stoppings' THEN 1 ELSE 0)
                                    - (IF t \in Stoppings THEN 1 ELSE 0)
  BY <1>1, <1>2, OneApart
<1>5. /\ Cardinality(Counteds) \in Nat /\ Cardinality(Evictings) \in Nat
      /\ Cardinality(Stoppings) \in Nat
  BY <1>1, FS_CardinalityType
<1> QED BY <1>3, <1>4, <1>5 DEF Weight

\* A retirement is accounted for by the tab that commits it.
LEMMA RetireWeight ==
  ASSUME TypeInv, NEW t \in Tabs, RetireCommit(t)
  PROVE  WeightStep(t) /\ Weight(t)' = Weight(t) + 1
<1>1. WeightStep(t)
  BY DrainStepWeight DEF DrainStep
<1>2. life[t] \in {"up", "stopping", "closed"}
  BY DEF RetireCommit, TypeInv, TypeOK, DrainerTypes, Handles
<1> QED BY <1>1, <1>2, QueueAssumption
        DEF RetireCommit, Weight, Counted, Evicting, Full, Open, Retiring, Goto,
            bounds, counters, TypeInv, TypeOK, DrainerTypes, CounterTypes

\* Any step is one tab's, or changes nothing that the account depends on.
LEMMA StepWeights ==
  ASSUME TypeInv, [Next]_vars
  PROVE  \/ \E t \in Tabs : WeightStep(t)
         \/ UNCHANGED <<life, pc, deadCount, faults, starts>>
<1> USE DEF vars, drainer, counters, bounds
<1>1. ASSUME NEW t \in Tabs, \/ DrainStep(t) \/ CallStep(t) \/ RefreshStep(t)
                             \/ TimerFires(t) \/ LifeStep(t) \/ Stimulus(t)
      PROVE  WeightStep(t)
  BY <1>1, DrainStepWeight, OtherWeight, StimulusWeight
<1>2. ASSUME NEW m \in late, LateArrives(m)
      PROVE  UNCHANGED <<life, pc, deadCount, faults, starts>>
  BY <1>2 DEF LateArrives
<1>3. ASSUME NEW f \in FutureWrites, \/ NewerAppends(f) \/ NewerSends(f)
                                     \/ NewerRemoves(f) \/ NewerRetires(f)
      PROVE  UNCHANGED <<life, pc, deadCount, faults, starts>>
  BY <1>3 DEF NewerAppends, NewerSends, NewerRemoves, NewerRetires
<1> QED BY <1>1, <1>2, <1>3 DEF Next, Rest

\* DeadInv is kept by every step.
LEMMA DeadStep ==
  ASSUME TypeInv, TypeInv', IsFiniteSet(Tabs), DeadInv, [Next]_vars
  PROVE  DeadInv'
<1>1. /\ IsFiniteSet(Evictable) /\ IsFiniteSet(Evictable')
      /\ Cardinality(Evictable)' <= Cardinality(dead')
  BY FS_Subset DEF TypeInv, FiniteStores, Evictable
<1>2. /\ IsFiniteSet(Counteds) /\ IsFiniteSet(Evictings) /\ IsFiniteSet(Stoppings)
      /\ IsFiniteSet(Counteds') /\ IsFiniteSet(Evictings')
      /\ IsFiniteSet(Stoppings')
  BY FS_Subset DEF Counteds, Evictings, Stoppings
<1>3. /\ Cardinality(Evictable) \in Nat /\ Cardinality(Evictable)' \in Nat
      /\ Cardinality(Counteds) \in Nat /\ Cardinality(Counteds)' \in Nat
      /\ Cardinality(Evictings) \in Nat /\ Cardinality(Evictings)' \in Nat
      /\ Cardinality(Stoppings) \in Nat /\ Cardinality(Stoppings)' \in Nat
      /\ Cardinality(dead') \in Nat
  BY <1>1, <1>2, FS_CardinalityType DEF TypeInv, FiniteStores
<1>4. /\ MaxDeadLettered \in Nat /\ faults \in Nat /\ starts \in Nat
      /\ faults' \in Nat /\ starts' \in Nat
  BY QueueAssumption DEF TypeInv, TypeOK, CounterTypes
<1>5. ASSUME NEW t \in Tabs, WeightStep(t)
      PROVE  Cardinality(Stoppings)' <= starts'
  <2>1. Stoppings \ {t} = Stoppings' \ {t}
    BY <1>5 DEF WeightStep, Stoppings
  <2>2. Cardinality(Stoppings') = Cardinality(Stoppings)
                                    + (IF t \in Stoppings' THEN 1 ELSE 0)
                                    - (IF t \in Stoppings THEN 1 ELSE 0)
    BY <1>2, <2>1, OneApart
  <2>3. /\ starts' >= starts
        /\ t \in Stoppings' => t \in Stoppings \/ starts' = starts + 1
    BY <1>5 DEF WeightStep, Stoppings
  <2> QED BY <1>3, <1>4, <2>2, <2>3 DEF DeadInv
<1>6. CASE \E t \in Tabs : RetireCommit(t)
  <2>1. PICK t \in Tabs : RetireCommit(t)
    BY <1>6
  <2>2. WeightStep(t) /\ Weight(t)' = Weight(t) + 1
    BY <2>1, RetireWeight
  <2>3. Evictable' \subseteq Evictable \cup {cur[t]}
    BY <2>1 DEF RetireCommit, Evictable
  <2>4. Cardinality(Evictable)' <= Cardinality(Evictable) + 1
    BY <1>1, <2>3, OneMore
  <2>5. Weight(t) \in Int /\ Weight(t)' \in Int
    BY DEF Weight
  <2>6. faults' >= faults /\ starts' >= starts
    BY <2>2 DEF WeightStep
  <2> QED BY <1>3, <1>4, <1>5, <2>2, <2>4, <2>5, <2>6, AccountSteps DEF DeadInv
<1>7. ASSUME ~\E t \in Tabs : RetireCommit(t)
      PROVE  DeadInv'
  <2>1. Evictable' \subseteq Evictable
    BY <1>7, EvictableSteps
  <2>2. Cardinality(Evictable)' <= Cardinality(Evictable)
    BY <1>1, <2>1, FS_Subset
  <2>3. CASE UNCHANGED <<life, pc, deadCount, faults, starts>>
    <3>1. /\ Counteds' = Counteds /\ Evictings' = Evictings
          /\ Stoppings' = Stoppings
      BY <2>3 DEF Counteds, Evictings, Stoppings, Counted, Evicting, Full
    <3>2. /\ Cardinality(Counteds)' = Cardinality(Counteds)
          /\ Cardinality(Evictings)' = Cardinality(Evictings)
          /\ Cardinality(Stoppings)' = Cardinality(Stoppings)
      BY <3>1
    <3> QED BY <1>3, <1>4, <2>2, <2>3, <3>2 DEF DeadInv
  <2>4. ASSUME NEW t \in Tabs, WeightStep(t)
        PROVE  DeadInv'
    <3>1. CASE Trim(t) /\ Counted(t)'
      <4>1. Evictable' = Evictable \ Excess
        BY <3>1 DEF Trim, Evictable
      <4>2. Cardinality(Evictable)' <= MaxDeadLettered
        BY <4>1, EvictionEnough
      <4>3. t \in Counteds'
        BY <3>1 DEF Counteds
      <4>4. Cardinality(Counteds)' >= 1
        BY <1>2, <1>3, <4>3, FS_EmptySet
      <4> QED BY <1>3, <1>4, <1>5, <2>4, <4>2, <4>4 DEF DeadInv
    <3>2. CASE Cardinality(dead') < MaxDeadLettered
      BY <1>1, <1>3, <1>4, <1>5, <2>4, <3>2 DEF DeadInv
    <3>3. CASE Weight(t)' + faults' + starts' >= Weight(t) + faults + starts
      <4>1. Weight(t) \in Int /\ Weight(t)' \in Int
        BY DEF Weight
      <4> QED BY <1>3, <1>4, <1>5, <2>2, <2>4, <3>3, <4>1, AccountSteps DEF DeadInv
    <3> QED BY <2>4, <3>1, <3>2, <3>3 DEF WeightStep
  <2> QED BY <2>3, <2>4, StepWeights
<1> QED BY <1>6, <1>7

\* Between two retirements the dead letters exceed their cap by one per sibling
\* at most, and by one for each fault, stop or crash: for any number of tabs and
\* any cap, although each tab decides to evict from a counter its siblings make
\* stale.
THEOREM DeadLettersBounded ==
  ASSUME IsFiniteSet(Tabs), Tabs # {}
  PROVE  Spec => []DeadLetterBound
<1>1. Init => DeadInv
  <2> SUFFICES ASSUME Init PROVE DeadInv
    OBVIOUS
  <2>1. Evictable = {} /\ Stoppings = {} /\ Evictings = {}
    BY DEF Init, Evictable, Stoppings, Evicting, Evictings
  <2>2. /\ Cardinality(Evictable) = 0 /\ Cardinality(Stoppings) = 0
        /\ Cardinality(Evictings) = 0
    BY <2>1, FS_EmptySet
  <2>3. IsFiniteSet(Counteds) /\ Cardinality(Counteds) \in Nat
    BY FS_Subset, FS_CardinalityType DEF Counteds
  <2>4. MaxDeadLettered = 0 => Cardinality(Counteds) >= 1
    <3>1. MaxDeadLettered = 0 => Counteds = Tabs
      BY DEF Init, Counteds, Counted, Full, Open
    <3> QED BY <2>3, <3>1, FS_EmptySet
  <2>5. faults = 0 /\ starts = 0
    BY DEF Init
  <2> QED BY <2>2, <2>3, <2>4, <2>5, QueueAssumption DEF DeadInv
<1>2. TypeInv /\ TypeInv' /\ DeadInv /\ [Next]_vars => DeadInv'
  BY DeadStep
<1>3. TypeInv /\ DeadInv => DeadLetterBound
  <2> SUFFICES ASSUME TypeInv, DeadInv,
                      \A t \in Tabs : pc[t] \notin {"retired", "trim"}
               PROVE  Cardinality(Evictable)
                        <= MaxDeadLettered + Cardinality(Tabs) - 1 + faults + starts
    BY DEF DeadLetterBound, Evictable
  <2>1. Evictings = {}
    BY DEF Evictings, Evicting
  <2>2. Cardinality(Evictings) = 0
    BY <2>1, FS_EmptySet
  <2>3. Cardinality(Counteds) <= Cardinality(Tabs)
    BY FS_Subset DEF Counteds
  <2>4. /\ IsFiniteSet(Counteds) /\ IsFiniteSet(Stoppings)
        /\ IsFiniteSet(Evictable)
    BY FS_Subset DEF Counteds, Stoppings, Evictable, TypeInv, FiniteStores
  <2>5. /\ Cardinality(Counteds) \in Nat /\ Cardinality(Stoppings) \in Nat
        /\ Cardinality(Evictable) \in Nat /\ Cardinality(Tabs) \in Nat
    BY <2>4, FS_CardinalityType
  <2>6. MaxDeadLettered \in Nat /\ faults \in Nat /\ starts \in Nat
    BY QueueAssumption DEF TypeInv, TypeOK, CounterTypes
  <2> QED BY <2>2, <2>3, <2>5, <2>6 DEF DeadInv
<1> QED BY <1>1, <1>2, <1>3, TypeInvariant, PTL DEF Spec

-----------------------------------------------------------------------------
(* OfflineQueue where the browser has Web Locks: a write is in one place,   *)
(* and the queue implements WriteOutbox.                                    *)

\* r is the record a drain loop would read.
IsHead(r) == r \in outbox /\ \A s \in outbox : r.seq <= s.seq

\* Whether w may take effect: it has, it was dead-lettered and may be on its
\* way, or it is first in line.
MayTakeEffect(w) ==
  w \in Effects \/ w \in everDead \/ \E r \in outbox : IsHead(r) /\ r.id = w

\* OnePlace, strengthened: a localId names one record of a store, the record a
\* drain loop is working on is still the head, and so is that of a request
\* whose sender gave it up, until it takes effect or is a dead letter.
PlaceInv ==
  /\ \A r, s \in outbox : r.id = s.id => r = s
  /\ \A d, e \in dead : d.id = e.id => d = e
  /\ IdsOf(outbox) \cap IdsOf(dead) = {}
  /\ delivered \cap (IdsOf(outbox) \cup IdsOf(dead)) = {}
  /\ \A t \in Tabs :
       pc[t] \in HoldingHead /\ cur[t] # NoRecord => IsHead(cur[t])
  /\ \A m \in late : MayTakeEffect(m.id)

\* Everything the steps below rely on.
AllInv == TypeInv /\ MutexInv /\ LostInv /\ FifoInv

\* A record leaves the outbox through the drain loop that holds it, or through
\* the newer build when no drain loop has the lock.
LEMMA OutboxLeaves ==
  ASSUME TypeInv, KeysInv, [Next]_vars, NEW r \in outbox \ outbox'
  PROVE  \/ \E t \in Tabs : /\ RemoveCommit(t) \/ RetireCommit(t)
                            /\ r = cur[t]
         \/ \E f \in FutureWrites : /\ NewerRemoves(f) \/ NewerRetires(f)
                                    /\ r = Head0
<1> USE DEF store, vars
<1>1. CASE UNCHANGED store
  BY <1>1
<1>2. ASSUME NEW t \in Tabs,
             \/ EnqueueCommit(t) \/ Trim(t) \/ RequeueCommit(t)
             \/ DiscardCommit(t)
      PROVE  FALSE
  BY <1>2 DEF EnqueueCommit, Trim, RequeueCommit, DiscardCommit
<1>3. ASSUME NEW t \in Tabs, RemoveCommit(t) \/ RetireCommit(t)
      PROVE  r = cur[t]
  <2>1. cur[t] # NoRecord
    BY <1>3, NoRecordAssumption
       DEF RemoveCommit, RetireCommit, TypeInv, Handles, Holding
  <2> QED BY <1>3, <2>1 DEF RemoveCommit, RetireCommit, KeysInv
<1>4. ASSUME NEW f \in FutureWrites, NewerRemoves(f) \/ NewerRetires(f)
      PROVE  r = Head0
  BY <1>4 DEF NewerRemoves, NewerRetires
<1>5. ASSUME NEW f \in FutureWrites, NewerAppends(f)
      PROVE  FALSE
  BY <1>5 DEF NewerAppends
<1> QED BY <1>1, <1>2, <1>3, <1>4, <1>5, StoreSteps

\* The head stays the head until it leaves the outbox.
LEMMA HeadStays ==
  ASSUME TypeInv, KeysInv, [Next]_vars, NEW r, IsHead(r), r \in outbox'
  PROVE  IsHead(r)'
<1>1. r.seq \in Nat /\ r.seq < nextSeq /\ nextSeq \in Nat
  BY DEF IsHead, KeysInv, TypeInv, TypeOK, StoreTypes, Record
<1>2. ASSUME NEW s \in outbox'
      PROVE  r.seq <= s.seq
  BY <1>1, OutboxNew DEF IsHead
<1> QED BY <1>2 DEF IsHead

\* What a drain loop works on is the head, as long as it works on it.
LEMMA HoldsHead ==
  ASSUME AllInv, PlaceInv, WebLocks, [Next]_vars, NEW u \in Tabs,
         (pc[u] \in HoldingHead /\ cur[u] # NoRecord)'
  PROVE  IsHead(cur[u])'
<1> USE DEF AllInv, LostInv
<1>1. \/ pc[u] \in HoldingHead /\ cur'[u] = cur[u]
      \/ ReadHead(u)
  BY HoldSteps DEF HoldStep
<1>2. CASE ReadHead(u)
  <2>1. cur'[u] = Head0 /\ outbox' = outbox /\ outbox # {}
    BY <1>2 DEF ReadHead, store, TypeInv, TypeOK, DrainerTypes, Head0
  <2> QED BY <2>1, HeadIsLowest DEF IsHead, TypeInv, TypeOK
<1>3. CASE pc[u] \in HoldingHead /\ cur'[u] = cur[u]
  <2>1. IsHead(cur[u])
    BY <1>3 DEF PlaceInv
  <2>2. lock = u
    BY <1>3 DEF MutexInv, HoldingHead, InSession
  <2>3. ASSUME NEW t \in Tabs, RemoveCommit(t) \/ RetireCommit(t)
        PROVE  FALSE
    <3>1. lock = t
      BY <2>3 DEF MutexInv, InSession, RemoveCommit, RetireCommit
    <3>2. pc'[u] \in {"removed", "retired"}
      BY <2>2, <2>3, <3>1 DEF RemoveCommit, RetireCommit, Goto, TypeInv, TypeOK,
         DrainerTypes
    <3> QED BY <3>2 DEF HoldingHead
  <2>4. ASSUME NEW f \in FutureWrites, NewerRemoves(f) \/ NewerRetires(f)
        PROVE  FALSE
    BY <2>2, <2>4, QueueAssumption DEF NewerRemoves, NewerRetires
  <2>5. cur[u] \in outbox'
    BY <2>1, <2>3, <2>4, OutboxLeaves DEF IsHead
  <2> QED BY <1>3, <2>1, <2>5, HeadStays DEF IsHead
<1> QED BY <1>1, <1>2, <1>3

\* A request whose sender gave it up is for a write that may take effect.
LEMMA LateMayTakeEffect ==
  ASSUME AllInv, PlaceInv, [Next]_vars, NEW m \in late'
  PROVE  MayTakeEffect(m.id)'
<1> USE DEF AllInv, LostInv
<1>1. MayTakeEffect(m.id)
  <2>1. CASE m \in late
    BY <2>1 DEF PlaceInv
  <2>2. ASSUME NEW t \in Tabs, pc[t] = "sending", m = req[t]
        PROVE  MayTakeEffect(m.id)
    <3>1. m.id = cur[t].id /\ cur[t] # NoRecord
      BY <2>2, NoRecordAssumption DEF TypeInv, Handles, Holding
    <3>2. IsHead(cur[t])
      BY <2>2, <3>1 DEF PlaceInv, HoldingHead
    <3> QED BY <3>1, <3>2 DEF MayTakeEffect, IsHead
  <2> QED BY <2>1, <2>2, LateSteps
<1>2. Effects \subseteq Effects' /\ everDead \subseteq everDead'
  BY EffectsGrow, WhereStep DEF FifoInv
<1>3. delivered' \subseteq Effects'
  BY DeliveredStep DEF NoWriteLost
<1>4. ASSUME NEW r \in outbox, IsHead(r), r.id = m.id
      PROVE  MayTakeEffect(m.id)'
  <2>1. CASE r \in outbox'
    BY <1>4, <2>1, HeadStays DEF MayTakeEffect
  <2>2. CASE r \notin outbox'
    <3>1. r.id \in delivered' \/ r.id \in everDead'
      BY <2>2, OutboxLeaves DEF RemoveCommit, RetireCommit, NewerRemoves,
         NewerRetires
    <3> QED BY <1>3, <1>4, <3>1 DEF MayTakeEffect
  <2> QED BY <2>1, <2>2
<1> QED BY <1>1, <1>2, <1>4 DEF MayTakeEffect

\* The four facts of PlaceInv about the stores.
StoresDisjoint ==
  /\ \A r, s \in outbox : r.id = s.id => r = s
  /\ \A d, e \in dead : d.id = e.id => d = e
  /\ IdsOf(outbox) \cap IdsOf(dead) = {}
  /\ delivered \cap (IdsOf(outbox) \cup IdsOf(dead)) = {}

\* What RemoveCommit and RetireCommit of t take out is the head, and only that.
LEMMA CommitTakesHead ==
  ASSUME AllInv, PlaceInv, NEW t \in Tabs, pc[t] \in {"remove", "retire"}
  PROVE  /\ cur[t] \in outbox /\ IsHead(cur[t])
         /\ {r \in outbox : r.seq # cur[t].seq} = outbox \ {cur[t]}
<1>1. cur[t] # NoRecord
  BY NoRecordAssumption DEF AllInv, TypeInv, Handles, Holding
<1>2. IsHead(cur[t]) /\ cur[t] \in outbox
  BY <1>1 DEF PlaceInv, HoldingHead, IsHead
<1> QED BY <1>1, <1>2 DEF AllInv, LostInv, KeysInv

\* A write that is stored for the first time is new to every store.
LEMMA NewIsFresh ==
  ASSUME AllInv
  PROVE  IdsOf(outbox) \cup IdsOf(dead) \cup delivered \subseteq IdsOf(accepted)
BY DEF AllInv, FifoInv, StoredInv, Stored, LostInv, NoWriteLost, IdsOf

\* An enqueue() that commits stores a write for the first time ...
LEMMA EnqueueIsNew ==
  ASSUME AllInv, NEW t \in Tabs, EnqueueCommit(t)
  PROVE  accepted' # accepted
<1>1. PICK a \in adding[t] :
        [seq |-> nextSeq, id |-> a.id, by |-> a.by] \in accepted'
  BY DEF EnqueueCommit
<1>2. a.id \notin IdsOf(accepted)
  BY DEF AllInv, FifoInv, IdsInv
<1> QED BY <1>1, <1>2 DEF IdsOf

\* ... and so does the newer build.
LEMMA AppendIsNew ==
  ASSUME NEW f \in FutureWrites, NewerAppends(f)
  PROVE  accepted' # accepted
<1>1. PICK p \in Principals :
        [seq |-> nextSeq, id |-> f, by |-> p] \in accepted'
  BY DEF NewerAppends
<1> QED BY <1>1 DEF NewerAppends, IdsOf

\* A step leaves a write in one place.
LEMMA PlacesStep ==
  ASSUME AllInv, PlaceInv, WebLocks, [Next]_vars
  PROVE  StoresDisjoint'
<1> USE DEF StoresDisjoint, IdsOf, store
<1>0. StoresDisjoint
  BY DEF PlaceInv
<1>1. CASE UNCHANGED <<store, accepted, delivered, everDead, gone>>
  BY <1>0, <1>1
<1>2. CASE accepted' # accepted
  <2>1. PICK r \in Record :
              /\ r.id \notin IdsOf(accepted)
              /\ outbox' = outbox \cup {r}
              /\ UNCHANGED <<dead, delivered, everDead, gone>>
    BY <1>2, AcceptedSteps DEF AllInv, FifoInv
  <2> QED BY <1>0, <2>1, NewIsFresh
<1>3. ASSUME NEW t \in Tabs, RemoveCommit(t)
      PROVE  StoresDisjoint'
  <2>1. /\ cur[t] \in outbox /\ outbox' = outbox \ {cur[t]} /\ dead' = dead
        /\ delivered' = delivered \cup {cur[t].id}
    BY <1>3, CommitTakesHead DEF RemoveCommit
  <2> QED BY <1>0, <2>1
<1>4. ASSUME NEW t \in Tabs, RetireCommit(t)
      PROVE  StoresDisjoint'
  <2>1. /\ cur[t] \in outbox /\ outbox' = outbox \ {cur[t]}
        /\ dead' = {d \in dead : d.id # cur[t].id} \cup {cur[t]}
        /\ delivered' = delivered
    BY <1>4, CommitTakesHead DEF RetireCommit
  <2> QED BY <1>0, <2>1
<1>5. ASSUME NEW t \in Tabs, Trim(t) \/ DiscardCommit(t)
      PROVE  StoresDisjoint'
  <2>1. outbox' = outbox /\ dead' \subseteq dead /\ delivered' = delivered
    BY <1>5 DEF Trim, DiscardCommit
  <2> QED BY <1>0, <2>1
<1>6. ASSUME NEW t \in Tabs, RequeueCommit(t), ~UNCHANGED store
      PROVE  StoresDisjoint'
  <2>1. PICK d \in dead :
          /\ outbox' = outbox \cup {Requeued(d)} /\ dead' = dead \ {d}
          /\ UNCHANGED delivered
    BY <1>6 DEF RequeueCommit, history
  <2>2. Requeued(d).id = d.id
    BY DEF Requeued, AllInv, TypeInv, TypeOK, StoreTypes, Record
  <2> QED BY <1>0, <2>1, <2>2
<1>7. ASSUME NEW f \in FutureWrites, NewerRemoves(f) \/ NewerRetires(f)
      PROVE  StoresDisjoint'
  <2>1. Head0 \in outbox
    BY <1>7, HeadIsLowest
       DEF NewerRemoves, NewerRetires, Head0, AllInv, TypeInv, TypeOK
  <2>2. CASE NewerRemoves(f)
    BY <1>0, <2>1, <2>2 DEF NewerRemoves
  <2>3. CASE NewerRetires(f)
    BY <1>0, <2>1, <2>3 DEF NewerRetires
  <2> QED BY <1>7, <2>2, <2>3
<1>8. ASSUME NEW t \in Tabs, EnqueueCommit(t), accepted' = accepted
      PROVE  FALSE
  BY <1>8, EnqueueIsNew
<1>9. ASSUME NEW f \in FutureWrites, NewerAppends(f), accepted' = accepted
      PROVE  FALSE
  BY <1>9, AppendIsNew
<1>10. ASSUME NEW t \in Tabs, RequeueCommit(t), UNCHANGED store
       PROVE  UNCHANGED <<store, accepted, delivered, everDead, gone>>
  BY <1>10 DEF RequeueCommit, history
<1> QED BY <1>1, <1>2, <1>3, <1>4, <1>5, <1>6, <1>7, <1>8, <1>9, <1>10, StoreSteps
      DEF vars, history

\* With Web Locks, PlaceInv is kept by every step.
LEMMA PlaceStep ==
  ASSUME AllInv, PlaceInv, WebLocks, [Next]_vars
  PROVE  PlaceInv'
BY PlacesStep, HoldsHead, LateMayTakeEffect DEF PlaceInv, StoresDisjoint

\* The invariants that hold with Web Locks or without, together.
LEMMA AllInvariant == Spec => []AllInv
<1>1. Init => AllInv
  <2> SUFFICES ASSUME Init PROVE AllInv
    OBVIOUS
  <2>1. MutexInv /\ LostInv
    BY DEF Init, MutexInv, InSession, LostInv, KeysInv, RemoveInv, NoWriteLost
  <2>2. FifoInv
    BY FifoInit
  <2> QED BY <2>1, <2>2, TypeInit DEF AllInv
<1>2. AllInv /\ [Next]_vars => AllInv'
  BY TypeStep, MutexStep, LostStep, FifoInvStep DEF AllInv
<1> QED BY <1>1, <1>2, PTL DEF Spec

\* PlaceInv is inductive with Web Locks, relative to AllInv.
LEMMA PlaceInvariant == Spec => [](WebLocks => PlaceInv)
<1>1. Init => (WebLocks => PlaceInv)
  BY DEF Init, PlaceInv, IdsOf, HoldingHead
<1>2. AllInv /\ (WebLocks => PlaceInv) /\ [Next]_vars => (WebLocks => PlaceInv)'
  BY PlaceStep
<1> QED BY <1>1, <1>2, AllInvariant, PTL DEF Spec

\* With Web Locks a write is in one place, for any number of tabs, writes and
\* faults: never queued and dead-lettered at once, and never reported lost, or
\* sent again, once it was delivered.
THEOREM WritesInOnePlace == Spec => []OnePlace
<1>1. (WebLocks => PlaceInv) => OnePlace
  BY DEF PlaceInv, OnePlace
<1> QED BY <1>1, PlaceInvariant, PTL

-----------------------------------------------------------------------------
(* The counters at rest, with Web Locks and BroadcastChannel.              *)

\* What leaves a commit uncounted or unannounced: the page stops or dies, or the
\* count that should follow the commit fails.
Uncounted(t) ==
  \/ Stop(t) \/ Crash(t)
  \/ pc[t] \in {"trim", "tally"} /\ StorageFails(t)
  \/ op[t].what \in {"counting", "discarded"} /\ CallFails(t)

Undisturbed == \A t \in Tabs : ~Uncounted(t)

\* Without stops and crashes every page is up.
UpInv == \A t \in Tabs : life[t] = "up"

\* t has changed the dead letters and not counted them yet.
Counting(t) ==
  pc[t] \in Retiring \/ op[t].what \in {"requeued", "counting", "discarded"}

\* t has committed what it has not announced yet.
Owes(t) == added[t] # {} \/ pc[t] = "removed" \/ Counting(t)

\* A pass of t will begin, or read, after every change that is not t's own.
WillHear(t) == mail[t] \/ rf[t] = "usage" \/ \E u \in Tabs \ {t} : Owes(u)

\* The counters of t are right, but for what t itself has under way.
Exact(t) ==
  /\ Covered(t) = Owed(t)
  /\ Counting(t) \/ deadCount[t] = Cardinality(dead)

\* What t knows: it will hear more, or is about to commit a read that is right or
\* raced, or its counters are right.
KnowsAll(t) ==
  \/ WillHear(t) \/ rfTimer[t]
  \/ rf[t] = "count"
       /\ (rfSeen[t] = Cardinality(outbox) \/ CounterRaced(t, "refresh"))
  \/ rf[t] # "count" /\ Exact(t)

\* A head read that found nothing is right or raced, or t will hear more.
EmptyHeard(t) ==
  pc[t] = "head" /\ cur[t] = NoRecord
    => outbox = {} \/ CounterRaced(t, "head") \/ WillHear(t)

NewsInv == \A t \in Tabs \ missed : KnowsAll(t) /\ EmptyHeard(t)

\* Everything the steps below rely on.
RestInv == AllInv /\ PlaceInv /\ AddingFinite /\ UpInv /\ NewsInv

\* A step of u leaves what t has and does as it is, but that t may have mail.
Same(t) ==
  /\ pending'[t] = pending[t] /\ deadCount'[t] = deadCount[t]
  /\ adding'[t] = adding[t] /\ added'[t] = added[t] /\ op'[t] = op[t]
  /\ pc'[t] = pc[t] /\ cur'[t] = cur[t]
  /\ rf'[t] = rf[t] /\ rfSeen'[t] = rfSeen[t] /\ rfTimer'[t] = rfTimer[t]
  /\ raced'[t] = raced[t]
  /\ mail[t] => mail'[t]

\* What a step of u tells the others: of a change of the stores it owes news, and
\* it owes them until they have mail; and it forgets no news of its own, but
\* for a pass that has read already.
NewsStep(u) ==
  /\ \A t \in Tabs \ {u} : Same(t)
  /\ Owes(u)' \/ UNCHANGED <<outbox, dead>>
  /\ Owes(u) => Owes(u)' \/ \A t \in Tabs \ {u} : mail'[t]
  /\ mail[u] => mail'[u] \/ rf'[u] = "usage" \/ u \in missed'
  /\ rfTimer[u] => rfTimer'[u] \/ rf'[u] = "usage" \/ u \in missed'
  /\ rf[u] = "usage" => rf'[u] = "usage" \/ RefreshUsage(u)
  /\ rf[u] = "count" => rf'[u] = "count" \/ RefreshCommit(u)
  /\ missed \subseteq missed'

\* announce() reaches every other tab.
LEMMA AnnounceReaches ==
  ASSUME TypeInv, UpInv, Channel, NEW u \in Tabs, Announce(u)
  PROVE  /\ \A t \in Tabs \ {u} : mail'[t]
         /\ mail'[u] = mail[u]
<1>1. \A t \in Tabs : mail'[t] = (\/ mail[t]
                                  \/ /\ Channel /\ t # u
                                     /\ life[u] \in {"up", "stopping"} /\ life[t] = "up")
  BY DEF Announce
<1>2. mail[u] \in BOOLEAN
  BY DEF TypeInv, TypeOK, FlagTypes
<1> QED BY <1>1, <1>2 DEF UpInv

\* The drain loop tells what it took out once it has counted it ...
LEMMA DrainStepNews ==
  ASSUME TypeInv, UpInv, Channel, NEW u \in Tabs, DrainStep(u)
  PROVE  NewsStep(u)
<1> USE DEF TypeInv, TypeOK, DrainerTypes, CounterTypes, CallTypes, RefreshTypes, NewsStep,
       Same, Owes, Counting, Retiring, Goto, calls, counters, refresh, store, history
<1>1. CASE AcquireLock(u) \/ LockBusy(u) \/ SessionStopped(u)
  BY <1>1 DEF AcquireLock, LockBusy, SessionStopped, Leave
<1>2. CASE ReadHead(u)
  BY <1>2 DEF ReadHead
<1>3. CASE HeadEmpty(u)
  BY <1>3 DEF HeadEmpty, LeaveHead
<1>4. CASE HeadBlocked(u) \/ HeadSend(u)
  BY <1>4 DEF HeadBlocked, HeadSend, LeaveHead
<1>5. CASE HeadRetires(u) \/ EngineRejects(u)
  BY <1>5 DEF HeadRetires, EngineRejects, LeaveHead, Retire, UpInv
<1>6. CASE EngineAccepts(u) \/ EngineUnauthenticated(u)
  BY <1>6 DEF EngineAccepts, EngineUnauthenticated
<1>7. CASE RemoveCommit(u) \/ RetireCommit(u)
  BY <1>7 DEF RemoveCommit, RetireCommit
<1>8. CASE RemoveDone(u) \/ RetireDone(u)
  <2>1. /\ \A t \in Tabs \ {u} : mail'[t]
        /\ mail'[u] = mail[u]
    BY <1>8, AnnounceReaches, Zenon DEF RemoveDone, RetireDone
  <2> QED BY <1>8, <2>1 DEF RemoveDone, RetireDone, Bump
<1>9. CASE RetireTrims(u) \/ Trim(u) \/ RetireTally(u)
  BY <1>9 DEF RetireTrims, Trim, RetireTally
<1>10. CASE StorageClosed(u)
  BY <1>10 DEF StorageClosed, UpInv
<1>11. CASE SessionEnds(u) \/ ReauthSettles(u)
  BY <1>11 DEF SessionEnds, ReauthSettles, Leave, Ends
<1> QED BY <1>1, <1>2, <1>3, <1>4, <1>5, <1>6, <1>7, <1>8, <1>9, <1>10, <1>11
        DEF DrainStep

\* An enqueue() call that has committed has something to announce.
LEMMA CommitOwes ==
  ASSUME TypeInv, NEW u \in Tabs, EnqueueCommit(u)
  PROVE  added'[u] # {}
<1>1. PICK a \in adding[u] : added' = [added EXCEPT ![u] = @ \cup {a.id}]
  BY DEF EnqueueCommit
<1>2. added'[u] = added[u] \cup {a.id}
  <2>1. added \in [Tabs -> SUBSET Writes]
    BY DEF TypeInv, TypeOK, CallTypes
  <2> QED BY <1>1, <2>1
<1> QED BY <1>2, Zenon

\* ... so do calls; a pass begins on what is heard ...
LEMMA OtherNews ==
  ASSUME TypeInv, UpInv, Channel, NEW u \in Tabs,
         CallStep(u) \/ RefreshStep(u) \/ TimerFires(u) \/ LifeStep(u)
  PROVE  NewsStep(u)
<1> USE DEF TypeInv, TypeOK, DrainerTypes, CounterTypes, CallTypes, RefreshTypes, NewsStep,
       Same, Owes, Counting, Retiring, Goto, drainer, calls, counters, store, history, NoOp
<1>1. CASE EnqueueCommit(u)
  <2>1. Owes(u)'
    BY <1>1, CommitOwes, Zenon DEF Owes
  <2>2. PICK a \in adding[u] :
          /\ adding' = [adding EXCEPT ![u] = @ \ {a}]
          /\ added' = [added EXCEPT ![u] = @ \cup {a.id}]
          /\ UNCHANGED <<drainer, counters, op, refresh, missed>>
    BY <1>1 DEF EnqueueCommit
  <2>3. \A t \in Tabs \ {u} : Same(t)
    BY <2>2 DEF refresh
  <2> QED BY <2>1, <2>2, <2>3 DEF refresh
<1>2. CASE EnqueueDone(u) \/ RequeueDone(u)
  <2>1. /\ \A t \in Tabs \ {u} : mail'[t]
        /\ mail'[u] = mail[u]
    BY <1>2, AnnounceReaches, Zenon DEF EnqueueDone, RequeueDone
  <2> QED BY <1>2, <2>1 DEF EnqueueDone, RequeueDone, Bump, DrainCall
<1>3. CASE DiscardDone(u)
  <2>1. /\ \A t \in Tabs \ {u} : mail'[t]
        /\ mail'[u] = mail[u]
    BY <1>3, AnnounceReaches, Zenon DEF DiscardDone
  <2> QED BY <1>3, <2>1 DEF DiscardDone, Bump
<1>4. CASE RequeueCommit(u)
  BY <1>4 DEF RequeueCommit, Bump
<1>5. CASE RequeueTally(u)
  BY <1>5 DEF RequeueTally, refresh
<1>6. CASE DiscardCommit(u)
  BY <1>6 DEF DiscardCommit, Bump
<1>7. CASE AnnounceArrives(u)
  BY <1>7 DEF AnnounceArrives, RequestRefresh, Mark, UpInv, FlagTypes
<1>8. CASE RefreshTimerFires(u)
  BY <1>8 DEF RefreshTimerFires, RequestRefresh, Mark, UpInv, FlagTypes
<1>9. CASE RefreshUsage(u)
  BY <1>9 DEF RefreshUsage
<1>10. CASE RefreshCommit(u)
  BY <1>10 DEF RefreshCommit, FlagTypes
<1>11. CASE RefreshEnds(u)
  BY <1>11 DEF RefreshEnds, DrainCall
<1>12. CASE TimerFires(u)
  BY <1>12 DEF TimerFires, DrainCall, refresh
<1>13. CASE LifeStep(u)
  BY <1>13 DEF LifeStep, StartRead, StartDone, Close, UpInv
<1> QED BY <1>1, <1>2, <1>3, <1>4, <1>5, <1>6, <1>7, <1>8, <1>9, <1>10, <1>11,
        <1>12, <1>13 DEF CallStep, RefreshStep

\* ... and nothing else commits anything.
LEMMA StimulusNews ==
  ASSUME TypeInv, UpInv, Channel, NEW u \in Tabs, Stimulus(u), ~Uncounted(u)
  PROVE  NewsStep(u)
<1> USE DEF TypeInv, TypeOK, DrainerTypes, CounterTypes, CallTypes, RefreshTypes, NewsStep,
       Same, Owes, Counting, Retiring, Goto, drainer, calls, counters, store, history, NoOp
<1>1. ASSUME NEW w \in Ids, Enqueue(u, w) \/ RetryCall(u, w) \/ DiscardCall(u, w)
      PROVE  NewsStep(u)
  BY <1>1 DEF Enqueue, RetryCall, DiscardCall, refresh
<1>2. CASE Flush(u)
  BY <1>2 DEF Flush, DrainCall, refresh
<1>3. CASE Stop(u) \/ Crash(u)
  BY <1>3 DEF Uncounted
<1>4. CASE EnqueueFails(u)
  BY <1>4 DEF EnqueueFails, Bump
<1>5. CASE CallFails(u)
  BY <1>5 DEF CallFails, Bump, Uncounted
<1>6. CASE SendFails(u)
  BY <1>6 DEF SendFails, refresh
<1>7. CASE StorageFails(u)
  <2>1. pc[u] \in {"session", "remove", "retire"}
    BY <1>7 DEF StorageFails, Uncounted
  <2> QED BY <1>7, <2>1 DEF StorageFails, DrainThrows, Leave, Bump
<1>8. CASE ReauthFails(u) \/ ReauthEmpty(u) \/ LateLogin(u) \/ ExpireCredential(u)
  BY <1>8 DEF ReauthFails, ReauthEmpty, LateLogin, ExpireCredential, Leave, refresh
<1> QED BY <1>1, <1>2, <1>3, <1>4, <1>5, <1>6, <1>7, <1>8 DEF Stimulus, Ids

\* A step that changes no store, no counter and nothing that is counted.
Quiet(t) ==
  /\ UNCHANGED <<outbox, dead>>
  /\ adding'[t] = adding[t] /\ pending'[t] = pending[t] /\ deadCount'[t] = deadCount[t]
  /\ op'[t].what = "requeued" <=> op[t].what = "requeued"
  /\ pc'[t] \in TakenOut <=> pc[t] \in TakenOut
  /\ Counting(t) => Counting(t)'

\* It leaves counters right that were.
LEMMA QuietExact ==
  ASSUME NEW t \in Tabs, Exact(t), Quiet(t)
  PROVE  Exact(t)'
<1>1. Covered(t)' = Covered(t)
  BY DEF Quiet, Covered
<1>2. Owed(t)' = Owed(t)
  BY DEF Quiet, Owed
<1>3. Counting(t)' \/ deadCount'[t] = Cardinality(dead)'
  BY DEF Quiet, Exact
<1> QED BY <1>1, <1>2, <1>3 DEF Exact

\* The drain loop counts down what it has taken out, and counts the dead letters
\* once it has added one ...
LEMMA DrainStepExact ==
  ASSUME TypeInv, KeysInv, HeldInv, UpInv, AddingFinite, NEW t \in Tabs, DrainStep(t),
         ~HeadEmpty(t), Exact(t)
  PROVE  Exact(t)'
<1>1. /\ Cardinality(outbox) \in Nat /\ Cardinality(adding[t]) \in Nat
      /\ pending[t] \in Int
  BY Cards, FS_CardinalityType DEF AddingFinite, TypeInv, TypeOK, CounterTypes
<1>2. /\ Covered(t) = Owed(t)
      /\ Counting(t) \/ deadCount[t] = Cardinality(dead)
  BY DEF Exact
<1> USE DEF TypeInv, TypeOK, DrainerTypes, CounterTypes, TakenOut, Retiring, Goto, calls,
       store, counters, Quiet, Counting
<1>3. CASE AcquireLock(t) \/ LockBusy(t) \/ SessionStopped(t) \/ ReadHead(t)
  BY <1>3, QuietExact DEF AcquireLock, LockBusy, SessionStopped, ReadHead, Leave
<1>4. CASE HeadBlocked(t) \/ HeadSend(t)
  BY <1>4, QuietExact DEF HeadBlocked, HeadSend
<1>5. CASE HeadRetires(t) \/ EngineRejects(t)
  BY <1>5, QuietExact DEF HeadRetires, EngineRejects, Retire, UpInv
<1>6. CASE EngineAccepts(t) \/ EngineUnauthenticated(t)
  BY <1>6, QuietExact DEF EngineAccepts, EngineUnauthenticated
<1>7. CASE RemoveCommit(t)
  <2>1. /\ pc[t] = "remove" /\ pc'[t] = "removed"
        /\ UNCHANGED <<dead, adding, op, pending, deadCount>>
        /\ outbox' = {r \in outbox : r.seq # cur[t].seq}
    BY <1>7 DEF RemoveCommit
  <2>2. Cardinality(outbox') = Cardinality(outbox) - 1
    BY <2>1, TakeOne
  <2>3. Covered(t)' = Owed(t)'
    BY <1>1, <1>2, <2>1, <2>2 DEF Covered, Owed
  <2> QED BY <1>2, <2>1, <2>3 DEF Exact
<1>8. CASE RetireCommit(t)
  <2>1. /\ pc[t] = "retire" /\ pc'[t] = "retired"
        /\ UNCHANGED <<adding, op, pending>>
        /\ outbox' = {r \in outbox : r.seq # cur[t].seq}
    BY <1>8 DEF RetireCommit
  <2>2. Cardinality(outbox') = Cardinality(outbox) - 1
    BY <2>1, TakeOne
  <2>3. Covered(t)' = Owed(t)'
    BY <1>1, <1>2, <2>1, <2>2 DEF Covered, Owed
  <2> QED BY <2>1, <2>3 DEF Exact
<1>9. CASE RemoveDone(t) \/ RetireTally(t)
  <2>1. /\ pc[t] \in TakenOut /\ pc'[t] \notin TakenOut
        /\ UNCHANGED <<dead, adding, op, outbox, deadCount>>
        /\ pending'[t] = pending[t] - 1
        /\ Counting(t) => Counting(t)'
    BY <1>9 DEF RemoveDone, RetireTally
  <2>2. Covered(t)' = Owed(t)'
    BY <1>1, <1>2, <2>1 DEF Covered, Owed
  <2> QED BY <1>2, <2>1, <2>2 DEF Exact
<1>10. CASE RetireTrims(t)
  BY <1>10, QuietExact DEF RetireTrims
<1>11. CASE Trim(t)
  <2>1. /\ pc[t] = "trim" /\ pc'[t] = "trimmed" /\ UNCHANGED <<adding, op, outbox, pending>>
    BY <1>11 DEF Trim
  <2>2. Covered(t)' = Owed(t)'
    BY <1>1, <1>2, <2>1 DEF Covered, Owed
  <2> QED BY <2>1, <2>2 DEF Exact
<1>12. CASE RetireDone(t)
  <2>1. /\ pc[t] = "tally" /\ pc'[t] = "session" /\ UNCHANGED <<dead, adding, op, outbox, pending>>
        /\ deadCount'[t] = Cardinality(dead)
    BY <1>12 DEF RetireDone
  <2>2. Covered(t)' = Owed(t)'
    BY <1>1, <1>2, <2>1 DEF Covered, Owed
  <2> QED BY <2>1, <2>2 DEF Exact
<1>13. CASE StorageClosed(t)
  BY <1>13 DEF StorageClosed, UpInv
<1>14. CASE SessionEnds(t) \/ ReauthSettles(t)
  BY <1>14, QuietExact DEF SessionEnds, ReauthSettles, Leave, Ends
<1> QED BY <1>3, <1>4, <1>5, <1>6, <1>7, <1>8, <1>9, <1>10, <1>11, <1>12, <1>13, <1>14
        DEF DrainStep

\* ... calls reserve and count up likewise ...
LEMMA OtherExact ==
  ASSUME TypeInv, KeysInv, UpInv, AddingFinite, NEW t \in Tabs,
         CallStep(t) \/ RefreshStep(t) \/ TimerFires(t) \/ LifeStep(t),
         ~RefreshCommit(t), Exact(t)
  PROVE  Exact(t)'
<1>1. /\ Cardinality(outbox) \in Nat /\ Cardinality(adding[t]) \in Nat
      /\ pending[t] \in Int
  BY Cards, FS_CardinalityType DEF AddingFinite, TypeInv, TypeOK, CounterTypes
<1>2. /\ Covered(t) = Owed(t)
      /\ Counting(t) \/ deadCount[t] = Cardinality(dead)
  BY DEF Exact
<1> USE DEF TypeInv, TypeOK, DrainerTypes, CounterTypes, CallTypes, NoOp, TakenOut, Retiring,
       Goto, drainer, calls, store, counters, Quiet, Counting
<1>3. CASE EnqueueCommit(t)
  <2>1. PICK a \in adding[t] :
          /\ outbox' = outbox \cup {[seq |-> nextSeq, id |-> a.id, by |-> a.by]}
          /\ adding' = [adding EXCEPT ![t] = @ \ {a}]
          /\ UNCHANGED <<dead, op, pending, deadCount, pc>>
    BY <1>3 DEF EnqueueCommit
  <2>2. Cardinality(outbox') = Cardinality(outbox) + 1
    BY <2>1, AddOne
  <2>3. IsFiniteSet(adding[t]) /\ adding'[t] = adding[t] \ {a}
    BY <2>1 DEF AddingFinite
  <2>4. Cardinality(adding'[t]) = Cardinality(adding[t]) - 1
    BY <2>3, DropOne, Zenon
  <2>5. Covered(t)' = Owed(t)'
    BY <1>1, <1>2, <2>1, <2>2, <2>4 DEF Covered, Owed
  <2> QED BY <1>2, <2>1, <2>5 DEF Exact
<1>4. CASE EnqueueDone(t)
  BY <1>4, QuietExact DEF EnqueueDone, DrainCall
<1>5. CASE RequeueCommit(t)
  <2>1. CASE UNCHANGED store /\ op' = [op EXCEPT ![t] = NoOp]
    <3>1. op[t].what = "requeue"
      BY <1>5 DEF RequeueCommit
    <3> QED BY <1>5, <2>1, <3>1, QuietExact DEF RequeueCommit
  <2>2. CASE op' = [op EXCEPT ![t].what = "requeued"] /\ ~UNCHANGED store
    <3>1. PICK d \in dead : outbox' = outbox \cup {Requeued(d)}
      BY <1>5, <2>2 DEF RequeueCommit
    <3>2. Requeued(d).seq = nextSeq
      BY DEF Requeued, StoreTypes, Record
    <3>3. Cardinality(outbox') = Cardinality(outbox) + 1
      BY <3>1, <3>2, AddOne
    <3>4. /\ op[t].what = "requeue" /\ op'[t].what = "requeued"
          /\ UNCHANGED <<adding, pending, pc>>
      BY <1>5, <2>2 DEF RequeueCommit
    <3>5. Covered(t)' = Owed(t)'
      BY <1>1, <1>2, <3>3, <3>4 DEF Covered, Owed
    <3> QED BY <3>4, <3>5 DEF Exact
  <2> QED BY <1>5, <2>1, <2>2 DEF RequeueCommit
<1>6. CASE RequeueTally(t)
  <2>1. /\ op[t].what = "requeued" /\ op'[t].what = "counting"
        /\ pending'[t] = pending[t] + 1
        /\ UNCHANGED <<adding, outbox, pc>>
    BY <1>6 DEF RequeueTally
  <2>2. Covered(t)' = Owed(t)'
    BY <1>1, <1>2, <2>1 DEF Covered, Owed
  <2> QED BY <2>1, <2>2 DEF Exact
<1>7. CASE RequeueDone(t) \/ DiscardDone(t)
  <2>1. /\ op[t].what # "requeued" /\ op'[t].what # "requeued"
        /\ pc'[t] \in TakenOut <=> pc[t] \in TakenOut
        /\ UNCHANGED <<dead, adding, outbox, pending>>
        /\ deadCount'[t] = Cardinality(dead)
    BY <1>7 DEF RequeueDone, DiscardDone, DrainCall
  <2>2. Covered(t)' = Owed(t)'
    BY <1>1, <1>2, <2>1 DEF Covered, Owed
  <2> QED BY <2>1, <2>2 DEF Exact
<1>8. CASE DiscardCommit(t)
  <2>1. /\ op[t].what = "discard" /\ op'[t].what \in {"none", "discarded"}
        /\ op'[t].what = "none" => UNCHANGED <<dead, deadCount>>
        /\ UNCHANGED <<adding, outbox, pending, pc>>
    BY <1>8 DEF DiscardCommit
  <2>2. Covered(t)' = Owed(t)'
    BY <1>1, <1>2, <2>1 DEF Covered, Owed
  <2> QED BY <1>2, <2>1, <2>2 DEF Exact
<1>9. CASE AnnounceArrives(t) \/ RefreshTimerFires(t)
  BY <1>9, QuietExact DEF AnnounceArrives, RefreshTimerFires
<1>10. CASE RefreshUsage(t) \/ RefreshEnds(t) \/ TimerFires(t)
  BY <1>10, QuietExact DEF RefreshUsage, RefreshEnds, TimerFires, DrainCall
<1>11. CASE LifeStep(t)
  BY <1>11 DEF LifeStep, StartRead, StartDone, Close, UpInv
<1> QED BY <1>3, <1>4, <1>5, <1>6, <1>7, <1>8, <1>9, <1>10, <1>11
        DEF CallStep, RefreshStep

\* ... and a transaction that aborts has nothing to count.
LEMMA StimulusExact ==
  ASSUME TypeInv, UpInv, AddingFinite, NEW t \in Tabs, Stimulus(t), ~Uncounted(t), Exact(t)
  PROVE  Exact(t)'
<1>1. /\ Cardinality(outbox) \in Nat /\ Cardinality(adding[t]) \in Nat
      /\ pending[t] \in Int
  BY Cards, FS_CardinalityType DEF AddingFinite, TypeInv, TypeOK, CounterTypes
<1>2. /\ Covered(t) = Owed(t)
      /\ Counting(t) \/ deadCount[t] = Cardinality(dead)
  BY DEF Exact
<1> USE DEF TypeInv, TypeOK, DrainerTypes, CounterTypes, CallTypes, NoOp, TakenOut, Retiring,
       Goto, drainer, calls, store, counters, Quiet, Counting
<1>3. ASSUME NEW w \in Writes, Enqueue(t, w) PROVE Exact(t)'
  <2> DEFINE a == [id |-> w, by |-> who[t]]
  <2>1. /\ pending'[t] = pending[t] + 1 /\ a \notin adding[t]
        /\ adding'[t] = adding[t] \cup {a}
        /\ UNCHANGED <<op, outbox, dead, deadCount, pc>>
    BY <1>3 DEF Enqueue, IdsOf
  <2>2. Cardinality(adding'[t]) = Cardinality(adding[t]) + 1
    <3>1. IsFiniteSet(adding[t])
      BY DEF AddingFinite
    <3> QED BY <2>1, <3>1, GrowOne, Zenon
  <2>3. Covered(t)' = Owed(t)'
    BY <1>1, <1>2, <2>1, <2>2 DEF Covered, Owed
  <2> QED BY <1>2, <2>1, <2>3 DEF Exact
<1>4. ASSUME NEW w \in Ids, RetryCall(t, w) \/ DiscardCall(t, w)
      PROVE  Exact(t)'
  BY <1>4, QuietExact DEF RetryCall, DiscardCall
<1>5. CASE Flush(t)
  BY <1>5, QuietExact DEF Flush, DrainCall
<1>6. CASE Stop(t) \/ Crash(t)
  BY <1>6 DEF Uncounted
<1>7. CASE EnqueueFails(t)
  <2>1. PICK a \in adding[t] :
          /\ adding'[t] = adding[t] \ {a} /\ pending'[t] = pending[t] - 1
          /\ UNCHANGED <<op, outbox, dead, deadCount, pc>>
    BY <1>7 DEF EnqueueFails
  <2>2. IsFiniteSet(adding[t])
    BY DEF AddingFinite
  <2>3. Cardinality(adding'[t]) = Cardinality(adding[t]) - 1
    BY <2>1, <2>2, DropOne, Zenon
  <2>4. Covered(t)' = Owed(t)'
    BY <1>1, <1>2, <2>1, <2>3 DEF Covered, Owed
  <2> QED BY <1>2, <2>1, <2>4 DEF Exact
<1>8. CASE CallFails(t)
  <2>1. op[t].what \in {"requeue", "discard"} /\ op'[t].what = "none"
    BY <1>8 DEF CallFails, Uncounted
  <2> QED BY <1>8, <2>1, QuietExact DEF CallFails
<1>9. CASE SendFails(t)
  BY <1>9, QuietExact DEF SendFails
<1>10. CASE StorageFails(t)
  <2>1. pc[t] \in {"session", "remove", "retire"}
    BY <1>10 DEF StorageFails, Uncounted
  <2> QED BY <1>10, <2>1, QuietExact DEF StorageFails, DrainThrows, Leave
<1>11. CASE ReauthFails(t) \/ ReauthEmpty(t) \/ LateLogin(t) \/ ExpireCredential(t)
  BY <1>11, QuietExact DEF ReauthFails, ReauthEmpty, LateLogin, ExpireCredential, Leave
<1> QED BY <1>3, <1>4, <1>5, <1>6, <1>7, <1>8, <1>9, <1>10, <1>11 DEF Stimulus

\* What a step of a tab does to it and the others.
LEMMA TabSteps ==
  ASSUME RestInv, Channel, NEW u \in Tabs, ~Uncounted(u),
         \/ DrainStep(u) \/ CallStep(u) \/ RefreshStep(u)
         \/ TimerFires(u) \/ LifeStep(u) \/ Stimulus(u)
  PROVE  /\ NewsStep(u) /\ RaceStep(u) /\ HoldStep(u)
         /\ HeadEmpty(u) \/ RefreshCommit(u) \/ (Exact(u) => Exact(u)')
<1>1. TypeInv /\ UpInv /\ AddingFinite /\ KeysInv
  BY DEF RestInv, AllInv, LostInv
<1>2. HeldInv
  BY DEF RestInv, PlaceInv, HeldInv, IsHead
<1>3. NewsStep(u)
  BY <1>1, DrainStepNews, OtherNews, StimulusNews
<1>4. RaceStep(u) /\ HoldStep(u)
  BY <1>1, DrainStepRace, OtherRace, StimulusRace, DrainStepHold, OtherHold, StimulusHold
<1>5. HeadEmpty(u) \/ RefreshCommit(u) \/ (Exact(u) => Exact(u)')
  BY <1>1, <1>2, DrainStepExact, OtherExact, StimulusExact
<1> QED BY <1>3, <1>4, <1>5

\* An empty outbox that t has read as such leaves its counters right.
LEMMA HeadEmptyExact ==
  ASSUME RestInv, NEW t \in Tabs, HeadEmpty(t), Exact(t), outbox = {} \/ CounterRaced(t, "head")
  PROVE  Exact(t)'
<1> USE DEF TypeInv, TypeOK, DrainerTypes, CounterTypes
<1>1. TypeInv
  BY DEF RestInv, AllInv
<1>2. /\ pc[t] = "head" /\ pc'[t] = "endIdle" /\ UNCHANGED <<outbox, dead, adding, op, deadCount>>
      /\ pending'[t] = IF CounterRaced(t, "head") THEN pending[t] ELSE 0
  BY <1>1 DEF HeadEmpty, Goto, store, calls
<1>3. CASE CounterRaced(t, "head")
  BY <1>2, <1>3, QuietExact DEF Quiet, TakenOut, Counting, Retiring
<1>4. CASE ~CounterRaced(t, "head")
  <2>1. outbox = {} /\ adding[t] = {} /\ op[t].what = "none"
    BY <1>4 DEF CounterRaced, Mutating
  <2>2. Covered(t)' = 0
    BY <1>2, <1>4, <2>1 DEF Covered
  <2>3. outbox' = {} /\ adding'[t] = {} /\ pc'[t] \notin TakenOut
    BY <1>2, <2>1 DEF TakenOut
  <2>4. Cardinality(outbox') = 0 /\ Cardinality(adding'[t]) = 0
    BY <2>3, FS_EmptySet, Zenon
  <2>5. Owed(t)' = 0
    BY <2>3, <2>4 DEF Owed
  <2>6. ~Counting(t)
    BY <1>2, <2>1 DEF Counting, Retiring
  <2> QED BY <1>2, <2>2, <2>5, <2>6 DEF Exact
<1> QED BY <1>3, <1>4

\* A pass that ends with a read that is right leaves the counters right.
LEMMA RefreshExact ==
  ASSUME RestInv, NEW t \in Tabs, RefreshCommit(t), ~CounterRaced(t, "refresh"),
         rfSeen[t] = Cardinality(outbox)
  PROVE  Exact(t)'
<1>1. TypeInv
  BY DEF RestInv, AllInv
<1>2. Cardinality(outbox) \in Nat
  BY <1>1, Cards
<1>3. /\ adding[t] = {} /\ pc[t] \notin TakenOut /\ op[t].what = "none"
      /\ pending'[t] = Cardinality(outbox) /\ deadCount'[t] = Cardinality(dead)
      /\ UNCHANGED <<outbox, dead, adding, pc, op>>
  BY <1>1 DEF RefreshCommit, CounterRaced, Mutating, TakenOut, TypeInv, TypeOK, CounterTypes,
     store, calls, drainer
<1>4. Covered(t)' = Cardinality(outbox)
  BY <1>2, <1>3 DEF Covered
<1>5. Cardinality(adding'[t]) = 0
  BY <1>3, FS_EmptySet
<1>6. Owed(t)' = Cardinality(outbox)
  BY <1>2, <1>3, <1>5 DEF Owed
<1> QED BY <1>3, <1>4, <1>6 DEF Exact

\* A tab keeps what it knows through its own steps ...
LEMMA OwnKnows ==
  ASSUME RestInv, Channel, NEW t \in Tabs, t \notin missed', ~Uncounted(t),
         \/ DrainStep(t) \/ CallStep(t) \/ RefreshStep(t)
         \/ TimerFires(t) \/ LifeStep(t) \/ Stimulus(t)
  PROVE  KnowsAll(t)' /\ EmptyHeard(t)'
<1>1. /\ NewsStep(t) /\ RaceStep(t) /\ HoldStep(t)
      /\ HeadEmpty(t) \/ RefreshCommit(t) \/ (Exact(t) => Exact(t)')
  BY TabSteps
<1>2. KnowsAll(t) /\ EmptyHeard(t) /\ TypeInv
  BY <1>1 DEF RestInv, AllInv, NewsInv, NewsStep
<1>3. ASSUME NEW u \in Tabs \ {t}, Owes(u) PROVE Owes(u)'
  BY <1>1, <1>3 DEF NewsStep, Same, Owes, Counting
<1>4. WillHear(t) => WillHear(t)' \/ RefreshUsage(t)
  BY <1>1, <1>3 DEF WillHear, NewsStep
<1>5. CASE RefreshUsage(t)
  <2>1. /\ rf'[t] = "count" /\ rfSeen'[t] = Cardinality(outbox) /\ UNCHANGED outbox
        /\ pc'[t] # "head"
    BY <1>2, <1>5 DEF RefreshUsage, TypeInv, TypeOK, CounterTypes, RefreshTypes, store, drainer
  <2> QED BY <2>1 DEF KnowsAll, EmptyHeard
<1>6. CASE ~RefreshUsage(t)
  <2>1. KnowsAll(t)'
    <3>1. CASE WillHear(t)
      BY <1>4, <1>6, <3>1 DEF KnowsAll
    <3>2. CASE rfTimer[t]
      BY <1>1, <3>2 DEF NewsStep, KnowsAll, WillHear
    <3>3. CASE /\ rf[t] = "count"
               /\ rfSeen[t] = Cardinality(outbox) \/ CounterRaced(t, "refresh")
      <4>1. CASE rf'[t] = "count"
        BY <1>1, <1>6, <3>3, <4>1 DEF RaceStep, KnowsAll, CounterRaced
      <4>2. CASE rf'[t] # "count"
        <5>1. RefreshCommit(t)
          BY <1>1, <3>3, <4>2 DEF NewsStep
        <5>2. CASE CounterRaced(t, "refresh")
          <6>1. rfTimer'[t] \/ t \in missed'
            BY <1>2, <5>1, <5>2 DEF RefreshCommit, TypeInv, TypeOK, FlagTypes
          <6> QED BY <6>1 DEF KnowsAll
        <5>3. CASE ~CounterRaced(t, "refresh")
          BY <3>3, <4>2, <5>1, <5>3, RefreshExact DEF KnowsAll
        <5> QED BY <5>2, <5>3
      <4> QED BY <4>1, <4>2
    <3>4. CASE rf[t] # "count" /\ Exact(t)
      <4>1. rf'[t] # "count" /\ ~RefreshCommit(t)
        BY <1>1, <1>6, <3>4 DEF RaceStep, RefreshCommit
      <4>2. CASE HeadEmpty(t)
        <5>1. outbox = {} \/ CounterRaced(t, "head") \/ WillHear(t)
          BY <1>2, <4>2 DEF HeadEmpty, EmptyHeard
        <5> QED BY <1>4, <1>6, <3>4, <4>1, <4>2, <5>1, HeadEmptyExact DEF KnowsAll
      <4> QED BY <1>1, <3>4, <4>1, <4>2 DEF KnowsAll
    <3> QED BY <1>2, <3>1, <3>2, <3>3, <3>4 DEF KnowsAll
  <2>2. EmptyHeard(t)'
    <3> SUFFICES ASSUME pc'[t] = "head", cur'[t] = NoRecord
                 PROVE  outbox' = {} \/ CounterRaced(t, "head")' \/ WillHear(t)'
      BY DEF EmptyHeard
    <3>1. CASE ReadHead(t)
      <4>1. Head0 = NoRecord /\ outbox' = outbox
        BY <1>2, <3>1 DEF ReadHead, TypeInv, TypeOK, DrainerTypes, store
      <4>2. outbox = {}
        BY <1>2, <4>1, HeadIsLowest, NoRecordAssumption DEF TypeInv, TypeOK, StoreTypes
      <4> QED BY <4>1, <4>2
    <3>2. CASE ~ReadHead(t)
      <4>1. pc[t] = "head" /\ cur[t] = NoRecord
        BY <1>1, <3>2 DEF RaceStep, HoldStep, HoldingHead
      <4> QED BY <1>1, <1>2, <1>4, <1>6, <3>2, <4>1 DEF EmptyHeard, CounterRaced, RaceStep
    <3> QED BY <3>1, <3>2
  <2> QED BY <2>1, <2>2
<1> QED BY <1>5, <1>6

\* ... through those of the other tabs ...
LEMMA OthersKnow ==
  ASSUME RestInv, NEW u \in Tabs, NewsStep(u), NEW t \in Tabs \ {u}, t \notin missed'
  PROVE  KnowsAll(t)' /\ EmptyHeard(t)'
<1>1. KnowsAll(t) /\ EmptyHeard(t) /\ Same(t)
  BY DEF RestInv, NewsInv, NewsStep
<1>2. ASSUME NEW v \in Tabs \ {t}, Owes(v) PROVE Owes(v)' \/ mail'[t]
  <2>1. CASE v = u
    BY <1>2, <2>1 DEF NewsStep
  <2>2. CASE v # u
    BY <1>2, <2>2 DEF NewsStep, Same, Owes, Counting
  <2> QED BY <2>1, <2>2
<1>3. WillHear(t) => WillHear(t)'
  BY <1>1, <1>2 DEF WillHear, Same
<1>4. CASE Owes(u)'
  BY <1>4 DEF KnowsAll, EmptyHeard, WillHear
<1>5. CASE UNCHANGED <<outbox, dead>>
  <2>1. \A what : CounterRaced(t, what) => CounterRaced(t, what)'
    BY <1>1 DEF Same, CounterRaced, Mutating
  <2>2. Exact(t) => Exact(t)'
    BY <1>1, <1>5, QuietExact DEF Same, Quiet, Counting
  <2> QED BY <1>1, <1>3, <1>5, <2>1, <2>2 DEF KnowsAll, EmptyHeard, Same
<1> QED BY <1>4, <1>5 DEF NewsStep

\* ... and of the newer build, which announces as it commits.
LEMMA NewerKnown ==
  ASSUME RestInv, Channel, NEW f \in FutureWrites, NEW t \in Tabs, t \notin missed',
         NewerAppends(f) \/ NewerRemoves(f) \/ NewerRetires(f)
  PROVE  KnowsAll(t)' /\ EmptyHeard(t)'
<1>1. AnnounceAll
  BY DEF NewerAppends, NewerRemoves, NewerRetires
<1>2. mail'[t] = (mail[t] \/ (Channel /\ life[t] = "up"))
  BY <1>1 DEF AnnounceAll
<1>3. mail'[t]
  BY <1>2 DEF RestInv, UpInv
<1> QED BY <1>3 DEF KnowsAll, EmptyHeard, WillHear

\* A step that concerns no tab changes nothing of what they know.
LEMMA IdleKnown ==
  ASSUME RestInv, NEW t \in Tabs, t \notin missed',
         UNCHANGED <<outbox, dead, pc, cur, pending, deadCount, adding, added, op, mail, rf,
                     rfSeen, rfTimer, raced, missed>>
  PROVE  KnowsAll(t)' /\ EmptyHeard(t)'
<1>1. KnowsAll(t) /\ EmptyHeard(t)
  BY DEF RestInv, NewsInv
<1>2. WillHear(t) => WillHear(t)'
  BY DEF WillHear, Owes, Counting
<1>3. \A what : CounterRaced(t, what) => CounterRaced(t, what)'
  BY DEF CounterRaced, Mutating
<1>4. Exact(t) => Exact(t)'
  BY QuietExact DEF Quiet, Counting
<1> QED BY <1>1, <1>2, <1>3, <1>4 DEF KnowsAll, EmptyHeard

\* Every page stays up.
LEMMA UpStep ==
  ASSUME TypeInv, UpInv, [Next]_vars, Undisturbed
  PROVE  UpInv'
<1>1. ASSUME NEW u \in Tabs, DrainStep(u) PROVE UNCHANGED life
  BY <1>1 DEF DrainStep, AcquireLock, LockBusy, SessionStopped, ReadHead,
     HeadEmpty, HeadBlocked, HeadRetires, HeadSend, EngineAccepts,
     EngineRejects, EngineUnauthenticated, RemoveCommit, RemoveDone,
     RetireCommit, RetireTrims, Trim, RetireTally, RetireDone, StorageClosed,
     SessionEnds, ReauthSettles
<1>2. ASSUME NEW u \in Tabs, CallStep(u) \/ RefreshStep(u) \/ TimerFires(u)
      PROVE  UNCHANGED life
  BY <1>2 DEF CallStep, EnqueueCommit, EnqueueDone, RequeueCommit, RequeueTally,
     RequeueDone, DiscardCommit, DiscardDone, RefreshStep, AnnounceArrives,
     RefreshTimerFires, RefreshUsage, RefreshCommit, RefreshEnds, TimerFires
<1>3. ASSUME NEW u \in Tabs, LifeStep(u) PROVE FALSE
  BY <1>3 DEF LifeStep, StartRead, StartDone, Close, UpInv
<1>4. ASSUME NEW u \in Tabs, Stimulus(u) PROVE UNCHANGED life
  BY <1>4 DEF Stimulus, Enqueue, RetryCall, DiscardCall, Flush, EnqueueFails, CallFails,
     SendFails, StorageFails, ReauthFails, ReauthEmpty, LateLogin, ExpireCredential,
     Undisturbed, Uncounted
<1>5. ASSUME NEW m \in late, LateArrives(m) PROVE UNCHANGED life
  BY <1>5 DEF LateArrives
<1>6. ASSUME NEW f \in FutureWrites,
             NewerAppends(f) \/ NewerSends(f) \/ NewerRemoves(f) \/ NewerRetires(f)
      PROVE  UNCHANGED life
  BY <1>6 DEF NewerAppends, NewerSends, NewerRemoves, NewerRetires
<1>7. UNCHANGED vars => UNCHANGED life
  BY DEF vars
<1> QED BY <1>1, <1>2, <1>3, <1>4, <1>5, <1>6, <1>7 DEF Next, Rest, UpInv

\* NewsInv is kept by every step that leaves no commit uncounted.
LEMMA NewsInvStep ==
  ASSUME RestInv, Channel, [Next]_vars, Undisturbed
  PROVE  NewsInv'
<1> SUFFICES ASSUME NEW t \in Tabs, t \notin missed'
             PROVE  KnowsAll(t)' /\ EmptyHeard(t)'
  BY DEF NewsInv
<1> DEFINE Idle == UNCHANGED <<outbox, dead, pc, cur, pending, deadCount, adding, added, op,
                               mail, rf, rfSeen, rfTimer, raced, missed>>
<1>1. ASSUME NEW u \in Tabs, \/ DrainStep(u) \/ CallStep(u) \/ RefreshStep(u)
                             \/ TimerFires(u) \/ LifeStep(u) \/ Stimulus(u)
      PROVE  KnowsAll(t)' /\ EmptyHeard(t)'
  <2>1. ~Uncounted(u)
    BY DEF Undisturbed
  <2>2. CASE u = t
    BY <1>1, <2>1, <2>2, OwnKnows
  <2>3. CASE u # t
    BY <1>1, <2>1, <2>3, TabSteps, OthersKnow
  <2> QED BY <2>2, <2>3
<1>2. ASSUME NEW m \in late, LateArrives(m) PROVE Idle
  BY <1>2 DEF LateArrives, store, drainer, counters, calls, refresh, history
<1>3. ASSUME NEW f \in FutureWrites, NewerSends(f) PROVE Idle
  BY <1>3 DEF NewerSends, store, drainer, counters, calls, refresh, history
<1>4. UNCHANGED vars => Idle
  BY DEF vars, store, drainer, counters, calls, refresh, history
<1>5. Idle => KnowsAll(t)' /\ EmptyHeard(t)'
  BY IdleKnown
<1> QED BY <1>1, <1>2, <1>3, <1>4, <1>5, NewerKnown DEF Next, Rest

\* At rest the counters of a tab are right that has dropped no announcement.
LEMMA RestIsRight ==
  ASSUME RestInv
  PROVE  CountersInSyncUnlessMissed
<1> SUFFICES ASSUME Settled, NEW t \in Tabs \ missed
             PROVE  pending[t] = Cardinality(outbox) /\ deadCount[t] = Cardinality(dead)
  BY DEF CountersInSyncUnlessMissed
<1>1. \A u \in Tabs : ~Owes(u)
  BY DEF Settled, Mutating, Owes, Counting, Retiring
<1>2. ~WillHear(t) /\ ~rfTimer[t] /\ rf[t] # "count"
  BY <1>1 DEF Settled, WillHear
<1>3. Exact(t)
  BY <1>2 DEF RestInv, NewsInv, KnowsAll
<1>4. adding[t] = {} /\ op[t].what = "none" /\ pc[t] \notin TakenOut
  BY DEF Settled, Mutating, TakenOut
<1>5. ~Counting(t)
  BY <1>1 DEF Owes
<1>6. TypeInv
  BY DEF RestInv, AllInv
<1>7. Cardinality(outbox) \in Nat /\ pending[t] \in Int
  BY <1>6, Cards DEF TypeInv, TypeOK, CounterTypes
<1>8. Cardinality(adding[t]) = 0
  BY <1>4, FS_EmptySet
<1>9. pending[t] = Cardinality(outbox)
  BY <1>3, <1>4, <1>7, <1>8 DEF Exact, Covered, Owed
<1> QED BY <1>3, <1>5, <1>9 DEF Exact

\* "The others keep their counters in sync over BroadcastChannel": with it and Web
\* Locks, of any number of tabs and beside a newer build, whatever requests are
\* lost, the counters of every tab that dropped no announcement are right at rest.
\* Excluded is what the code does not recover from before the next start(): a page
\* that goes, and a storage error between a commit and its count.
THEOREM CountersAgree ==
  ASSUME WebLocks, Channel
  PROVE  Spec /\ [][Undisturbed]_vars => []CountersInSyncUnlessMissed
<1> DEFINE Strong == AddingFinite /\ UpInv /\ NewsInv
<1>1. Init => Strong
  <2> SUFFICES ASSUME Init PROVE Strong
    OBVIOUS
  <2>1. AddingFinite /\ UpInv
    BY FS_EmptySet DEF Init, AddingFinite, UpInv
  <2>2. ASSUME NEW t \in Tabs PROVE KnowsAll(t) /\ EmptyHeard(t)
    <3>1. /\ outbox = {} /\ dead = {} /\ adding[t] = {} /\ pending[t] = 0 /\ deadCount[t] = 0
          /\ op[t].what = "none" /\ pc[t] = "idle" /\ rf[t] = "none"
      BY DEF Init, NoOp
    <3>2. Cardinality(outbox) = 0 /\ Cardinality(dead) = 0 /\ Cardinality(adding[t]) = 0
      BY <3>1, FS_EmptySet
    <3>3. Exact(t)
      BY <3>1, <3>2 DEF Exact, Covered, Owed, TakenOut
    <3> QED BY <3>1, <3>3 DEF KnowsAll, EmptyHeard
  <2> QED BY <2>1, <2>2 DEF NewsInv
<1>2. AllInv /\ PlaceInv /\ Strong /\ [Next]_vars /\ [Undisturbed]_vars => Strong'
  <2> SUFFICES ASSUME AllInv, PlaceInv, Strong, [Next]_vars, [Undisturbed]_vars
               PROVE  Strong'
    OBVIOUS
  <2>1. RestInv /\ TypeInv
    BY DEF RestInv, AllInv
  <2>2. CASE Undisturbed
    BY <2>1, <2>2, AddingFiniteStep, UpStep, NewsInvStep DEF RestInv
  <2>3. CASE UNCHANGED vars
    <3>1. UNCHANGED <<outbox, dead, pc, cur, pending, deadCount, adding, added, op, mail, rf,
                      rfSeen, rfTimer, raced, missed, life>>
      BY <2>3 DEF vars, store, drainer, counters, calls, refresh, history
    <3>2. NewsInv'
      BY <2>1, <3>1, IdleKnown DEF NewsInv
    <3> QED BY <3>1, <3>2 DEF AddingFinite, UpInv
  <2> QED BY <2>2, <2>3
<1>3. AllInv /\ PlaceInv /\ Strong => CountersInSyncUnlessMissed
  BY RestIsRight DEF RestInv
<1>4. Spec => []AllInv /\ [](WebLocks => PlaceInv)
  BY AllInvariant, PlaceInvariant, PTL
<1>5. AllInv /\ (WebLocks => PlaceInv) => AllInv /\ PlaceInv
  OBVIOUS
<1> QED BY <1>1, <1>2, <1>3, <1>4, <1>5, PTL DEF Spec

\* Without faults, stops and crashes, in particular.
COROLLARY FaultlessCountersAgree ==
  ASSUME WebLocks, Channel, MaxFaults = 0, MaxStarts = 0
  PROVE  Spec => []CountersInSyncUnlessMissed
<1>1. TypeInv => Undisturbed
  BY DEF TypeInv, TypeOK, CounterTypes, Undisturbed, Uncounted, Stop, Crash, StorageFails,
     CallFails, Fault
<1>2. Spec => [][Undisturbed]_vars
  BY <1>1, TypeInvariant, PTL
<1> QED BY <1>2, CountersAgree, PTL

-----------------------------------------------------------------------------
(* The queue implements the outbox an application is promised.             *)

\* A record's ticket in the line of WriteOutbox, and the line.
TicketOf(r) == [seq |-> r.seq, id |-> r.id]
Line(S) == {TicketOf(r) : r \in S}

\* The head of the outbox is first in line.
LEMMA HeadIsFirst ==
  ASSUME NEW r, IsHead(r)
  PROVE  Outbox!First(TicketOf(r))
BY DEF IsHead, TicketOf, Outbox!First

\* A ticket under the next key is last in line.
LEMMA NextIsLast ==
  ASSUME AllInv, NEW k, k.seq = nextSeq
  PROVE  Outbox!Last(k)
BY DEF AllInv, LostInv, KeysInv, Outbox!Last

\* Every record's ticket is one of WriteOutbox's.
LEMMA Tickets ==
  ASSUME Keys = Nat, NEW r \in Record
  PROVE  TicketOf(r) \in Outbox!Ticket /\ TicketOf(r).id = r.id
                                       /\ TicketOf(r).seq = r.seq
BY DEF TicketOf, Outbox!Ticket, Record

\* A record taken out of the outbox takes its ticket out of the line.
LEMMA LineWithout ==
  ASSUME AllInv, NEW r \in outbox
  PROVE  Line(outbox \ {r}) = Line(outbox) \ {TicketOf(r)}
<1>1. \A s \in outbox : TicketOf(s) = TicketOf(r) => s = r
  BY DEF TicketOf, AllInv, LostInv, KeysInv
<1> QED BY <1>1 DEF Line

\* One more effect at the engine.
LEMMA EffectIsTaken ==
  ASSUME AllInv, PlaceInv, Keys = Nat, [Next]_vars, applied' # applied
  PROVE  Outbox!Next
<1> USE DEF AllInv, TypeInv, TypeOK
<1>1. PICK w \in Ids :
              /\ Apply(w) /\ UNCHANGED <<store, history>>
              /\ \/ \E t \in Tabs :
                      pc[t] = "sending" /\ cur[t] \in Record /\ w = cur[t].id
                 \/ \E m \in late : w = m.id
                 \/ outbox # {} /\ w = Head0.id
  BY AppliedSteps
<1>2. w \notin Effects /\ applied' = Append(applied, w)
  BY <1>1 DEF Apply
<1>3. MayTakeEffect(w)
  <2>1. ASSUME NEW t \in Tabs, pc[t] = "sending", cur[t] \in Record, w = cur[t].id
        PROVE  MayTakeEffect(w)
    BY <2>1, NoRecordAssumption DEF PlaceInv, HoldingHead, MayTakeEffect, IsHead
  <2>2. ASSUME NEW m \in late, w = m.id
        PROVE  MayTakeEffect(w)
    BY <2>2 DEF PlaceInv
  <2>3. CASE outbox # {} /\ w = Head0.id
    BY <2>3, HeadIsLowest DEF MayTakeEffect, IsHead
  <2> QED BY <1>1, <2>1, <2>2, <2>3
<1>4. w \in everDead \/ \E k \in Line(outbox) : Outbox!First(k) /\ k.id = w
  <2>1. CASE \E r \in outbox : IsHead(r) /\ r.id = w
    <3>1. PICK r \in outbox : IsHead(r) /\ r.id = w
      BY <2>1
    <3>2. Outbox!First(TicketOf(r)) /\ TicketOf(r).id = w
      BY <3>1, HeadIsFirst DEF TicketOf
    <3>3. TicketOf(r) \in Line(outbox)
      BY DEF Line
    <3> QED BY <3>2, <3>3
  <2> QED BY <1>2, <1>3, <2>1 DEF MayTakeEffect
<1>5. ~Outbox!InEffect(w)
  BY <1>2 DEF Outbox!InEffect, Effects
<1>6. Outbox!TakeEffect(w)
  BY <1>1, <1>2, <1>4, <1>5 DEF Outbox!TakeEffect, Line, TicketOf, store, history
<1> QED BY <1>1, <1>6 DEF Outbox!Next

\* A step that leaves the stores alone, or touches one of them, is a step of
\* WriteOutbox or a stutter.
LEMMA StoreStepMaps ==
  ASSUME AllInv, PlaceInv, Keys = Nat, WebLocks, [Next]_vars,
         applied' = applied
  PROVE  [Outbox!Next]_(Outbox!vars)
<1> USE DEF AllInv, store
<1>1. \A r \in Record : TicketOf(r) \in Outbox!Ticket
  BY Tickets
<1>2. CASE UNCHANGED <<store, accepted, delivered, everDead, gone>>
  BY <1>2 DEF Outbox!vars
<1>3. CASE accepted' # accepted
  <2>1. PICK r \in Record :
              /\ r.seq = nextSeq /\ r.id \notin IdsOf(accepted)
              /\ accepted' = accepted \cup {r} /\ outbox' = outbox \cup {r}
              /\ UNCHANGED <<dead, delivered, everDead, gone>>
    BY <1>3, AcceptedSteps DEF FifoInv
  <2>2. Outbox!Last(TicketOf(r)) /\ TicketOf(r).id = r.id
    BY <2>1, NextIsLast DEF TicketOf
  <2>3. Outbox!Accept(TicketOf(r))
    BY <2>1, <2>2 DEF Outbox!Accept, TicketOf, IdsOf
  <2> QED BY <1>1, <2>3 DEF Outbox!Next
<1>4. ASSUME NEW t \in Tabs, RemoveCommit(t)
      PROVE  Outbox!Next
  <2>1. PICK r \in outbox :
          /\ r = cur[t] /\ IsHead(r) /\ outbox' = outbox \ {r}
          /\ UNCHANGED <<dead, everDead, accepted>>
    BY <1>4, CommitTakesHead DEF RemoveCommit
  <2>2. r.id \in Effects
    BY <1>4, <2>1 DEF RemoveCommit, LostInv, RemoveInv
  <2>3. Outbox!InEffect(TicketOf(r).id)
    BY <2>2 DEF Outbox!InEffect, Effects, TicketOf
  <2>4. Line(outbox') = Line(outbox) \ {TicketOf(r)}
    BY <2>1, LineWithout
  <2>5. Outbox!Complete(TicketOf(r))
    BY <2>1, <2>3, <2>4, HeadIsFirst
       DEF Outbox!Complete, Line, TicketOf
  <2> QED BY <1>1, <2>1, <2>5 DEF Outbox!Next, TypeInv, TypeOK, StoreTypes
<1>5. ASSUME NEW t \in Tabs, RetireCommit(t)
      PROVE  Outbox!Next
  <2>1. PICK r \in outbox :
          /\ r = cur[t] /\ IsHead(r) /\ outbox' = outbox \ {r}
          /\ dead' = {d \in dead : d.id # r.id} \cup {r}
          /\ everDead' = everDead \cup {r.id} /\ UNCHANGED accepted
    BY <1>5, CommitTakesHead DEF RetireCommit
  <2>2. IdsOf(dead') = IdsOf(dead) \cup {r.id}
    BY <2>1 DEF IdsOf
  <2>3. Line(outbox') = Line(outbox) \ {TicketOf(r)}
    BY <2>1, LineWithout
  <2>4. Outbox!SetAside(TicketOf(r))
    BY <2>1, <2>2, <2>3, HeadIsFirst
       DEF Outbox!SetAside, Line, TicketOf, IdsOf
  <2> QED BY <1>1, <2>1, <2>4 DEF Outbox!Next, TypeInv, TypeOK, StoreTypes
<1>6. ASSUME NEW D, D \subseteq dead, dead' = dead \ D,
             UNCHANGED <<outbox, everDead, accepted>>
      PROVE  Outbox!Next
  <2>1. IdsOf(dead') = IdsOf(dead) \ IdsOf(D)
    BY <1>6 DEF IdsOf, PlaceInv
  <2>2. IdsOf(D) \subseteq IdsOf(dead) /\ IdsOf(dead) \subseteq Ids
    BY <1>6 DEF IdsOf, TypeInv, TypeOK, StoreTypes, Record
  <2>3. Outbox!Drop(IdsOf(D))
    BY <1>6, <2>1, <2>2 DEF Outbox!Drop, IdsOf
  <2> QED BY <2>2, <2>3 DEF Outbox!Next
<1>7. ASSUME NEW t \in Tabs, Trim(t)
      PROVE  Outbox!Next
  <2>1. Excess \subseteq dead
    BY DEF Excess
  <2> QED BY <1>6, <1>7, <2>1 DEF Trim
<1>8. ASSUME NEW t \in Tabs, DiscardCommit(t)
      PROVE  [Outbox!Next]_(Outbox!vars)
  <2>1. CASE UNCHANGED dead
    BY <1>8, <2>1 DEF DiscardCommit, Outbox!vars
  <2>2. CASE dead' = {d \in dead : d.id # op[t].id}
    <3>1. dead' = dead \ {d \in dead : d.id = op[t].id}
      BY <2>2
    <3> QED BY <1>6, <1>8, <3>1 DEF DiscardCommit
  <2> QED BY <1>8, <2>1, <2>2 DEF DiscardCommit
<1>9. ASSUME NEW t \in Tabs, RequeueCommit(t)
      PROVE  [Outbox!Next]_(Outbox!vars)
  <2>1. CASE UNCHANGED store
    BY <1>9, <2>1 DEF RequeueCommit, history, Outbox!vars
  <2>2. CASE ~UNCHANGED store
    <3>1. PICK d \in dead, r \in outbox' :
            /\ r = Requeued(d) /\ outbox' = outbox \cup {r} /\ dead' = dead \ {d}
            /\ UNCHANGED <<everDead, accepted>>
      BY <1>9, <2>2 DEF RequeueCommit, history
    <3>2. r \in Record /\ r.id = d.id /\ r.seq = nextSeq
      BY <3>1 DEF Requeued, TypeInv, TypeOK, StoreTypes, Record
    <3>3. IdsOf(dead') = IdsOf(dead) \ {d.id} /\ d.id \in IdsOf(dead)
      BY <3>1 DEF IdsOf, PlaceInv
    <3>4. Outbox!Last(TicketOf(r))
      BY <3>2, NextIsLast DEF TicketOf
    <3>5. Outbox!PutBack(TicketOf(r))
      <4>1. TicketOf(r).id = d.id
        BY <3>2 DEF TicketOf
      <4>2. Line(outbox') = Line(outbox) \cup {TicketOf(r)}
        BY <3>1 DEF Line
      <4> QED BY <3>1, <3>3, <3>4, <4>1, <4>2
              DEF Outbox!PutBack, Line, TicketOf, IdsOf
    <3> QED BY <1>1, <3>2, <3>5 DEF Outbox!Next
  <2> QED BY <2>1, <2>2
<1>10. ASSUME NEW f \in FutureWrites, NewerRemoves(f)
       PROVE  Outbox!Next
  <2>1. PICK r \in outbox :
          /\ r = Head0 /\ IsHead(r) /\ outbox' = outbox \ {r}
          /\ UNCHANGED <<dead, everDead, accepted>>
    BY <1>10, HeadIsLowest
       DEF NewerRemoves, Head0, IsHead, TypeInv, TypeOK
  <2>2. r.id \in Effects
    BY <1>10, <2>1 DEF NewerRemoves
  <2>3. Outbox!InEffect(TicketOf(r).id)
    BY <2>2 DEF Outbox!InEffect, Effects, TicketOf
  <2>4. Line(outbox') = Line(outbox) \ {TicketOf(r)}
    BY <2>1, LineWithout
  <2>5. Outbox!Complete(TicketOf(r))
    BY <2>1, <2>3, <2>4, HeadIsFirst
       DEF Outbox!Complete, Line, TicketOf
  <2> QED BY <1>1, <2>1, <2>5 DEF Outbox!Next, TypeInv, TypeOK, StoreTypes
<1>11. ASSUME NEW f \in FutureWrites, NewerRetires(f)
       PROVE  Outbox!Next
  <2>1. PICK r \in outbox :
          /\ r = Head0 /\ IsHead(r) /\ outbox' = outbox \ {r}
          /\ dead' = dead \cup {r}
          /\ everDead' = everDead \cup {r.id} /\ UNCHANGED accepted
    BY <1>11, HeadIsLowest
       DEF NewerRetires, Head0, IsHead, TypeInv, TypeOK
  <2>2. IdsOf(dead') = IdsOf(dead) \cup {r.id}
    BY <2>1 DEF IdsOf
  <2>3. Line(outbox') = Line(outbox) \ {TicketOf(r)}
    BY <2>1, LineWithout
  <2>4. Outbox!SetAside(TicketOf(r))
    BY <2>1, <2>2, <2>3, HeadIsFirst
       DEF Outbox!SetAside, Line, TicketOf, IdsOf
  <2> QED BY <1>1, <2>1, <2>4 DEF Outbox!Next, TypeInv, TypeOK, StoreTypes
<1>12. ASSUME NEW t \in Tabs, EnqueueCommit(t), accepted' = accepted
       PROVE  FALSE
  BY <1>12, EnqueueIsNew
<1>13. ASSUME NEW f \in FutureWrites, NewerAppends(f), accepted' = accepted
       PROVE  FALSE
  BY <1>13, AppendIsNew
<1>14. CASE UNCHANGED vars
  BY <1>14 DEF vars, engine, history, Outbox!vars
<1>15. CASE Next
  BY <1>2, <1>3, <1>4, <1>5, <1>7, <1>8, <1>9, <1>10, <1>11, <1>12, <1>13,
     <1>15, StoreSteps
<1> QED BY <1>14, <1>15

\* With Web Locks, and whatever keys the store may give, the queue implements
\* the outbox it promises: any tabs, writes, caps, crashes and faults.
THEOREM ImplementsOutbox ==
  ASSUME Keys = Nat, WebLocks
  PROVE  Spec => OutboxSpec
<1>1. Init => Outbox!Init
  BY DEF Init, Outbox!Init, IdsOf
<1>2. AllInv /\ (WebLocks => PlaceInv) /\ [Next]_vars
        => [Outbox!Next]_(Outbox!vars)
  BY EffectIsTaken, StoreStepMaps
<1> QED BY <1>1, <1>2, AllInvariant, PlaceInvariant, PTL
        DEF Spec, OutboxSpec, Outbox!Spec

=============================================================================
