---------------------------- MODULE OfflineQueue ----------------------------
(***************************************************************************)
(* The offline write queue of @ironflow/browser: OfflineQueue (queue.ts)   *)
(* over QueueDb (db.ts) and withFlushLock (lock.ts).                       *)
(*                                                                         *)
(* Every tab of an origin shares one IndexedDB database.  enqueue() stores *)
(* a write; a drain loop per tab, serialised across tabs by a Web Lock     *)
(* where the browser has one, sends the record with the lowest key, removes*)
(* it when the engine acknowledged it, and moves it to the dead-letter     *)
(* store when it can never be sent.  Each tab keeps counters in memory,    *)
(* refreshed from the store when a sibling announces a change.             *)
(*                                                                         *)
(* JavaScript runs one callback at a time, so an action is what one tab    *)
(* does between two awaits, or one IndexedDB transaction.  What is awaited *)
(* is in pc (the drain loop), adding/added (enqueue calls), op (retry and  *)
(* discard calls) and rf (the counter refresh).                            *)
(*                                                                         *)
(* Abstracted: bodies, byte sizes (the byte counters move with the item    *)
(* counters at the same lines), backoff lengths, display-only statistics.  *)
(* Time is a choice: a record of Expirable may be found expired, or bound  *)
(* to another destination or to an unknown kind, whenever it is examined.  *)
(***************************************************************************)
EXTENDS Integers, FiniteSets, Sequences

CONSTANTS
  Tabs,              \* open tabs, each with its own OfflineQueue
  Writes,            \* writes the application may enqueue, by localId
  FutureWrites,      \* records a newer build of the SDK may store
  Expirable,         \* writes that may be refused when they reach the head
  Rejected,          \* writes the engine answers with a permanent 4xx
  Principals,        \* who may be signed in
  WebLocks,          \* whether navigator.locks exists
  Channel,           \* whether BroadcastChannel exists
  LateLogins,        \* whether a timed-out onAuthRequired may still settle
  MaxItems,          \* opts.maxItems
  MaxDeadLettered,   \* opts.maxDeadLettered
  MaxRefreshRetries, \* MAX_REFRESH_RETRIES
  MaxFaults,         \* bound: lost requests, storage faults, failed logins
  MaxStarts,         \* bound: pages that crash or stop their queue
  MaxCalls,          \* bound: calls to flush(), retry() and discard()
  NoTab, NoRecord, Expired

ASSUME QueueAssumption ==
  /\ WebLocks \in BOOLEAN /\ Channel \in BOOLEAN /\ LateLogins \in BOOLEAN
  /\ FutureWrites \cap Writes = {}
  /\ MaxItems \in Nat /\ MaxDeadLettered \in Nat /\ MaxRefreshRetries \in Nat
  /\ MaxFaults \in Nat /\ MaxStarts \in Nat /\ MaxCalls \in Nat
  /\ NoTab \notin Tabs
  /\ Expired \notin Principals

Ids == Writes \cup FutureWrites

\* A stored write: the key IndexedDB gave it, its localId (which stands for
\* its idempotency key too) and the queueIdentity it was stored under.
Record == [seq : Nat, id : Ids, by : Principals]

ASSUME NoRecordAssumption == NoRecord \notin Record

Request == [id : Ids, seq : Nat, as : Principals \cup {Expired}]

VARIABLES
  outbox,      \* object store "outbox": a set of records, ordered by seq
  dead,        \* object store "deadletter"
  nextSeq,     \* the next autoIncrement key
  lock,        \* the holder of the flush lock
  applied,     \* the engine: ids in the order they first took effect
  late,        \* requests whose sender no longer waits for them
  life,        \* up, stopping (stop() called), closed, down, opening
  pc,          \* where the drain loop of a tab is
  cur,         \* the head record the drain loop read
  req,         \* the request the drain loop has sent
  requested,   \* drainRequested
  armed,       \* retryArmed
  mode,        \* state: idle, flushing, paused, blocked
  mayAuth,     \* mayReauthenticate
  who,         \* opts.identity
  cred,        \* the credential the client sends
  prompt,      \* an onAuthRequired that outlived authTimeoutMs is unsettled
  pending,     \* pending
  deadCount,   \* deadLettered
  adding,      \* enqueue calls whose transaction has not committed
  added,       \* enqueue calls whose transaction has
  op,          \* a retry or discard call
  mail,        \* a "changed" message is waiting for the tab
  rf,          \* the refresh pass: none, usage, count, watch
  rfSeen,      \* what usage() returned to it
  rfRetries,   \* refreshRetries
  rfTimer,     \* the setTimeout that asks for a raced refresh again
  raced,       \* reads in progress that a counter mutation has overlapped
  accepted,    \* history: records as they were first stored
  delivered,   \* history: ids removed because the engine acknowledged them
  everDead,    \* history: ids that were ever dead-lettered
  gone,        \* history: ids evicted or discarded from the dead letters
  stranded,    \* history: writes put back by a retry() that then failed
  missed,      \* history: tabs that dropped an announcement or gave up a pass
  sentAs,      \* history: <<id, principal>> of each authenticated send
  faults,      \* faults so far
  starts,      \* crashes and stops so far
  asked        \* calls to flush(), retry() and discard() so far

store    == <<outbox, dead, nextSeq>>
engine   == <<applied, late>>
drainer  == <<lock, pc, cur, req, requested, armed, mode, mayAuth>>
auth     == <<who, cred, prompt>>
counters == <<pending, deadCount>>
calls    == <<adding, added, op>>
refresh  == <<mail, rf, rfSeen, rfRetries, rfTimer, raced>>
history  == <<accepted, delivered, everDead, gone, stranded, missed, sentAs>>
bounds   == <<faults, starts, asked>>

vars == <<store, engine, life, drainer, auth, counters, calls, refresh,
          history, bounds>>

-----------------------------------------------------------------------------

PCs == {"idle", "lock", "session", "head", "sending", "remove", "removed",
        "retire", "retired", "trim", "trimmed", "tally",
        "endIdle", "endBlocked", "endRetry", "endAuth", "reauth"}

\* The pcs at which withFlushLock's callback is running.
InSession == {"session", "head", "sending", "remove", "removed",
              "retire", "retired", "trim", "trimmed", "tally",
              "endIdle", "endBlocked", "endRetry", "endAuth"}

Ends == {"endIdle", "endBlocked", "endRetry", "endAuth"}

NoOp == [what |-> "none", id |-> NoRecord]

\* requireDb() succeeds.
DbOpen(t) == life[t] \in {"up", "stopping"}

IdsOf(S) == {r.id : r \in S}

Effects == {applied[i] : i \in 1 .. Len(applied)}

\* Mutant of Head0: the cursor runs backwards.
HeadNewest == IF outbox = {} THEN NoRecord
              ELSE CHOOSE r \in outbox : \A s \in outbox : r.seq >= s.seq

\* head(): the record with the lowest key.
Head0 == IF outbox = {} THEN NoRecord
         ELSE CHOOSE r \in outbox : \A s \in outbox : r.seq <= s.seq

\* counterMutations > 0
Mutating(t) ==
  \/ adding[t] # {} \/ added[t] # {} \/ op[t].what # "none"
  \/ pc[t] \in {"remove", "removed", "retire", "retired", "trim", "trimmed",
               "tally"}

\* counterMark() when the read `what` begins.
Mark(t, what) == IF Mutating(t) THEN raced[t] \cup {what} ELSE raced[t] \ {what}

\* The end of mutate(): counterEpoch moves, so reads in progress are raced.
Bump(t) ==
  raced' = [raced EXCEPT ![t] = @
    \cup (IF rf[t] \in {"usage", "count"} THEN {"refresh"} ELSE {})
    \cup (IF pc[t] = "head" THEN {"head"} ELSE {})]

\* Mutant of CounterRaced: a mutation that began and ended meanwhile is missed.
CounterRacedNow(t, what) == Mutating(t)

\* counterRaced(mark)
CounterRaced(t, what) == Mutating(t) \/ what \in raced[t]

\* announce(): reaches every other tab whose channel is open.
Announce(t) ==
  mail' = [u \in Tabs |->
             \/ mail[u]
             \/ /\ Channel /\ u # t
                /\ life[t] \in {"up", "stopping"} /\ life[u] = "up"]

\* drain(), as far as its first await.
DrainCall(t) ==
  IF life[t] # "up" THEN UNCHANGED <<pc, requested, mayAuth>>
  ELSE IF pc[t] = "idle"
       THEN /\ pc' = [pc EXCEPT ![t] = "lock"]
            /\ requested' = [requested EXCEPT ![t] = FALSE]
            /\ mayAuth' = [mayAuth EXCEPT ![t] = TRUE]
       ELSE /\ requested' = [requested EXCEPT ![t] = TRUE]
            /\ UNCHANGED <<pc, mayAuth>>

\* Mutant of ScheduleRetry: no timer is armed.
ScheduleRetryNever(t) == UNCHANGED armed

\* scheduleRetry()
ScheduleRetry(t) == armed' = [armed EXCEPT ![t] = @ \/ life[t] = "up"]

Goto(t, l) == pc' = [pc EXCEPT ![t] = l]

SetMode(t, m) == mode' = [mode EXCEPT ![t] = m]

\* drain() returns: draining is false, and drain() will set the two others
\* before it reads them again.
Leave(t) ==
  /\ Goto(t, "idle")
  /\ requested' = [requested EXCEPT ![t] = FALSE]
  /\ mayAuth' = [mayAuth EXCEPT ![t] = TRUE]

Fault == faults < MaxFaults /\ faults' = faults + 1

\* The engine deduplicates on the idempotency key.
Apply(id) == applied' = IF id \in Effects THEN applied ELSE Append(applied, id)

-----------------------------------------------------------------------------
(* The initial state: every tab has started on an empty database.          *)

Init ==
  /\ outbox = {} /\ dead = {} /\ nextSeq = 1
  /\ lock = NoTab
  /\ applied = <<>> /\ late = {}
  /\ life = [t \in Tabs |-> "up"]
  /\ pc = [t \in Tabs |-> "idle"]
  /\ cur = [t \in Tabs |-> NoRecord]
  /\ req = [t \in Tabs |-> NoRecord]
  /\ requested = [t \in Tabs |-> FALSE]
  /\ armed = [t \in Tabs |-> FALSE]
  /\ mode = [t \in Tabs |-> "idle"]
  /\ mayAuth = [t \in Tabs |-> TRUE]
  /\ \E p \in Principals : who = [t \in Tabs |-> p] /\ cred = who
  /\ prompt = [t \in Tabs |-> FALSE]
  /\ pending = [t \in Tabs |-> 0]
  /\ deadCount = [t \in Tabs |-> 0]
  /\ adding = [t \in Tabs |-> {}]
  /\ added = [t \in Tabs |-> {}]
  /\ op = [t \in Tabs |-> NoOp]
  /\ mail = [t \in Tabs |-> FALSE]
  /\ rf = [t \in Tabs |-> "none"]
  /\ rfSeen = [t \in Tabs |-> 0]
  /\ rfRetries = [t \in Tabs |-> 0]
  /\ rfTimer = [t \in Tabs |-> FALSE]
  /\ raced = [t \in Tabs |-> {}]
  /\ accepted = {} /\ delivered = {} /\ everDead = {} /\ gone = {}
  /\ stranded = {} /\ missed = {} /\ sentAs = {}
  /\ faults = 0 /\ starts = 0 /\ asked = 0

-----------------------------------------------------------------------------
(* enqueue()                                                               *)

\* Mutant of HasRoom: off by one.
HasRoomForOneMore(t) == pending[t] <= MaxItems

HasRoom(t) == pending[t] + 1 <= MaxItems

\* The synchronous part: check the cap and reserve, then open the
\* transaction.  A call over the cap throws QueueFullError and changes nothing.
Enqueue(t, w) ==
  /\ DbOpen(t)
  /\ w \notin IdsOf(accepted) /\ \A u \in Tabs : w \notin IdsOf(adding[u])
  /\ HasRoom(t)
  /\ pending' = [pending EXCEPT ![t] = @ + 1]
  /\ adding' = [adding EXCEPT ![t] = @ \cup {[id |-> w, by |-> who[t]]}]
  /\ UNCHANGED <<store, engine, life, drainer, auth, deadCount, added, op,
                 refresh, history, bounds>>

EnqueueCommit(t) ==
  \E a \in adding[t] :
    LET r == [seq |-> nextSeq, id |-> a.id, by |-> a.by] IN
    /\ outbox' = outbox \cup {r}
    /\ nextSeq' = nextSeq + 1
    /\ accepted' = accepted \cup {r}
    /\ adding' = [adding EXCEPT ![t] = @ \ {a}]
    /\ added' = [added EXCEPT ![t] = @ \cup {a.id}]
    /\ UNCHANGED <<dead, engine, life, drainer, auth, counters, op, refresh,
                   delivered, everDead, gone, stranded, missed, sentAs, bounds>>

\* The continuation: announce and ask for a drain; the caller has its handles.
EnqueueDone(t) ==
  \E w \in added[t] :
    /\ added' = [added EXCEPT ![t] = @ \ {w}]
    /\ Bump(t)
    /\ Announce(t)
    /\ DrainCall(t)
    /\ UNCHANGED <<store, engine, life, lock, cur, req, armed, mode, auth,
                   counters, adding, op, rf, rfSeen, rfRetries, rfTimer,
                   history, bounds>>

\* The transaction aborts (quota, a storage error): the reservation is undone.
EnqueueFails(t) ==
  \E a \in adding[t] :
    /\ Fault
    /\ adding' = [adding EXCEPT ![t] = @ \ {a}]
    /\ pending' = [pending EXCEPT ![t] = @ - 1]
    /\ Bump(t)
    /\ UNCHANGED <<store, engine, life, drainer, auth, deadCount, added, op,
                   mail, rf, rfSeen, rfRetries, rfTimer, history, starts,
                   asked>>

-----------------------------------------------------------------------------
(* drain() and drainSession()                                              *)

\* Mutant of Release: whoever leaves frees the lock, held by it or not.
ReleaseAny(t) == lock' = NoTab

Release(t) == lock' = IF lock = t THEN NoTab ELSE lock

\* Mutant of AcquireLock: the lock is not asked for.
AcquireLockUnasked(t) ==
  /\ pc[t] = "lock"
  /\ Goto(t, "session")
  /\ UNCHANGED <<store, engine, life, lock, cur, req, requested, armed, mode,
                 mayAuth, auth, counters, calls, refresh, history, bounds>>

AcquireLock(t) ==
  /\ pc[t] = "lock"
  /\ WebLocks => lock = NoTab
  /\ lock' = IF WebLocks THEN t ELSE lock
  /\ Goto(t, "session")
  /\ UNCHANGED <<store, engine, life, cur, req, requested, armed, mode,
                 mayAuth, auth, counters, calls, refresh, history, bounds>>

LockBusy(t) ==
  /\ pc[t] = "lock"
  /\ WebLocks /\ lock # NoTab
  /\ SetMode(t, "paused")
  /\ ScheduleRetry(t)
  /\ Leave(t)
  /\ UNCHANGED <<store, engine, life, lock, cur, req,
                 auth, counters, calls, refresh, history, bounds>>

\* if (this.stopped) return "retry".  (Once closed, requireDb() throws instead,
\* which differs in the mode of a queue that is gone.)
SessionStopped(t) ==
  /\ pc[t] = "session" /\ life[t] # "up"
  /\ Goto(t, "endRetry")
  /\ UNCHANGED <<store, engine, life, lock, cur, req, requested, armed, mode,
                 mayAuth, auth, counters, calls, refresh, history, bounds>>

\* The database answers the calls of one tab in the order it serves them: the tab
\* hears that a requeue has committed before it hears of a head read after it.
ReadHead(t) ==
  /\ pc[t] = "session" /\ life[t] = "up"
  /\ op[t].what # "requeued"
  /\ cur' = [cur EXCEPT ![t] = Head0]
  /\ raced' = [raced EXCEPT ![t] = Mark(t, "head")]
  /\ Goto(t, "head")
  /\ UNCHANGED <<store, engine, life, lock, req, requested, armed, mode,
                 mayAuth, auth, counters, calls, mail, rf, rfSeen, rfRetries,
                 rfTimer, history, bounds>>

LeaveHead(t) ==
  /\ raced' = [raced EXCEPT ![t] = @ \ {"head"}]
  /\ UNCHANGED <<mail, rf, rfSeen, rfRetries, rfTimer>>

\* Nothing to send: re-derive the counters unless a mutation overlapped.
HeadEmpty(t) ==
  /\ pc[t] = "head" /\ cur[t] = NoRecord
  /\ pending' = [pending EXCEPT ![t] = IF CounterRaced(t, "head") THEN @ ELSE 0]
  /\ SetMode(t, "idle")
  /\ Goto(t, "endIdle")
  /\ LeaveHead(t)
  /\ UNCHANGED <<store, engine, life, lock, cur, req, requested, armed,
                 mayAuth, auth, deadCount, calls, history, bounds>>

\* A record of a newer build stops delivery and is left alone.
HeadBlocked(t) ==
  /\ pc[t] = "head" /\ cur[t] # NoRecord
  /\ cur[t].id \in FutureWrites
  /\ SetMode(t, "blocked")
  /\ Goto(t, "endBlocked")
  /\ LeaveHead(t)
  /\ UNCHANGED <<store, engine, life, lock, cur, req, requested, armed,
                 mayAuth, auth, counters, calls, history, bounds>>

\* drain()'s catch: an error that escapes the session.
DrainThrows(t) ==
  /\ Release(t)
  /\ SetMode(t, "paused")
  /\ ScheduleRetry(t)
  /\ Leave(t)
  /\ cur' = [cur EXCEPT ![t] = NoRecord]
  /\ req' = [req EXCEPT ![t] = NoRecord]

\* retire(), as far as its first await; requireDb() throws once closed.
Retire(t) ==
  IF life[t] = "closed" THEN DrainThrows(t)
  ELSE /\ Goto(t, "retire")
       /\ req' = [req EXCEPT ![t] = NoRecord]
       /\ UNCHANGED <<lock, cur, requested, armed, mode, mayAuth>>

\* Mutant of Foreign: the record's owner is not compared.
ForeignNever(t) == FALSE

\* head.identity !== this.opts.identity
Foreign(t) == cur[t].by # who[t]

\* identity-mismatch, expired, destination-mismatch or unknown-kind
HeadRetires(t) ==
  /\ pc[t] = "head" /\ cur[t] # NoRecord
  /\ cur[t].id \in Writes
  /\ Foreign(t) \/ cur[t].id \in Expirable
  /\ Retire(t)
  /\ LeaveHead(t)
  /\ UNCHANGED <<store, engine, life, auth, counters, calls, history, bounds>>

HeadSend(t) ==
  /\ pc[t] = "head" /\ cur[t] # NoRecord
  /\ cur[t].id \in Writes
  /\ ~Foreign(t)
  /\ req' = [req EXCEPT ![t] =
               [id |-> cur[t].id, seq |-> cur[t].seq, as |-> cred[t]]]
  /\ sentAs' = IF cred[t] = Expired THEN sentAs
               ELSE sentAs \cup {<<cur[t].id, cred[t]>>}
  /\ SetMode(t, "flushing")
  /\ Goto(t, "sending")
  /\ LeaveHead(t)
  /\ UNCHANGED <<store, engine, life, lock, cur, requested, armed, mayAuth,
                 auth, counters, calls, accepted, delivered, everDead, gone,
                 stranded, missed, bounds>>

-----------------------------------------------------------------------------
(* The answer to a send: classifyFailure() and the branches it selects.    *)

\* 2xx.  Removing the record throws, and is a "retry", once the db is closed.
EngineAccepts(t) ==
  /\ pc[t] = "sending" /\ req[t].as # Expired
  /\ req[t].id \in Rejected => req[t].id \in Effects
  /\ Apply(req[t].id)
  /\ req' = [req EXCEPT ![t] = NoRecord]
  /\ IF life[t] = "closed"
     THEN Goto(t, "endRetry") /\ SetMode(t, "paused")
     ELSE Goto(t, "remove") /\ UNCHANGED mode
  /\ UNCHANGED <<store, late, life, lock, cur, requested, armed, mayAuth,
                 auth, counters, calls, refresh, history, bounds>>

\* A permanent 4xx, or a 2xx whose body cannot be read: poison.
EngineRejects(t) ==
  /\ pc[t] = "sending" /\ req[t].as # Expired
  /\ req[t].id \in Rejected
  /\ UNCHANGED applied \/ Apply(req[t].id)
  /\ Retire(t)
  /\ UNCHANGED <<store, late, life, auth, counters, calls, refresh, history,
                 bounds>>

\* 401
EngineUnauthenticated(t) ==
  /\ pc[t] = "sending" /\ req[t].as = Expired
  /\ SetMode(t, "paused")
  /\ Goto(t, "endAuth")
  /\ req' = [req EXCEPT ![t] = NoRecord]
  /\ UNCHANGED <<store, engine, life, lock, cur, requested, armed, mayAuth,
                 auth, counters, calls, refresh, history, bounds>>

\* Mutant of SendFails: a timeout is taken for an acknowledgement.
SendFailsAsSent(t) ==
  /\ pc[t] = "sending"
  /\ Fault
  /\ late' = late \cup {req[t]}
  /\ Goto(t, "remove")
  /\ req' = [req EXCEPT ![t] = NoRecord]
  /\ UNCHANGED <<store, applied, life, lock, cur, requested, armed, mode,
                 mayAuth, auth, counters, calls, refresh, history, starts,
                 asked>>

\* A network failure, a 5xx, a 429 or a timeout.  The request may be lost,
\* may have taken effect, or may still be on its way.
SendFails(t) ==
  /\ pc[t] = "sending"
  /\ Fault
  /\ late' = late \cup {req[t]}
  /\ SetMode(t, "paused")
  /\ Goto(t, "endRetry")
  /\ req' = [req EXCEPT ![t] = NoRecord]
  /\ UNCHANGED <<store, applied, life, lock, cur, requested, armed, mayAuth,
                 auth, counters, calls, refresh, history, starts, asked>>

\* A request nobody waits for reaches the engine.
LateArrives(m) ==
  /\ m \in late
  /\ late' = late \ {m}
  /\ \/ /\ m.as # Expired
        /\ Apply(m.id)
     \/ /\ m.as = Expired \/ m.id \in Rejected
        /\ UNCHANGED applied
  /\ UNCHANGED <<store, life, drainer, auth, counters, calls, refresh,
                 history, bounds>>

-----------------------------------------------------------------------------
(* The store mutations of the drain loop.                                  *)

RemoveCommit(t) ==
  /\ pc[t] = "remove"
  /\ outbox' = {r \in outbox : r.seq # cur[t].seq}
  /\ delivered' = delivered \cup {cur[t].id}
  /\ Goto(t, "removed")
  /\ UNCHANGED <<dead, nextSeq, engine, life, lock, cur, req, requested,
                 armed, mode, mayAuth, auth, counters, calls, refresh,
                 accepted, everDead, gone, stranded, missed, sentAs, bounds>>

RemoveDone(t) ==
  /\ pc[t] = "removed"
  /\ pending' = [pending EXCEPT ![t] = @ - 1]
  /\ Bump(t)
  /\ Announce(t)
  /\ cur' = [cur EXCEPT ![t] = NoRecord]
  /\ Goto(t, "session")
  /\ UNCHANGED <<store, engine, life, lock, req, requested, armed, mode,
                 mayAuth, auth, deadCount, calls, rf, rfSeen, rfRetries,
                 rfTimer, history, bounds>>

\* deadLetter(): both stores in one transaction.
RetireCommit(t) ==
  /\ pc[t] = "retire"
  /\ outbox' = {r \in outbox : r.seq # cur[t].seq}
  /\ dead' = {d \in dead : d.id # cur[t].id} \cup {cur[t]}
  /\ everDead' = everDead \cup {cur[t].id}
  /\ Goto(t, "retired")
  /\ UNCHANGED <<nextSeq, engine, life, lock, cur, req, requested, armed,
                 mode, mayAuth, auth, counters, calls, refresh, accepted,
                 delivered, gone, stranded, missed, sentAs, bounds>>

\* Mutant of MustTrim: the entry just written is not counted.
MustTrimLate(t) == deadCount[t] > MaxDeadLettered

\* "Only scan when the cap could actually be exceeded."
MustTrim(t) == deadCount[t] + 1 > MaxDeadLettered

RetireTrims(t) ==
  /\ pc[t] = "retired" /\ MustTrim(t) /\ life[t] # "closed"
  /\ Goto(t, "trim")
  /\ UNCHANGED <<store, engine, life, lock, cur, req, requested, armed, mode,
                 mayAuth, auth, counters, calls, refresh, history, bounds>>

\* Mutant of Excess: the entries of a newer build are evicted like any other.
ExcessOfAll ==
  {d \in dead : Cardinality({e \in dead : e.seq < d.seq})
                  < Cardinality(dead) - MaxDeadLettered}

\* trimDeadLettered(): the oldest entries this build can read.  Entries are
\* dead-lettered in the order of their keys, so deadLetteredAt orders as seq.
Excess ==
  LET evictable == {d \in dead : d.id \notin FutureWrites}
      older(d)  == {e \in evictable : e.seq < d.seq}
  IN  {d \in evictable :
         Cardinality(older(d)) < Cardinality(dead) - MaxDeadLettered}

\* Mutant of Trim: the counter is lowered by what was evicted, before it has
\* been raised for the entry just written.
TrimCounts(t) ==
  /\ pc[t] = "trim" /\ life[t] # "closed"
  /\ dead' = dead \ Excess
  /\ deadCount' = [deadCount EXCEPT ![t] = @ - Cardinality(Excess)]
  /\ gone' = gone \cup IdsOf(Excess)
  /\ Goto(t, "trimmed")
  /\ UNCHANGED <<outbox, nextSeq, engine, life, lock, cur, req, requested,
                 armed, mode, mayAuth, auth, pending, calls, refresh, accepted,
                 delivered, everDead, stranded, missed, sentAs, bounds>>

\* Its list and its delete are one step: all that can come between them is a
\* sibling's retry or discard of an entry, which the delete then misses.
Trim(t) ==
  /\ pc[t] = "trim" /\ life[t] # "closed"
  /\ dead' = dead \ Excess
  /\ gone' = gone \cup IdsOf(Excess)
  /\ Goto(t, "trimmed")
  /\ UNCHANGED <<outbox, nextSeq, engine, life, lock, cur, req, requested,
                 armed, mode, mayAuth, auth, counters, calls, refresh,
                 accepted, delivered, everDead, stranded, missed, sentAs,
                 bounds>>

\* pending goes down before the dead letters are counted.
RetireTally(t) ==
  /\ pc[t] = "trimmed" \/ (pc[t] = "retired" /\ ~MustTrim(t))
  /\ life[t] # "closed"
  /\ pending' = [pending EXCEPT ![t] = @ - 1]
  /\ Goto(t, "tally")
  /\ UNCHANGED <<store, engine, life, lock, cur, req, requested, armed, mode,
                 mayAuth, auth, deadCount, calls, refresh, history, bounds>>

RetireDone(t) ==
  /\ pc[t] = "tally"
  /\ deadCount' = [deadCount EXCEPT ![t] = Cardinality(dead)]
  /\ Bump(t)
  /\ Announce(t)
  /\ cur' = [cur EXCEPT ![t] = NoRecord]
  /\ Goto(t, "session")
  /\ UNCHANGED <<store, engine, life, lock, req, requested, armed, mode,
                 mayAuth, auth, pending, calls, rf, rfSeen, rfRetries, rfTimer,
                 history, bounds>>

\* A store call of the session rejects.  Inside the try around the send it is
\* a "retry"; elsewhere it escapes to drain().  Past close() it always fails.
StorageFails(t) ==
  /\ \/ /\ pc[t] = "session" /\ life[t] = "up" /\ Fault
        /\ DrainThrows(t)
        /\ UNCHANGED raced
     \/ /\ pc[t] = "remove" /\ Fault
        /\ SetMode(t, "paused")
        /\ Goto(t, "endRetry")
        /\ Bump(t)
        /\ UNCHANGED <<lock, cur, req, requested, armed, mayAuth>>
     \/ /\ pc[t] \in {"retire", "trim", "tally"} /\ Fault
        /\ DrainThrows(t)
        /\ Bump(t)
  /\ UNCHANGED <<store, engine, life, auth, counters, calls, mail, rf,
                 rfSeen, rfRetries, rfTimer, history, starts, asked>>

StorageClosed(t) ==
  /\ pc[t] \in {"retired", "trim", "trimmed", "tally"} /\ life[t] = "closed"
  /\ DrainThrows(t)
  /\ Bump(t)
  /\ UNCHANGED <<store, engine, life, auth, counters, calls, mail, rf,
                 rfSeen, rfRetries, rfTimer, history, bounds>>

-----------------------------------------------------------------------------
(* The end of a session: the lock is free, and drain() decides.            *)

SessionEnds(t) ==
  /\ pc[t] \in Ends
  /\ Release(t)
  /\ cur' = [cur EXCEPT ![t] = NoRecord]
  /\ \/ /\ pc[t] = "endAuth" /\ mayAuth[t]
        /\ mayAuth' = [mayAuth EXCEPT ![t] = FALSE]
        /\ Goto(t, "reauth")
        /\ UNCHANGED <<requested, armed>>
     \/ /\ pc[t] = "endRetry" \/ (pc[t] = "endAuth" /\ ~mayAuth[t])
        /\ ScheduleRetry(t)
        /\ Leave(t)
     \/ /\ pc[t] = "endIdle" /\ requested[t]
        /\ requested' = [requested EXCEPT ![t] = FALSE]
        /\ Goto(t, "lock")
        /\ UNCHANGED <<armed, mayAuth>>
     \/ /\ pc[t] = "endBlocked" \/ (pc[t] = "endIdle" /\ ~requested[t])
        /\ Leave(t)
        /\ UNCHANGED armed
  /\ UNCHANGED <<store, engine, life, req, mode, auth, counters, calls,
                 refresh, history, bounds>>

\* onAuthRequired settles in time: setAuth(), and the queue rebinds.
ReauthSettles(t) ==
  /\ pc[t] = "reauth"
  /\ \E p \in Principals :
       /\ cred' = [cred EXCEPT ![t] = p]
       /\ who' = [who EXCEPT ![t] = p]
  /\ Goto(t, "lock")
  /\ requested' = [requested EXCEPT ![t] = FALSE]
  /\ UNCHANGED <<store, engine, life, lock, cur, req, armed, mode, mayAuth,
                 prompt, counters, calls, refresh, history, bounds>>

\* It rejects, or authTimeoutMs passes and its promise is left unsettled.
ReauthFails(t) ==
  /\ pc[t] = "reauth"
  /\ Fault
  /\ \E left \in {FALSE, LateLogins} :
       prompt' = [prompt EXCEPT ![t] = @ \/ left]
  /\ ScheduleRetry(t)
  /\ Leave(t)
  /\ UNCHANGED <<store, engine, life, lock, cur, req, mode,
                 who, cred, counters, calls, refresh, history, starts, asked>>

\* It settles in time, with an identity but no credential: setAuth() is not
\* called, and the session that follows meets a 401 again.
ReauthEmpty(t) ==
  /\ pc[t] = "reauth"
  /\ Fault
  /\ \E p \in Principals : who' = [who EXCEPT ![t] = p]
  /\ Goto(t, "lock")
  /\ requested' = [requested EXCEPT ![t] = FALSE]
  /\ UNCHANGED <<store, engine, life, lock, cur, req, armed, mode, mayAuth,
                 cred, prompt, counters, calls, refresh, history, starts,
                 asked>>

\* The abandoned promise settles: setAuth() runs, nobody reads the identity.
LateLogin(t) ==
  /\ prompt[t]
  /\ prompt' = [prompt EXCEPT ![t] = FALSE]
  /\ \E p \in Principals : cred' = [cred EXCEPT ![t] = p]
  /\ UNCHANGED <<store, engine, life, drainer, who, counters, calls, refresh,
                 history, bounds>>

\* The backoff timer.
TimerFires(t) ==
  /\ armed[t] /\ life[t] = "up"
  /\ armed' = [armed EXCEPT ![t] = FALSE]
  /\ DrainCall(t)
  /\ UNCHANGED <<store, engine, life, lock, cur, req, mode, auth, counters,
                 calls, refresh, history, bounds>>

Flush(t) ==
  /\ life[t] = "up"
  /\ asked < MaxCalls /\ asked' = asked + 1
  /\ armed' = [armed EXCEPT ![t] = FALSE]
  /\ DrainCall(t)
  /\ UNCHANGED <<store, engine, life, lock, cur, req, mode, auth, counters,
                 calls, refresh, history, faults, starts>>

-----------------------------------------------------------------------------
(* retry() and discard() on a dead-lettered write                          *)

\* getDeadLettered() found the entry, of this build; nothing is changed yet.
RetryCall(t, w) ==
  /\ DbOpen(t) /\ op[t] = NoOp
  /\ w \in IdsOf(dead) /\ w \notin FutureWrites
  /\ asked < MaxCalls /\ asked' = asked + 1
  /\ op' = [op EXCEPT ![t] = [what |-> "requeue", id |-> w]]
  /\ UNCHANGED <<store, engine, life, drainer, auth, counters, adding, added,
                 refresh, history, faults, starts>>

\* To the back, with a fresh key.
Requeued(d) == [d EXCEPT !.seq = nextSeq]

\* requeueDeadLettered(): one transaction.  The entry may be gone by now, and
\* byLocalId is a unique index.
RequeueCommit(t) ==
  /\ op[t].what = "requeue"
  /\ \/ \E d \in dead :
          /\ d.id = op[t].id /\ d.id \notin IdsOf(outbox)
          /\ outbox' = outbox \cup {Requeued(d)}
          /\ dead' = dead \ {d}
          /\ nextSeq' = nextSeq + 1
          /\ op' = [op EXCEPT ![t].what = "requeued"]
          /\ UNCHANGED raced
     \/ /\ op[t].id \notin IdsOf(dead) \/ op[t].id \in IdsOf(outbox)
        /\ op' = [op EXCEPT ![t] = NoOp]
        /\ Bump(t)
        /\ UNCHANGED store
  /\ UNCHANGED <<engine, life, drainer, auth, counters, adding, added, mail,
                 rf, rfSeen, rfRetries, rfTimer, history, bounds>>

\* pending goes up before the dead letters are counted.
RequeueTally(t) ==
  /\ op[t].what = "requeued"
  /\ op' = [op EXCEPT ![t].what = "counting"]
  /\ pending' = [pending EXCEPT ![t] = @ + 1]
  /\ UNCHANGED <<store, engine, life, drainer, auth, deadCount, adding, added,
                 refresh, history, bounds>>

RequeueDone(t) ==
  /\ op[t].what = "counting"
  /\ op' = [op EXCEPT ![t] = NoOp]
  /\ deadCount' = [deadCount EXCEPT ![t] = Cardinality(dead)]
  /\ Bump(t)
  /\ Announce(t)
  /\ DrainCall(t)
  /\ UNCHANGED <<store, engine, life, lock, cur, req, armed, mode, auth,
                 pending, adding, added, rf, rfSeen, rfRetries, rfTimer,
                 history, bounds>>

DiscardCall(t, w) ==
  /\ DbOpen(t) /\ op[t] = NoOp
  /\ w \in IdsOf(dead)
  /\ asked < MaxCalls /\ asked' = asked + 1
  /\ op' = [op EXCEPT ![t] = [what |-> "discard", id |-> w]]
  /\ UNCHANGED <<store, engine, life, drainer, auth, counters, adding, added,
                 refresh, history, faults, starts>>

DiscardCommit(t) ==
  /\ op[t].what = "discard"
  /\ \/ /\ op[t].id \in IdsOf(dead)
        /\ dead' = {d \in dead : d.id # op[t].id}
        /\ gone' = gone \cup {op[t].id}
        /\ op' = [op EXCEPT ![t].what = "discarded"]
        /\ UNCHANGED raced
     \/ /\ op[t].id \notin IdsOf(dead)
        /\ op' = [op EXCEPT ![t] = NoOp]
        /\ Bump(t)
        /\ UNCHANGED <<dead, gone>>
  /\ UNCHANGED <<outbox, nextSeq, engine, life, drainer, auth, counters,
                 adding, added, mail, rf, rfSeen, rfRetries, rfTimer,
                 accepted, delivered, everDead, stranded, missed, sentAs,
                 bounds>>

DiscardDone(t) ==
  /\ op[t].what = "discarded"
  /\ op' = [op EXCEPT ![t] = NoOp]
  /\ deadCount' = [deadCount EXCEPT ![t] = Cardinality(dead)]
  /\ Bump(t)
  /\ Announce(t)
  /\ UNCHANGED <<store, engine, life, drainer, auth, pending, adding, added,
                 rf, rfSeen, rfRetries, rfTimer, history, bounds>>

\* A store call of retry() or discard() rejects, and so does the call.  When it
\* is the count after a requeue, the write is back and nobody drains it.
CallFails(t) ==
  /\ Fault
  /\ op[t].what \in {"requeue", "counting", "discard", "discarded"}
  /\ op' = [op EXCEPT ![t] = NoOp]
  /\ stranded' = IF op[t].what = "counting" THEN stranded \cup {op[t].id}
                 ELSE stranded
  /\ Bump(t)
  /\ UNCHANGED <<store, engine, life, drainer, auth, counters, adding, added,
                 mail, rf, rfSeen, rfRetries, rfTimer, accepted, delivered,
                 everDead, gone, missed, sentAs, starts, asked>>

-----------------------------------------------------------------------------
(* requestRefresh() and refreshCounters()                                  *)

\* A pass begins unless one is running: then the request is dropped.
RequestRefresh(t) ==
  IF life[t] = "up" /\ rf[t] = "none"
  THEN /\ rf' = [rf EXCEPT ![t] = "usage"]
       /\ raced' = [raced EXCEPT ![t] = Mark(t, "refresh")]
       /\ UNCHANGED missed
  ELSE /\ missed' = IF rf[t] \in {"count", "watch"} THEN missed \cup {t}
                    ELSE missed
       /\ UNCHANGED <<rf, raced>>

AnnounceArrives(t) ==
  /\ mail[t]
  /\ mail' = [mail EXCEPT ![t] = FALSE]
  /\ RequestRefresh(t)
  /\ UNCHANGED <<store, engine, life, drainer, auth, counters, calls, rfSeen,
                 rfRetries, rfTimer, accepted, delivered, everDead, gone,
                 stranded, sentAs, bounds>>

\* setTimeout(() => this.requestRefresh(), 0)
RefreshTimerFires(t) ==
  /\ rfTimer[t]
  /\ rfTimer' = [rfTimer EXCEPT ![t] = FALSE]
  /\ RequestRefresh(t)
  /\ UNCHANGED <<store, engine, life, drainer, auth, counters, calls, mail,
                 rfSeen, rfRetries, accepted, delivered, everDead, gone,
                 stranded, sentAs, bounds>>

\* The database answers the reads of one tab in the order they were made: the
\* pass does not overtake a head() that is being waited for.
RefreshUsage(t) ==
  /\ rf[t] = "usage" /\ pc[t] # "head"
  /\ rfSeen' = [rfSeen EXCEPT ![t] = Cardinality(outbox)]
  /\ rf' = [rf EXCEPT ![t] = "count"]
  /\ UNCHANGED <<store, engine, life, drainer, auth, counters, calls, mail,
                 rfRetries, rfTimer, raced, history, bounds>>

\* The second read returns: commit both, or discard them and ask again.
RefreshCommit(t) ==
  /\ rf[t] = "count"
  /\ rf' = [rf EXCEPT ![t] = "watch"]
  /\ rfSeen' = [rfSeen EXCEPT ![t] = 0]
  /\ raced' = [raced EXCEPT ![t] = @ \ {"refresh"}]
  /\ \/ /\ CounterRaced(t, "refresh")
        /\ \/ /\ rfRetries[t] < MaxRefreshRetries
              /\ rfRetries' = [rfRetries EXCEPT ![t] = @ + 1]
              /\ rfTimer' = [rfTimer EXCEPT ![t] = TRUE]
              /\ UNCHANGED missed
           \/ /\ rfRetries[t] >= MaxRefreshRetries
              /\ missed' = missed \cup {t}
              /\ UNCHANGED <<rfRetries, rfTimer>>
        /\ UNCHANGED counters
     \/ /\ ~CounterRaced(t, "refresh")
        /\ rfRetries' = [rfRetries EXCEPT ![t] = 0]
        /\ pending' = [pending EXCEPT ![t] = rfSeen[t]]
        /\ deadCount' = [deadCount EXCEPT ![t] = Cardinality(dead)]
        /\ UNCHANGED <<rfTimer, missed>>
  /\ UNCHANGED <<store, engine, life, drainer, auth, calls, mail,
                 accepted, delivered, everDead, gone, stranded, sentAs,
                 bounds>>

\* reconcileWatchers() is done; the pass's finally.
RefreshEnds(t) ==
  /\ rf[t] = "watch"
  /\ rf' = [rf EXCEPT ![t] = "none"]
  /\ IF mode[t] = "blocked" THEN DrainCall(t)
     ELSE UNCHANGED <<pc, requested, mayAuth>>
  /\ UNCHANGED <<store, engine, life, lock, cur, req, armed, mode, auth,
                 counters, calls, mail, rfSeen, rfRetries, rfTimer, raced,
                 history, bounds>>

-----------------------------------------------------------------------------
(* start(), stop(), and the death of a page                                *)

\* The fields of an OfflineQueue that no longer exists or does not exist yet.
Forget(t) ==
  /\ requested' = [requested EXCEPT ![t] = FALSE]
  /\ armed' = [armed EXCEPT ![t] = FALSE]
  /\ mayAuth' = [mayAuth EXCEPT ![t] = TRUE]
  /\ cur' = [cur EXCEPT ![t] = NoRecord]
  /\ req' = [req EXCEPT ![t] = NoRecord]
  /\ prompt' = [prompt EXCEPT ![t] = FALSE]
  /\ adding' = [adding EXCEPT ![t] = {}]
  /\ added' = [added EXCEPT ![t] = {}]
  /\ op' = [op EXCEPT ![t] = NoOp]
  /\ mail' = [mail EXCEPT ![t] = FALSE]
  /\ rf' = [rf EXCEPT ![t] = "none"]
  /\ rfSeen' = [rfSeen EXCEPT ![t] = 0]
  /\ rfRetries' = [rfRetries EXCEPT ![t] = 0]
  /\ rfTimer' = [rfTimer EXCEPT ![t] = FALSE]
  /\ raced' = [raced EXCEPT ![t] = {}]

InFlight(t) == IF pc[t] = "sending" THEN {req[t]} ELSE {}

\* The browser releases a dead page's lock; its request may still arrive.
Crash(t) ==
  /\ life[t] # "down"
  /\ starts < MaxStarts /\ starts' = starts + 1
  /\ life' = [life EXCEPT ![t] = "down"]
  /\ late' = late \cup InFlight(t)
  /\ Release(t)
  /\ Goto(t, "idle")
  /\ SetMode(t, "idle")
  /\ pending' = [pending EXCEPT ![t] = 0]
  /\ deadCount' = [deadCount EXCEPT ![t] = 0]
  /\ Forget(t)
  /\ UNCHANGED <<store, applied, who, cred, history, faults, asked>>

\* start(): refreshCounters() and hasFutureRecords(), as whoever is signed in.
StartRead(t) ==
  /\ \/ life[t] = "down"
     \/ life[t] = "closed" /\ pc[t] = "idle" /\ ~Mutating(t)
  /\ life' = [life EXCEPT ![t] = "opening"]
  /\ \E p \in Principals :
       /\ who' = [who EXCEPT ![t] = p]
       /\ cred' = [cred EXCEPT ![t] = p]
  /\ pending' = [pending EXCEPT ![t] = Cardinality(outbox)]
  /\ deadCount' = [deadCount EXCEPT ![t] = Cardinality(dead)]
  /\ SetMode(t, IF \E r \in outbox : r.id \in FutureWrites
                THEN "blocked" ELSE "idle")
  /\ Forget(t)
  /\ UNCHANGED <<store, engine, lock, pc, history, bounds>>

\* openChannel(), and the first drain.
StartDone(t) ==
  /\ life[t] = "opening"
  /\ life' = [life EXCEPT ![t] = "up"]
  /\ Goto(t, "lock")
  /\ UNCHANGED <<store, engine, lock, cur, req, requested, armed, mode,
                 mayAuth, auth, counters, calls, refresh, history, bounds>>

Stop(t) ==
  /\ life[t] = "up"
  /\ starts < MaxStarts /\ starts' = starts + 1
  /\ life' = [life EXCEPT ![t] = "stopping"]
  /\ armed' = [armed EXCEPT ![t] = FALSE]
  /\ UNCHANGED <<store, engine, lock, pc, cur, req, requested, mode, mayAuth,
                 auth, counters, calls, refresh, history, faults, asked>>

\* The drain is over or its grace is: the channel and the database close.
\* A refresh pass fails at its next read.
Close(t) ==
  /\ life[t] = "stopping"
  /\ life' = [life EXCEPT ![t] = "closed"]
  /\ mail' = [mail EXCEPT ![t] = FALSE]
  /\ rf' = [rf EXCEPT ![t] = "none"]
  /\ rfSeen' = [rfSeen EXCEPT ![t] = 0]
  /\ rfTimer' = [rfTimer EXCEPT ![t] = FALSE]
  /\ raced' = [raced EXCEPT ![t] = @ \ {"refresh"}]
  /\ UNCHANGED <<store, engine, drainer, auth, counters, calls, rfRetries,
                 history, bounds>>

-----------------------------------------------------------------------------
(* What the queue does not control: the credential's lifetime, and a tab   *)
(* that runs a newer build of the SDK on the same database.                *)

ExpireCredential(t) ==
  /\ Fault
  /\ cred[t] # Expired
  /\ cred' = [cred EXCEPT ![t] = Expired]
  /\ UNCHANGED <<store, engine, life, drainer, who, prompt, counters, calls,
                 refresh, history, starts, asked>>

AnnounceAll ==
  mail' = [u \in Tabs |-> mail[u] \/ (Channel /\ life[u] = "up")]

NewerAppends(f) ==
  /\ f \notin IdsOf(accepted)
  /\ \E p \in Principals :
       LET r == [seq |-> nextSeq, id |-> f, by |-> p] IN
       /\ outbox' = outbox \cup {r}
       /\ accepted' = accepted \cup {r}
  /\ nextSeq' = nextSeq + 1
  /\ AnnounceAll
  /\ UNCHANGED <<dead, engine, life, drainer, auth, counters, calls, rf,
                 rfSeen, rfRetries, rfTimer, raced, delivered, everDead, gone,
                 stranded, missed, sentAs, bounds>>

\* It drains under the same lock: the head is sent, then removed ...
NewerSends(f) ==
  /\ WebLocks => lock = NoTab
  /\ Head0 # NoRecord /\ Head0.id = f /\ f \notin Effects
  /\ Apply(f)
  /\ UNCHANGED <<store, late, life, drainer, auth, counters, calls, refresh,
                 history, bounds>>

NewerRemoves(f) ==
  /\ WebLocks => lock = NoTab
  /\ Head0 # NoRecord /\ Head0.id = f /\ f \in Effects
  /\ outbox' = outbox \ {Head0}
  /\ delivered' = delivered \cup {f}
  /\ AnnounceAll
  /\ UNCHANGED <<dead, nextSeq, engine, life, drainer, auth, counters, calls,
                 rf, rfSeen, rfRetries, rfTimer, raced, accepted, everDead,
                 gone, stranded, missed, sentAs, bounds>>

\* ... or dead-lettered.
NewerRetires(f) ==
  /\ WebLocks => lock = NoTab
  /\ Head0 # NoRecord /\ Head0.id = f /\ f \notin Effects
  /\ outbox' = outbox \ {Head0}
  /\ dead' = dead \cup {Head0}
  /\ everDead' = everDead \cup {f}
  /\ AnnounceAll
  /\ UNCHANGED <<nextSeq, engine, life, drainer, auth, counters, calls, rf,
                 rfSeen, rfRetries, rfTimer, raced, accepted, delivered,
                 gone, stranded, missed, sentAs, bounds>>

-----------------------------------------------------------------------------

\* The drain loop of a tab, whatever its environment answers.
DrainStep(t) ==
  \/ AcquireLock(t) \/ LockBusy(t) \/ SessionStopped(t) \/ ReadHead(t)
  \/ HeadEmpty(t) \/ HeadBlocked(t) \/ HeadRetires(t) \/ HeadSend(t)
  \/ EngineAccepts(t) \/ EngineRejects(t) \/ EngineUnauthenticated(t)
  \/ RemoveCommit(t) \/ RemoveDone(t)
  \/ RetireCommit(t) \/ RetireTrims(t) \/ Trim(t) \/ RetireTally(t)
  \/ RetireDone(t) \/ StorageClosed(t)
  \/ SessionEnds(t) \/ ReauthSettles(t)

CallStep(t) ==
  \/ EnqueueCommit(t) \/ EnqueueDone(t)
  \/ RequeueCommit(t) \/ RequeueTally(t) \/ RequeueDone(t)
  \/ DiscardCommit(t) \/ DiscardDone(t)

RefreshStep(t) ==
  \/ AnnounceArrives(t) \/ RefreshTimerFires(t)
  \/ RefreshUsage(t) \/ RefreshCommit(t) \/ RefreshEnds(t)

LifeStep(t) == StartRead(t) \/ StartDone(t) \/ Close(t)

\* What the application, the user and misfortune may do.
Stimulus(t) ==
  \/ \E w \in Writes : Enqueue(t, w)
  \/ \E w \in Ids : RetryCall(t, w) \/ DiscardCall(t, w)
  \/ Flush(t) \/ Stop(t) \/ Crash(t)
  \/ EnqueueFails(t) \/ CallFails(t) \/ SendFails(t) \/ StorageFails(t)
  \/ ReauthFails(t) \/ ReauthEmpty(t) \/ LateLogin(t) \/ ExpireCredential(t)

\* The system may stop only with nothing left to deliver, but for a write whose
\* retry() failed halfway: it waits for the next enqueue(), flush() or start().
Rest == IdsOf(outbox) \subseteq stranded /\ UNCHANGED vars

Next ==
  \/ \E t \in Tabs : DrainStep(t) \/ CallStep(t) \/ RefreshStep(t)
                     \/ TimerFires(t) \/ LifeStep(t) \/ Stimulus(t)
  \/ \E m \in late : LateArrives(m)
  \/ \E f \in FutureWrites : \/ NewerAppends(f) \/ NewerSends(f)
                              \/ NewerRemoves(f) \/ NewerRetires(f)
  \/ Rest

Spec == Init /\ [][Next]_vars

-----------------------------------------------------------------------------
(* Fairness.  Callbacks, transactions and timers of a live page run; a     *)
(* request is answered and a login prompt is answered or times out; a page *)
(* that died is opened again; the newer build drains its own records.      *)

Fairness ==
  /\ \A t \in Tabs : /\ WF_vars(DrainStep(t)) /\ WF_vars(CallStep(t))
                     /\ WF_vars(RefreshStep(t)) /\ WF_vars(TimerFires(t))
                     /\ WF_vars(LifeStep(t))
  /\ \A f \in FutureWrites : WF_vars(NewerSends(f) \/ NewerRemoves(f))

FairSpec == Spec /\ Fairness

-----------------------------------------------------------------------------
(* Properties                                                              *)

StoreTypes ==
  /\ outbox \subseteq Record /\ dead \subseteq Record
  /\ nextSeq \in Nat

EngineTypes ==
  /\ applied \in Seq(Ids)
  /\ late \subseteq Request

DrainerTypes ==
  /\ lock \in Tabs \cup {NoTab}
  /\ life \in [Tabs -> {"up", "stopping", "closed", "down", "opening"}]
  /\ pc \in [Tabs -> PCs]
  /\ cur \in [Tabs -> Record \cup {NoRecord}]
  /\ req \in [Tabs -> Request \cup {NoRecord}]
  /\ mode \in [Tabs -> {"idle", "flushing", "paused", "blocked"}]

FlagTypes ==
  /\ requested \in [Tabs -> BOOLEAN]
  /\ armed \in [Tabs -> BOOLEAN]
  /\ mayAuth \in [Tabs -> BOOLEAN]
  /\ prompt \in [Tabs -> BOOLEAN]
  /\ mail \in [Tabs -> BOOLEAN]
  /\ rfTimer \in [Tabs -> BOOLEAN]

AuthTypes ==
  /\ who \in [Tabs -> Principals]
  /\ cred \in [Tabs -> Principals \cup {Expired}]

CounterTypes ==
  /\ pending \in [Tabs -> Int]
  /\ deadCount \in [Tabs -> Nat]
  /\ rfSeen \in [Tabs -> Nat]
  /\ rfRetries \in [Tabs -> Nat]
  /\ faults \in Nat /\ starts \in Nat /\ asked \in Nat

CallTypes ==
  /\ adding \in [Tabs -> SUBSET [id : Writes, by : Principals]]
  /\ added \in [Tabs -> SUBSET Writes]
  /\ op \in [Tabs -> {NoOp} \cup
                    [what : {"requeue", "requeued", "counting",
                             "discard", "discarded"},
                     id   : Ids]]

RefreshTypes ==
  /\ rf \in [Tabs -> {"none", "usage", "count", "watch"}]
  /\ raced \in [Tabs -> SUBSET {"head", "refresh"}]

HistoryTypes ==
  /\ accepted \subseteq Record
  /\ delivered \subseteq Ids /\ everDead \subseteq Ids
  /\ gone \subseteq Ids /\ stranded \subseteq Ids
  /\ missed \subseteq Tabs
  /\ sentAs \subseteq (Ids \X Principals)

\* Every variable keeps to its type.
TypeOK ==
  /\ StoreTypes /\ EngineTypes /\ DrainerTypes /\ FlagTypes /\ AuthTypes
  /\ CounterTypes /\ CallTypes /\ RefreshTypes /\ HistoryTypes

\* A stored write is never lost: until the engine has it, it is in the outbox
\* or the dead-letter store, unless it was evicted or discarded from there;
\* and what was removed as delivered has taken effect.
NoWriteLost ==
  /\ delivered \subseteq Effects
  /\ \A a \in accepted :
       a.id \in IdsOf(outbox) \cup IdsOf(dead) \cup delivered \cup gone

\* Writes take effect in the order they were stored.  Only one that was
\* dead-lettered may be overtaken.  ("Strict FIFO: always the lowest key.")
StrictFifo ==
  \A a, b \in accepted :
    (a.seq < b.seq /\ b.id \in Effects /\ a.id \notin everDead) =>
      \E i, j \in 1 .. Len(applied) :
        i < j /\ applied[i] = a.id /\ applied[j] = b.id

\* With Web Locks one tab drains at a time, across crashes, stops, logins.
SingleDrainer ==
  WebLocks => \A t, u \in Tabs :
    (pc[t] \in InSession /\ pc[u] \in InSession) => t = u

\* With Web Locks a write is in one place: never queued and dead-lettered at
\* once, and never reported lost, or sent again, once it was delivered.
OnePlace ==
  WebLocks =>
    /\ IdsOf(outbox) \cap IdsOf(dead) = {}
    /\ delivered \cap (IdsOf(outbox) \cup IdsOf(dead)) = {}

\* Between two retirements the dead letters exceed their cap by at most one per
\* sibling, although each tab decides to trim from a counter its siblings make
\* stale.  (A fault, a stop or a crash between the two transactions can leave one
\* more.)
DeadLetterBound ==
  (\A t \in Tabs : pc[t] \notin {"retired", "trim"}) =>
    Cardinality({d \in dead : d.id \notin FutureWrites})
      <= MaxDeadLettered + Cardinality(Tabs) - 1 + faults + starts

\* A write is only ever transmitted with its owner's credential.
NoForeignSend ==
  \A a \in accepted : \A p \in Principals : <<a.id, p>> \in sentAs => p = a.by

\* The cap admits no more writes than maxItems, whatever calls overlap.
\* (retry() puts a write back without asking, so requeued writes are apart.)
CapHolds == Cardinality(outbox \cap accepted) <= MaxItems

\* The counter the cap is checked against never falls below what is stored or
\* reserved, so a lone tab never over-admits.
NeverUnderCounts ==
  \A t \in Tabs : life[t] \in {"up", "stopping"} =>
    pending[t] + (IF op[t].what = "requeued" THEN 1 ELSE 0)
      >= Cardinality(outbox) + Cardinality(adding[t])

\* Nothing that could still change a counter is under way.
Settled ==
  \A t \in Tabs : /\ life[t] = "up" /\ ~Mutating(t) /\ pc[t] # "head"
                  /\ ~mail[t] /\ ~rfTimer[t] /\ rf[t] = "none"

\* "The others keep their counters in sync over BroadcastChannel."
CountersInSync ==
  Settled => \A t \in Tabs : /\ pending[t] = Cardinality(outbox)
                             /\ deadCount[t] = Cardinality(dead)

\* ... which holds of every tab that has dropped no announcement.
CountersInSyncUnlessMissed ==
  Settled => \A t \in Tabs \ missed : /\ pending[t] = Cardinality(outbox)
                                      /\ deadCount[t] = Cardinality(dead)

\* Only the newer build sends, removes or dead-letters its own records; this
\* one neither drains, requeues nor evicts them, and drops one from the dead
\* letters only when the application discards it.
FutureIn(S) == {r \in S : r.id \in FutureWrites}

NewerUntouched ==
  [][ (FutureIn(outbox)' # FutureIn(outbox) \/ FutureIn(dead)' # FutureIn(dead))
        => \/ \E f \in FutureWrites :
                 NewerAppends(f) \/ NewerRemoves(f) \/ NewerRetires(f)
           \/ \E t \in Tabs : DiscardCommit(t) ]_vars

\* Every stored write leaves the outbox in the end: with one tab or several,
\* a crash, a stop, a fault at any await, and calls that arrive while a drain
\* winds down.  (But for a write whose retry() failed halfway: see CallFails.)
EveryWriteResolved ==
  \A w \in Ids : (w \in IdsOf(outbox)) ~>
                    (w \notin IdsOf(outbox) \/ w \in stranded)

=============================================================================
