----------------------------- MODULE WriteWatch -----------------------------
(***************************************************************************)
(* watch() of the offline write queue of @ironflow/browser (queue.ts): the *)
(* application follows one write by its localId and is told once what      *)
(* became of it, whichever tab delivers or gives it up, and also when it   *)
(* begins to watch after a reload.                                         *)
(*                                                                         *)
(* A tab tells its watchers on three ways: after its own delivery or       *)
(* retirement; by a read of the store when watch() is called; and in the   *)
(* refresh pass another tab's announcement sets off, of which one runs at  *)
(* a time.  The three interleave at every await.                           *)
(*                                                                         *)
(* One write: each has watchers of its own.  The drain loop, in OfflineQueue, *)
(* is a delivery or a retirement here; the passes that only re-read the    *)
(* counters of a tab are left out.                                         *)
(***************************************************************************)
EXTENDS Integers, FiniteSets

CONSTANTS
  Tabs,       \* pages on one database
  Callbacks,  \* calls of watch()
  TabOf,      \* where each is made
  MaxRetries  \* bound: times the write is put back

WatchAssumption ==
  /\ IsFiniteSet(Tabs) /\ IsFiniteSet(Callbacks)
  /\ TabOf \in [Callbacks -> Tabs] /\ MaxRetries \in Nat

VARIABLES
  store,    \* where the write is: queued, dead, absent
  open,     \* tabs that are open, with their queue started
  watcher,  \* each callback: new, watching, off, or what it was told
  asked,    \* statusOf() for watch() is on its way
  pass,     \* the refresh pass: none, armed, or the answer of its statusOf()
  news,     \* what a tab has done to the write and not yet told: none, sent, lost, changed
  posted,   \* tabs an announcement is on its way to
  retries,
  delivered, wasDead, dropped,  \* history: of the write, and of its dead letter
  missed    \* history: tabs no announcement reached

outcome == <<delivered, wasDead, dropped>>
vars    == <<store, open, watcher, asked, pass, news, posted, retries, outcome, missed>>

Watching(t) == {c \in Callbacks : TabOf[c] = t /\ watcher[c] = "watching"}

\* Mutant of Told: looks into the outbox alone.
ToldOutbox == [queued |-> "watching", absent |-> "sent", dead |-> "sent"]

\* What the state of the write means to a watcher.
Told == [queued |-> "watching", absent |-> "sent", dead |-> "lost"]

\* Every callback of the tab hears it, and its entry goes.
NotifyWatcher(t, who, what) ==
  watcher' = [c \in Callbacks |-> IF c \in Watching(t) THEN what ELSE watcher[c]]

-----------------------------------------------------------------------------
(* The application's calls. *)

Watch(c) ==
  /\ watcher[c] = "new" /\ TabOf[c] \in open
  /\ watcher' = [watcher EXCEPT ![c] = "watching"]
  /\ asked' = [asked EXCEPT ![c] = TRUE]
  /\ UNCHANGED <<store, open, pass, news, posted, retries, outcome, missed>>

Unwatch(c) ==
  /\ watcher[c] = "watching" /\ TabOf[c] \in open
  /\ watcher' = [watcher EXCEPT ![c] = "off"]
  /\ UNCHANGED <<store, open, asked, pass, news, posted, retries, outcome, missed>>

\* statusOf() has looked into both stores in one transaction.  A terminal status is
\* told to all, if c has not heard one meanwhile.
StatusRead(c) ==
  /\ asked[c] /\ TabOf[c] \in open
  /\ IF store # "queued" /\ watcher[c] = "watching"
     THEN NotifyWatcher(TabOf[c], {c}, Told[store]) ELSE UNCHANGED watcher
  /\ asked' = [asked EXCEPT ![c] = FALSE]
  /\ UNCHANGED <<store, open, pass, news, posted, retries, outcome, missed>>

-----------------------------------------------------------------------------
(* What changes the write: by one tab, which tells of it an await later. *)

Changes(t, from, to, what) ==
  /\ t \in open /\ news[t] = "none" /\ store = from
  /\ store' = to
  /\ news' = [news EXCEPT ![t] = what]
  /\ UNCHANGED <<open, watcher, asked, pass, posted, missed>>

Deliver(t) == /\ Changes(t, "queued", "absent", "sent")
              /\ delivered' = TRUE
              /\ UNCHANGED <<retries, wasDead, dropped>>

Retire(t) == /\ Changes(t, "queued", "dead", "lost")
             /\ wasDead' = TRUE
             /\ UNCHANGED <<retries, delivered, dropped>>

\* discardDeadLettered(), or the dead letter makes room for another.
Discard(t) == /\ Changes(t, "dead", "absent", "changed")
              /\ dropped' = TRUE
              /\ UNCHANGED <<retries, delivered, wasDead>>

RetryWrite(t) == /\ retries < MaxRetries
                 /\ Changes(t, "dead", "queued", "changed")
                 /\ retries' = retries + 1
                 /\ UNCHANGED outcome

\* announce(), to the other tabs; with it the tab's own watchers are told.
Announce(t) ==
  /\ t \in open /\ news[t] # "none"
  /\ IF news[t] = "changed" THEN UNCHANGED watcher
     ELSE NotifyWatcher(t, Watching(t), news[t])
  /\ posted' = posted \cup (open \ {t})
  /\ news' = [news EXCEPT ![t] = "none"]
  /\ UNCHANGED <<store, open, asked, pass, retries, outcome, missed>>

\* A tab is closed, or dies, whatever it was about to tell.
Close(t) ==
  /\ t \in open /\ Cardinality(open) > 1
  /\ open' = open \ {t}
  /\ posted' = posted \ {t}
  /\ missed' = missed \cup {t} \cup (IF news[t] = "none" THEN {} ELSE open)
  /\ UNCHANGED <<store, watcher, asked, pass, news, retries, outcome>>

-----------------------------------------------------------------------------
(* The refresh pass. *)

\* requestRefresh(): dropped while a pass is queued, also when it has read already.
RequestRefresh(t) ==
  /\ t \in posted
  /\ posted' = posted \ {t}
  /\ pass' = IF pass[t] = "none" THEN [pass EXCEPT ![t] = "armed"] ELSE pass
  /\ missed' = IF pass[t] \in DOMAIN Told THEN missed \cup {t} ELSE missed
  /\ UNCHANGED <<store, open, watcher, asked, news, retries, outcome>>

\* reconcileWatchers(), once the counters are read.  With nobody to tell the pass
\* is over.
ReconcileRead(t) ==
  /\ t \in open /\ pass[t] = "armed"
  /\ pass' = [pass EXCEPT ![t] = IF Watching(t) = {} THEN "none" ELSE store]
  /\ UNCHANGED <<store, open, watcher, asked, news, posted, retries, outcome, missed>>

Reconcile(t) ==
  /\ t \in open /\ pass[t] \in DOMAIN Told
  /\ IF pass[t] = "queued" THEN UNCHANGED watcher
     ELSE NotifyWatcher(t, Watching(t), Told[pass[t]])
  /\ pass' = [pass EXCEPT ![t] = "none"]
  /\ UNCHANGED <<store, open, asked, news, posted, retries, outcome, missed>>

-----------------------------------------------------------------------------
Init ==
  /\ store = "queued" /\ open = Tabs
  /\ watcher = [c \in Callbacks |-> "new"] /\ asked = [c \in Callbacks |-> FALSE]
  /\ pass = [t \in Tabs |-> "none"] /\ news = [t \in Tabs |-> "none"]
  /\ posted = {} /\ retries = 0
  /\ delivered = FALSE /\ wasDead = FALSE /\ dropped = FALSE /\ missed = {}

Pass(t) == RequestRefresh(t) \/ ReconcileRead(t) \/ Reconcile(t)

Next ==
  \/ \E c \in Callbacks : Watch(c) \/ Unwatch(c) \/ StatusRead(c)
  \/ \E t \in Tabs : \/ Deliver(t) \/ Retire(t) \/ Discard(t) \/ RetryWrite(t)
                     \/ Announce(t) \/ Close(t) \/ Pass(t)

Spec == Init /\ [][Next]_vars

\* The queue drains, reads of the store and messages between tabs arrive.
Fair(k) ==
  CASE k = 1 -> \E t \in Tabs : Deliver(t) \/ Retire(t)
    [] k = 2 -> \E c \in Callbacks : StatusRead(c)
    [] k = 3 -> \E t \in Tabs : Announce(t)
    [] k = 4 -> \E t \in Tabs : Pass(t)
    [] OTHER -> FALSE

Fairness == \A k \in 1 .. 4 : WF_vars(Fair(k))

FairSpec == Spec /\ Fairness

-----------------------------------------------------------------------------
TypeOK ==
  /\ store \in DOMAIN Told /\ open \subseteq Tabs
  /\ watcher \in [Callbacks -> {"new", "watching", "off", "sent", "lost"}]
  /\ asked \in [Callbacks -> BOOLEAN]
  /\ pass \in [Tabs -> {"none", "armed"} \cup DOMAIN Told]
  /\ news \in [Tabs -> {"none", "sent", "lost", "changed"}]
  /\ posted \subseteq Tabs /\ missed \subseteq Tabs /\ retries \in 0 .. MaxRetries

(* What a watcher is told is what happened (resolveStatus): "lost" only of a   *)
(* write that was given up, "sent" only of one that was delivered, unless its  *)
(* dead letter is gone as well, which reads like a delivery.                   *)
ToldTheTruth ==
  \A c \in Callbacks : /\ watcher[c] = "lost" => wasDead
                       /\ watcher[c] = "sent" => delivered \/ dropped

(* Whoever watches is told in the end, in whatever tab the write is delivered  *)
(* or given up, and whenever watch() was called (watch, reconcileWatchers):    *)
(* unless its tab is closed, an announcement came while a pass had read        *)
(* already, or the tab that had something to announce died.                    *)
WatchersTold ==
  \A c \in Callbacks : []<>(watcher[c] = "watching" => TabOf[c] \in missed)
=============================================================================
