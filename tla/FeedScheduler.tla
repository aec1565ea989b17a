---------------------------- MODULE FeedScheduler ----------------------------
(***************************************************************************)
(* How the feeds are scheduled: IntelligenceScheduler's polling loop, with *)
(* the threads it starts, and sync_all, which goes through the feeds in    *)
(* the order that FeedDependencyGraph computes. All of them end in         *)
(* trigger_sync, which does not wait for the lock of a feed. What a sync   *)
(* does to the datasets is the subject of FeedSync.                        *)
(***************************************************************************)
EXTENDS Integers, Sequences, FiniteSets

CONSTANTS
    Feeds,      \* registered feeds
    Deps,       \* Deps[f]: the prerequisites in f's manifest
    Enabled,    \* feeds whose configuration is enabled
    Callers,    \* threads that call sync_all
    Loops,      \* bound: polling threads that may be alive
    Jobs,       \* bound: threads of _run_feed_async that may be alive
    Locks,      \* Lock objects
    None        \* Python's None

ASSUME SchedulerAssumption ==
    /\ IsFiniteSet(Feeds) /\ IsFiniteSet(Locks) /\ Cardinality(Feeds) <= Cardinality(Locks)
    /\ Enabled \subseteq Feeds
    /\ Deps \in [Feeds -> SUBSET Feeds]
    /\ Callers \cap Jobs = {}
    /\ None \notin Feeds \cup Callers \cup Jobs \cup Locks

VARIABLES
    running,    \* _running
    loop,       \* the polling threads
    feedLocks,  \* _feed_locks
    holder,     \* who has acquired a lock
    frame,      \* frames of trigger_sync
    all,        \* frames of sync_all
    unhealthy   \* feeds whose health is UNHEALTHY

vars == <<running, loop, feedLocks, holder, frame, all, unhealthy>>

-----------------------------------------------------------------------------

Threads == Callers \cup Jobs

Polling == [pc : {"dead", "testing", "polling", "spawning"},
            todo : SUBSET Feeds, feed : Feeds \cup {None}]
Dead == [pc |-> "dead", todo |-> {}, feed |-> None]

Trigger == [pc : {"idle", "checking", "locating", "trying", "syncing"},
            feed : Feeds \cup {None}, lock : Locks \cup {None}]
Idle == [pc |-> "idle", feed |-> None, lock |-> None]

\* While it sorts, sync_all keeps in_degree and the queue of Kahn's algorithm; next is
\* the position in the order of the feed it comes to.
SyncAll == [pc : {"idle", "sorting", "choosing", "waiting"},
            indegree : [Feeds -> Nat], queue : SUBSET Feeds,
            order : Seq(Feeds), next : Nat, results : SUBSET Feeds]
NoCall == [pc |-> "idle", indegree |-> [f \in Feeds |-> 0], queue |-> {},
           order |-> <<>>, next |-> 1, results |-> {}]

TypeOK ==
    /\ running \in BOOLEAN
    /\ loop \in [Loops -> Polling]
    /\ feedLocks \in [Feeds -> Locks \cup {None}]
    /\ holder \in [Locks -> Threads \cup {None}]
    /\ frame \in [Threads -> Trigger]
    /\ all \in [Callers -> SyncAll]
    /\ unhealthy \subseteq Feeds

Init ==
    /\ running = FALSE
    /\ loop = [l \in Loops |-> Dead]
    /\ feedLocks = [f \in Feeds |-> None]
    /\ holder = [k \in Locks |-> None]
    /\ frame = [t \in Threads |-> Idle]
    /\ all = [c \in Callers |-> NoCall]
    /\ unhealthy = {}

-----------------------------------------------------------------------------
(* trigger_sync *)

Call(t, f) == frame' = [frame EXCEPT ![t] = [pc |-> "checking", feed |-> f, lock |-> None]]
Goto(t, stage) == frame' = [frame EXCEPT ![t].pc = stage]

\* _get_feed_lock: a feed's lock is made once, under the lock of the scheduler.
NewLock == CHOOSE k \in Locks : \A g \in Feeds : feedLocks[g] # k

\* Mutant of LockOf: whether there is one already is not asked.
LockOfAnew(f) == NewLock
LockOf(f) == IF feedLocks[f] # None THEN feedLocks[f] ELSE NewLock

GetLock(f) == feedLocks' = [feedLocks EXCEPT ![f] = LockOf(f)]

\* Mutant of Done: sync_all goes on after a feed that failed.
DoneAnyway(t, ok) ==
    /\ frame' = [frame EXCEPT ![t] = Idle]
    /\ all' = IF t \notin Callers THEN all
              ELSE [all EXCEPT ![t].pc = "choosing", ![t].next = @ + 1,
                               ![t].results = IF ok THEN @ \cup {frame[t].feed} ELSE @]

\* The call returns or raises; sync_all goes on to the next feed, or raises as well.
Done(t, ok) ==
    /\ frame' = [frame EXCEPT ![t] = Idle]
    /\ all' = IF t \notin Callers THEN all
              ELSE IF ok THEN [all EXCEPT ![t].pc = "choosing", ![t].next = @ + 1,
                                          ![t].results = @ \cup {frame[t].feed}]
              ELSE [all EXCEPT ![t] = NoCall]
Check(t) ==
    /\ frame[t].pc = "checking"
    /\ IF Deps[frame[t].feed] \cap unhealthy = {}
         THEN Goto(t, "locating") /\ UNCHANGED all
         ELSE Done(t, FALSE)
    /\ UNCHANGED <<running, loop, feedLocks, holder, unhealthy>>

Locate(t) ==
    /\ frame[t].pc = "locating"
    /\ GetLock(frame[t].feed)
    /\ frame' = [frame EXCEPT ![t].pc = "trying", ![t].lock = LockOf(frame[t].feed)]
    /\ UNCHANGED <<running, loop, holder, all, unhealthy>>

\* Mutant of Try: the call waits for the lock.
TryBlocking(t) ==
    LET k == frame[t].lock
    IN  /\ frame[t].pc = "trying" /\ holder[k] = None
        /\ Goto(t, "syncing") /\ holder' = [holder EXCEPT ![k] = t] /\ UNCHANGED all
        /\ UNCHANGED <<running, loop, feedLocks, unhealthy>>

\* acquire(blocking=False)
Try(t) ==
    LET k == frame[t].lock
    IN  /\ frame[t].pc = "trying"
        /\ IF holder[k] = None
             THEN Goto(t, "syncing") /\ holder' = [holder EXCEPT ![k] = t] /\ UNCHANGED all
             ELSE Done(t, FALSE) /\ UNCHANGED holder
        /\ UNCHANGED <<running, loop, feedLocks, unhealthy>>

\* The attempts of the lifecycle runner are over. A success makes the feed healthy or
\* degraded; after failures it may be anything, for an attempt may fail that has already
\* put its success on record.
Finish(t, ok) ==
    /\ frame[t].pc = "syncing"
    /\ holder' = [holder EXCEPT ![frame[t].lock] = None]
    /\ Done(t, ok)
    /\ unhealthy' \in IF ok THEN {unhealthy \ {frame[t].feed}}
                      ELSE {unhealthy \ {frame[t].feed}, unhealthy \cup {frame[t].feed}}
    /\ UNCHANGED <<running, loop, feedLocks>>

TriggerStep(t) ==
    \/ Check(t) \/ Locate(t) \/ Try(t)
    \/ \E ok \in BOOLEAN : Finish(t, ok)

-----------------------------------------------------------------------------
(* start, stop and _scheduler_loop *)

Start ==
    /\ ~ running
    /\ running' = TRUE
    /\ \E l \in Loops : /\ loop[l].pc = "dead"
                        /\ loop' = [loop EXCEPT ![l].pc = "testing"]
    /\ UNCHANGED <<feedLocks, holder, frame, all, unhealthy>>

\* The join with the last polling thread, of two seconds at most, changes nothing.
Stop ==
    /\ running
    /\ running' = FALSE
    /\ UNCHANGED <<loop, feedLocks, holder, frame, all, unhealthy>>

\* Mutant of Test: while True.
TestNothing(l) ==
    /\ loop[l].pc = "testing"
    /\ loop' = [loop EXCEPT ![l] = [Dead EXCEPT !.pc = "polling", !.todo = Enabled]]
    /\ UNCHANGED <<running, feedLocks, holder, frame, all, unhealthy>>
Test(l) ==
    /\ loop[l].pc = "testing"
    /\ loop' = [loop EXCEPT ![l] = IF running THEN [Dead EXCEPT !.pc = "polling", !.todo = Enabled]
                                   ELSE Dead]
    /\ UNCHANGED <<running, feedLocks, holder, frame, all, unhealthy>>

\* The next enabled feed of the list, if there is one and the scheduler still runs; otherwise a
\* second goes by before the next round.
Poll(l) ==
    /\ loop[l].pc = "polling"
    /\ \/ /\ running
          /\ \E f \in loop[l].todo :
                loop' = [loop EXCEPT ![l] = [pc |-> "spawning", todo |-> @.todo \ {f}, feed |-> f]]
       \/ /\ ~ running \/ loop[l].todo = {}
          /\ loop' = [loop EXCEPT ![l] = [Dead EXCEPT !.pc = "testing"]]
    /\ UNCHANGED <<running, feedLocks, holder, frame, all, unhealthy>>

\* The lock is looked at here, and taken by the new thread later.
Spawn(l) ==
    /\ loop[l].pc = "spawning"
    /\ GetLock(loop[l].feed)
    /\ IF holder[LockOf(loop[l].feed)] # None THEN UNCHANGED frame
       ELSE \E j \in Jobs : frame[j].pc = "idle" /\ Call(j, loop[l].feed)
    /\ loop' = [loop EXCEPT ![l].pc = "polling", ![l].feed = None]
    /\ UNCHANGED <<running, holder, all, unhealthy>>

LoopStep(l) == Test(l) \/ Poll(l) \/ Spawn(l)

-----------------------------------------------------------------------------
(* sync_all and get_topological_order *)

\* detect_cycles: some feeds wait for each other.
Cyclic == \E S \in SUBSET Feeds : S # {} /\ \A f \in S : Deps[f] \cap S # {}

Begin(c) ==
    /\ all[c].pc = "idle"
    /\ ~ Cyclic
    /\ LET degree == [f \in Feeds |-> Cardinality(Deps[f])]
       IN  all' = [all EXCEPT ![c].pc = "sorting", ![c].indegree = degree,
                              ![c].queue = {f \in Feeds : degree[f] = 0}]
    /\ UNCHANGED <<running, loop, feedLocks, holder, frame, unhealthy>>

\* Mutant of Relaxed: the edges the other way round.
RelaxedBackwards(degree, node) ==
    [f \in Feeds |-> IF f \in Deps[node] THEN degree[f] - 1 ELSE degree[f]]

\* The dependents of node have one prerequisite less to wait for.
Relaxed(degree, node) ==
    [f \in Feeds |-> IF node \in Deps[f] THEN degree[f] - 1 ELSE degree[f]]

\* Mutant of Released: the degree is looked at too early.
ReleasedLate(degree, node) == {f \in Feeds : node \in Deps[f] /\ degree[f] = 0}
Released(degree, node) == {f \in Feeds : node \in Deps[f] /\ degree[f] = 1}

\* One round of Kahn's algorithm. The queue is in the order of registration, which
\* nothing here depends on: node is any of it.
Take(c, node) ==
    LET degree == all[c].indegree
    IN  /\ all[c].pc = "sorting"
        /\ node \in all[c].queue
        /\ all' = [all EXCEPT ![c].order = Append(@, node),
                              ![c].indegree = Relaxed(degree, node),
                              ![c].queue = (@ \ {node}) \cup Released(degree, node)]
        /\ UNCHANGED <<running, loop, feedLocks, holder, frame, unhealthy>>

\* The queue is empty: DependencyCycleError, unless all feeds are in the order.
Sorted(c) ==
    /\ all[c].pc = "sorting" /\ all[c].queue = {}
    /\ all' = [all EXCEPT ![c] =
                 IF Len(@.order) # Cardinality(Feeds) THEN NoCall
                 ELSE [NoCall EXCEPT !.pc = "choosing", !.order = all[c].order]]
    /\ UNCHANGED <<running, loop, feedLocks, holder, frame, unhealthy>>

\* The next feed of the order is synchronised, if it is enabled.
Choose(c) ==
    LET a == all[c]
    IN  /\ a.pc = "choosing" /\ a.next <= Len(a.order)
        /\ IF a.order[a.next] \in Enabled
             THEN all' = [all EXCEPT ![c].pc = "waiting"] /\ Call(c, a.order[a.next])
             ELSE all' = [all EXCEPT ![c].next = @ + 1] /\ UNCHANGED frame
        /\ UNCHANGED <<running, loop, feedLocks, holder, unhealthy>>

Return(c) ==
    /\ all[c].pc = "choosing" /\ all[c].next > Len(all[c].order)
    /\ all' = [all EXCEPT ![c] = NoCall]
    /\ UNCHANGED <<running, loop, feedLocks, holder, frame, unhealthy>>

SyncAllStep(c) ==
    \/ \E node \in Feeds : Take(c, node)
    \/ Sorted(c) \/ Choose(c) \/ Return(c)

-----------------------------------------------------------------------------

Next ==
    \/ Start \/ Stop
    \/ \E l \in Loops : LoopStep(l)
    \/ \E t \in Threads : TriggerStep(t)
    \/ \E c \in Callers : Begin(c) \/ SyncAllStep(c)

Spec == Init /\ [][Next]_vars

\* Threads that have something to do go on; nobody has to start, stop or call anything.
FairSpec ==
    /\ Spec
    /\ \A l \in Loops : WF_vars(LoopStep(l))
    /\ \A t \in Threads : WF_vars(TriggerStep(t))
    /\ \A c \in Callers : WF_vars(SyncAllStep(c))

-----------------------------------------------------------------------------
(* Properties *)

\* trigger_sync, "Enforces per-feed mutex lock": of the polling loops, also two of them,
\* their threads and sync_all, one at most synchronises a feed.
OneSyncPerFeed ==
    \A t, u \in Threads :
        (frame[t].pc = "syncing" /\ frame[u].pc = "syncing" /\ frame[t].feed = frame[u].feed) => t = u

\* sync_all, "in dependency topological order": when it comes to a feed, it has itself
\* synchronised all that are enabled of its prerequisites.
PrerequisitesFirst ==
    \A c \in Callers :
        all[c].pc = "waiting" =>
            Deps[all[c].order[all[c].next]] \cap Enabled \subseteq all[c].results

\* get_topological_order: without a cycle, the order lacks no feed.
OrderComplete ==
    \A c \in Callers :
        (all[c].pc = "sorting" /\ all[c].queue = {}) => Len(all[c].order) = Cardinality(Feeds)

\* stop: once the scheduler is stopped for good, the loops end, the overtaken ones too,
\* and so do the syncs they have started.
StopsPolling ==
    (<>[](~ running)) => <>[](/\ \A l \in Loops : loop[l].pc = "dead"
                              /\ \A j \in Jobs : frame[j].pc = "idle")

\* sync_all waits for nobody: it returns or raises, however often the loops take the
\* feeds' locks.
SyncAllReturns == \A c \in Callers : (all[c].pc # "idle") ~> (all[c].pc = "idle")

=============================================================================
