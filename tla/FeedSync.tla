------------------------------ MODULE FeedSync ------------------------------
(***************************************************************************)
(* Ingestion of intelligence feeds: IntelligenceScheduler.trigger_sync     *)
(* runs FeedLifecycleRunner.execute under a per-feed lock, with retries    *)
(* and cancellation, while operators call DatasetVersionManager.rollback.  *)
(* Each step below is one transaction of the repository, or the stretch of *)
(* thread-local code up to the next one; threads interleave between steps, *)
(* any plugin or repository call may raise, and the process may restart.   *)
(***************************************************************************)
EXTENDS Naturals, FiniteSets

CONSTANTS
    Feeds,              \* registered feed ids
    Workers,            \* threads that call trigger_sync (routes and scheduler loop)
    Operators,          \* threads that call rollback_dataset
    VersionIds,         \* uuids available for dataset versions
    None,               \* Python's None
    Deps,               \* Deps[f]: the prerequisites in f's manifest
    ActivatingPlugins,  \* feeds whose on_activate/on_rollback write the repository
    AutoActivate,       \* feeds configured with auto_activate
    MaxRetries,         \* retry_count
    MaxSyncs,           \* bound: syncs triggered
    MaxRollbacks,       \* bound: rollbacks requested
    MaxCancels,         \* bound: cancellations requested
    MaxRestarts         \* bound: process restarts

ASSUME ConstantsAssumption ==
    /\ None \notin Feeds \cup Workers \cup Operators \cup VersionIds
    /\ Deps \in [Feeds -> SUBSET Feeds]
    /\ ActivatingPlugins \subseteq Feeds
    /\ AutoActivate \subseteq Feeds
    /\ {MaxRetries, MaxSyncs, MaxRollbacks, MaxCancels, MaxRestarts} \subseteq Nat

VARIABLES
    dsv,            \* table of dataset versions, by version_id
    imports,        \* final status on record of the import that made a version
    health,         \* table of feed health
    clock,          \* source of imported_at and activated_at
    feedLock,       \* holder of a feed's lock in _feed_locks
    tokens,         \* _cancellation_tokens
    managerLock,    \* holder of DatasetVersionManager._lock
    sync,           \* a worker's trigger_sync frame
    rb,             \* an operator's rollback frame
    lastActivated,  \* history: the version a feed activated last
    used            \* calls made so far, against the bounds

vars == <<dsv, imports, health, clock, feedLock, tokens, managerLock, sync, rb,
          lastActivated, used>>
store == <<dsv, imports, health, clock, lastActivated>>

-----------------------------------------------------------------------------
(* The tables. *)

DatasetStatus == {"ABSENT", "CREATED", "STORED", "ACTIVE", "ARCHIVED",
                  "ROLLED_BACK", "FAILED"}
ValidationStatus == {"PENDING", "PASSED", "FAILED"}
DatasetVersion == [feed : Feeds \cup {None}, status : DatasetStatus,
                   validation : ValidationStatus,
                   imported_at : Nat, activated_at : Nat]
NoRow == [feed |-> None, status |-> "ABSENT", validation |-> "PENDING",
          imported_at |-> 0, activated_at |-> 0]

FeedHealth == [status : {"ABSENT", "HEALTHY", "DEGRADED", "UNHEALTHY"},
               total : Nat, ok : Nat, consecutive : Nat,
               validation_state : {"N/A", "PASSED", "FAILED"},
               active : VersionIds \cup {None}]
NoHealth == [status |-> "ABSENT", total |-> 0, ok |-> 0, consecutive |-> 0,
             validation_state |-> "N/A", active |-> None]

\* list_dataset_versions(feed_id)
VersionsOf(f) == {v \in VersionIds : dsv[v].feed = f}
ActiveOf(f) == {v \in VersionsOf(f) : dsv[v].status = "ACTIVE"}

\* v comes first among S in the order imported_at DESC.
Newest(v, S) == v \in S /\ \A u \in S : dsv[u].imported_at <= dsv[v].imported_at

\* Mutant of Served: the order of list_dataset_versions instead.
ServedByImport(f) ==
    IF ActiveOf(f) = {} THEN None ELSE CHOOSE v \in ActiveOf(f) : Newest(v, ActiveOf(f))

\* get_active_dataset_version: the ACTIVE row with the latest activated_at.
Served(f) ==
    IF ActiveOf(f) = {} THEN None
    ELSE CHOOSE v \in ActiveOf(f) :
            \A u \in ActiveOf(f) : dsv[u].activated_at <= dsv[v].activated_at

\* Mutant of Activated: nothing is archived.
ActivatedBeside(f, v) ==
    [dsv EXCEPT ![v].status = "ACTIVE", ![v].activated_at = clock + 1]

\* set_active_dataset_version(f, v), one transaction.
Activated(f, v) ==
    [u \in VersionIds |->
        IF u = v
        THEN [dsv[u] EXCEPT !.status = "ACTIVE", !.activated_at = clock + 1]
        ELSE IF dsv[u].feed = f /\ dsv[u].status = "ACTIVE"
             THEN [dsv[u] EXCEPT !.status = "ARCHIVED"]
             ELSE dsv[u]]

SetActive(f, v) ==
    /\ dsv' = Activated(f, v)
    /\ clock' = clock + 1
    /\ lastActivated' = [lastActivated EXCEPT ![f] = v]

\* save_dataset_version: the whole in-memory row is written back.
SaveVersion(v, row) ==
    /\ dsv' = [dsv EXCEPT ![v] = row]
    /\ UNCHANGED <<clock, lastActivated>>

-----------------------------------------------------------------------------
(* HealthMonitor: each record is one read-modify-write under its lock. *)

TrustRecorded(h, passed) ==
    IF h.status = "ABSENT"
    THEN [h EXCEPT !.status = IF passed THEN "HEALTHY" ELSE "UNHEALTHY"]
    ELSE h

\* Mutant of SuccessRecorded: the failures are worked off one by one.
SuccessDecays(h, v) ==
    [status |-> "HEALTHY", total |-> h.total + 1, ok |-> h.ok + 1,
     consecutive |-> h.consecutive - 1, validation_state |-> "PASSED", active |-> v]

SuccessRecorded(h, v) ==
    LET total == h.total + 1
        ok    == h.ok + 1
    IN  [status |-> IF 100 * ok >= 80 * total THEN "HEALTHY" ELSE "DEGRADED",
         total |-> total, ok |-> ok, consecutive |-> 0,
         validation_state |-> "PASSED", active |-> v]

FailureRecorded(h) ==
    LET total       == h.total + 1
        consecutive == h.consecutive + 1
        unhealthy   == consecutive >= 3 \/ 100 * h.ok < 50 * total
    IN  [h EXCEPT !.status = IF unhealthy THEN "UNHEALTHY" ELSE "DEGRADED",
                  !.total = total, !.consecutive = consecutive,
                  !.validation_state = "FAILED"]

\* FeedDependencyGraph.validate_prerequisites over the health rows.
PrerequisitesMet(f) == \A d \in Deps[f] : health[d].status # "UNHEALTHY"

-----------------------------------------------------------------------------
(* The frames of the threads. *)

\* Stages in which a worker holds its feed's lock, in the order of the code.
Executing == {"fetching", "created", "verified", "validated", "stored", "built",
              "activated", "notified", "saved", "completed", "recorded"}
Handling == {"failing", "import_failed", "marked", "undone"}
Holding == {"acquired", "ready", "backoff"} \cup Executing \cup Handling

\* copy is the DatasetVersion object of the run; asked records, as history, that
\* cancel_sync was called for this feed after this worker had discarded the token.
SyncFrame == [pc : {"idle", "checked"} \cup Holding, feed : Feeds \cup {None},
              attempt : Nat, version : VersionIds \cup {None},
              copy : DatasetVersion, asked : BOOLEAN]
NoSync == [pc |-> "idle", feed |-> None, attempt |-> 0, version |-> None,
           copy |-> NoRow, asked |-> FALSE]

RollbackFrame == [pc : {"idle", "marking", "activating"}, feed : Feeds \cup {None},
                  current : VersionIds \cup {None}, copy : DatasetVersion,
                  target : VersionIds \cup {None}, explicit : BOOLEAN]
NoRollback == [pc |-> "idle", feed |-> None, current |-> None, copy |-> NoRow,
               target |-> None, explicit |-> FALSE]

TypeOK ==
    /\ dsv \in [VersionIds -> DatasetVersion]
    /\ imports \in [VersionIds -> {"UNFINISHED", "COMPLETED", "FAILED"}]
    /\ health \in [Feeds -> FeedHealth]
    /\ clock \in Nat
    /\ feedLock \in [Feeds -> Workers \cup {None}]
    /\ tokens \subseteq Feeds
    /\ managerLock \in Operators \cup {None}
    /\ sync \in [Workers -> SyncFrame]
    /\ rb \in [Operators -> RollbackFrame]
    /\ lastActivated \in [Feeds -> VersionIds \cup {None}]
    /\ used \in [syncs : Nat, rollbacks : Nat, cancels : Nat, restarts : Nat]

Init ==
    /\ dsv = [v \in VersionIds |-> NoRow]
    /\ imports = [v \in VersionIds |-> "UNFINISHED"]
    /\ health = [f \in Feeds |-> NoHealth]
    /\ clock = 0
    /\ feedLock = [f \in Feeds |-> None]
    /\ tokens = {}
    /\ managerLock = None
    /\ sync = [w \in Workers |-> NoSync]
    /\ rb = [o \in Operators |-> NoRollback]
    /\ lastActivated = [f \in Feeds |-> None]
    /\ used = [syncs |-> 0, rollbacks |-> 0, cancels |-> 0, restarts |-> 0]

At(w, stage) == sync[w].pc = stage
Goto(w, stage) == sync' = [sync EXCEPT ![w].pc = stage]
\* return or raise out of trigger_sync: finally, feed_lock.release()
Return(w) ==
    /\ sync' = [sync EXCEPT ![w] = NoSync]
    /\ feedLock' = [feedLock EXCEPT ![sync[w].feed] = None]

-----------------------------------------------------------------------------
(* trigger_sync *)

\* The prerequisites are read before the lock is tried; a caller they stop
\* leaves no trace.
Trigger(w, f) ==
    /\ At(w, "idle")
    /\ used.syncs < MaxSyncs
    /\ PrerequisitesMet(f)
    /\ sync' = [sync EXCEPT ![w] = [NoSync EXCEPT !.pc = "checked", !.feed = f]]
    /\ used' = [used EXCEPT !.syncs = @ + 1]
    /\ UNCHANGED <<store, feedLock, tokens, managerLock, rb>>

Acquire(w) ==
    /\ At(w, "checked")
    /\ feedLock[sync[w].feed] = None
    /\ feedLock' = [feedLock EXCEPT ![sync[w].feed] = w]
    /\ Goto(w, "acquired")
    /\ UNCHANGED <<store, tokens, managerLock, rb, used>>

AlreadyInProgress(w) ==
    /\ At(w, "checked")
    /\ feedLock[sync[w].feed] # None
    /\ sync' = [sync EXCEPT ![w] = NoSync]
    /\ UNCHANGED <<store, feedLock, tokens, managerLock, rb, used>>

DiscardToken(w) ==
    /\ At(w, "acquired")
    /\ tokens' = tokens \ {sync[w].feed}
    /\ Goto(w, "ready")
    /\ UNCHANGED <<store, feedLock, managerLock, rb, used>>

StopCancelled(w) ==
    /\ At(w, "ready")
    /\ sync[w].feed \in tokens
    /\ Return(w)
    /\ UNCHANGED <<store, tokens, managerLock, rb, used>>

StartAttempt(w) ==
    /\ At(w, "ready")
    /\ sync[w].feed \notin tokens
    /\ sync' = [sync EXCEPT ![w].pc = "fetching", ![w].version = None,
                            ![w].copy = NoRow]
    /\ UNCHANGED <<store, feedLock, tokens, managerLock, rb, used>>

\* Mutant of Retry: the token is discarded at each attempt.
RetryAfresh(w) ==
    /\ At(w, "backoff")
    /\ sync[w].attempt + 1 <= MaxRetries
    /\ sync' = [sync EXCEPT ![w].pc = "acquired", ![w].attempt = @ + 1]
    /\ UNCHANGED <<store, feedLock, tokens, managerLock, rb, used>>

\* Mutant of Retry: the attempts are not counted.
RetryUncounted(w) ==
    /\ At(w, "backoff")
    /\ sync[w].attempt + 1 <= MaxRetries
    /\ Goto(w, "ready")
    /\ UNCHANGED <<store, feedLock, tokens, managerLock, rb, used>>

Retry(w) ==
    /\ At(w, "backoff")
    /\ sync[w].attempt + 1 <= MaxRetries
    /\ sync' = [sync EXCEPT ![w].pc = "ready", ![w].attempt = @ + 1]
    /\ UNCHANGED <<store, feedLock, tokens, managerLock, rb, used>>

GiveUp(w) ==
    /\ At(w, "backoff")
    /\ sync[w].attempt + 1 > MaxRetries
    /\ Return(w)
    /\ UNCHANGED <<store, tokens, managerLock, rb, used>>

\* cancel_sync only adds the token.
Cancel(f) ==
    /\ used.cancels < MaxCancels
    /\ tokens' = tokens \cup {f}
    /\ sync' = [w \in Workers |->
                  IF sync[w].feed = f /\ sync[w].pc \in Holding \ {"acquired"}
                  THEN [sync[w] EXCEPT !.asked = TRUE] ELSE sync[w]]
    /\ used' = [used EXCEPT !.cancels = @ + 1]
    /\ UNCHANGED <<store, feedLock, managerLock, rb>>

-----------------------------------------------------------------------------
(* FeedLifecycleRunner.execute: the thirteen steps *)

Unlocked == <<feedLock, tokens, managerLock, rb, used>>

\* Steps 1-2: download, then create_version saves a CREATED row.
CreateVersion(w, v) ==
    LET row == [feed |-> sync[w].feed, status |-> "CREATED",
                validation |-> "PENDING", imported_at |-> clock + 1,
                activated_at |-> 0]
    IN  /\ At(w, "fetching")
        /\ dsv[v].status = "ABSENT"
        /\ dsv' = [dsv EXCEPT ![v] = row]
        /\ clock' = clock + 1
        /\ sync' = [sync EXCEPT ![w].pc = "created", ![w].version = v,
                                ![w].copy = row]
        /\ UNCHANGED <<imports, health, lastActivated, Unlocked>>

\* Steps 3-6: transport, signature and checksum hold; the trust evaluation is
\* recorded, and one that does not pass raises.
EvaluateTrust(w, passed) ==
    LET f == sync[w].feed
    IN  /\ At(w, "created")
        /\ health' = [health EXCEPT ![f] = TrustRecorded(@, passed)]
        /\ Goto(w, IF passed THEN "verified" ELSE "failing")
        /\ UNCHANGED <<dsv, imports, clock, lastActivated, Unlocked>>

\* Steps 7-9, the dataset is valid: only the in-memory object changes.
ValidationPassed(w) ==
    /\ At(w, "verified")
    /\ sync' = [sync EXCEPT ![w].pc = "validated", ![w].copy.validation = "PASSED"]
    /\ UNCHANGED <<store, Unlocked>>

\* Steps 7-9, the dataset is invalid: the row is saved FAILED, then raise.
ValidationFailed(w) ==
    LET row == [sync[w].copy EXCEPT !.status = "FAILED", !.validation = "FAILED"]
    IN  /\ At(w, "verified")
        /\ SaveVersion(sync[w].version, row)
        /\ sync' = [sync EXCEPT ![w].pc = "failing", ![w].copy = row]
        /\ UNCHANGED <<imports, health, Unlocked>>

\* Step 10: feed.store, then the row is saved STORED.
StoreDataset(w) ==
    LET row == [sync[w].copy EXCEPT !.status = "STORED"]
    IN  /\ At(w, "validated")
        /\ SaveVersion(sync[w].version, row)
        /\ sync' = [sync EXCEPT ![w].pc = "stored", ![w].copy = row]
        /\ UNCHANGED <<imports, health, Unlocked>>

\* Step 11 writes nothing of this model; without auto_activate step 12 is skipped.
BuildRelationships(w) ==
    /\ At(w, "stored")
    /\ Goto(w, IF sync[w].feed \in AutoActivate THEN "built" ELSE "notified")
    /\ UNCHANGED <<store, Unlocked>>

\* Mutant of ActivateVersion: the object fetched before the activation is returned.
ActivateVersionStale(w) ==
    /\ At(w, "built")
    /\ managerLock = None
    /\ dsv[sync[w].version].validation # "FAILED"
    /\ SetActive(sync[w].feed, sync[w].version)
    /\ sync' = [sync EXCEPT ![w].pc = "activated", ![w].copy = dsv[sync[w].version]]
    /\ UNCHANGED <<imports, health, Unlocked>>

\* Step 12: activate_version under the manager's lock. No rollback can run
\* inside it, so its three repository calls are one step; the object becomes a
\* copy of the row it reads back.
ActivateVersion(w) ==
    LET f == sync[w].feed
        v == sync[w].version
    IN  /\ At(w, "built")
        /\ managerLock = None
        /\ dsv[v].validation # "FAILED"
        /\ SetActive(f, v)
        /\ sync' = [sync EXCEPT ![w].pc = "activated", ![w].copy = dsv'[v]]
        /\ UNCHANGED <<imports, health, Unlocked>>

\* ... which refuses a version that failed validation, or raises: before the
\* activation commits, or in the read that follows it.
ActivationFails(w) ==
    /\ At(w, "built")
    /\ managerLock = None
    /\ \/ SetActive(sync[w].feed, sync[w].version)
       \/ UNCHANGED <<dsv, clock, lastActivated>>
    /\ Goto(w, "failing")
    /\ UNCHANGED <<imports, health, Unlocked>>

\* feed.on_activate: a plugin with a repository activates the version again,
\* without the manager's lock.
OnActivate(w) ==
    LET f == sync[w].feed
    IN  /\ At(w, "activated")
        /\ IF f \in ActivatingPlugins
           THEN SetActive(f, sync[w].version)
           ELSE UNCHANGED <<dsv, clock, lastActivated>>
        /\ Goto(w, "notified")
        /\ UNCHANGED <<imports, health, Unlocked>>

\* Step 13: the object is saved (for its duration), then the import, then the
\* health; the logs close the run.
SaveDuration(w) ==
    /\ At(w, "notified")
    /\ SaveVersion(sync[w].version, sync[w].copy)
    /\ Goto(w, "saved")
    /\ UNCHANGED <<imports, health, Unlocked>>

CompleteImport(w) ==
    /\ At(w, "saved")
    /\ imports' = [imports EXCEPT ![sync[w].version] = "COMPLETED"]
    /\ Goto(w, "completed")
    /\ UNCHANGED <<dsv, health, clock, lastActivated, Unlocked>>

RecordSuccess(w) ==
    LET f == sync[w].feed
    IN  /\ At(w, "completed")
        /\ health' = [health EXCEPT ![f] = SuccessRecorded(@, sync[w].version)]
        /\ Goto(w, "recorded")
        /\ UNCHANGED <<dsv, imports, clock, lastActivated, Unlocked>>

Succeed(w) ==
    /\ At(w, "recorded")
    /\ Return(w)
    /\ UNCHANGED <<store, tokens, managerLock, rb, used>>

\* Any call of the thirteen steps may raise before it takes effect. What was set in the
\* object stays: where the row of an invalid dataset was to be saved, that it is invalid.
Raise(w) ==
    /\ sync[w].pc \in Executing \ {"built"}
    /\ \/ Goto(w, "failing")
       \/ /\ At(w, "verified")
          /\ sync' = [sync EXCEPT ![w].pc = "failing", ![w].copy.validation = "FAILED"]
    /\ UNCHANGED <<store, Unlocked>>

-----------------------------------------------------------------------------
(* execute's exception handler *)

\* Mutant of FailImport: the failed import is not put on record.
FailImportUnrecorded(w) ==
    /\ At(w, "failing")
    /\ Goto(w, IF sync[w].version = None THEN "undone" ELSE "import_failed")
    /\ UNCHANGED <<store, Unlocked>>

FailImport(w) ==
    LET v == sync[w].version
    IN  /\ At(w, "failing")
        /\ IF v = None
           THEN UNCHANGED imports /\ Goto(w, "undone")
           ELSE /\ imports' = [imports EXCEPT ![v] = "FAILED"]
                /\ Goto(w, "import_failed")
        /\ UNCHANGED <<dsv, health, clock, lastActivated, Unlocked>>

FailVersion(w) ==
    LET row == [sync[w].copy EXCEPT !.status = "FAILED"]
    IN  /\ At(w, "import_failed")
        /\ SaveVersion(sync[w].version, row)
        /\ sync' = [sync EXCEPT ![w].pc = "marked", ![w].copy = row]
        /\ UNCHANGED <<imports, health, Unlocked>>

\* feed.on_rollback(dataset_version): a plugin with a repository makes the very
\* version it is given the active one; an exception is swallowed.
OnRollback(w) ==
    LET f == sync[w].feed
    IN  /\ At(w, "marked")
        /\ \/ f \in ActivatingPlugins /\ SetActive(f, sync[w].version)
           \/ UNCHANGED <<dsv, clock, lastActivated>>
        /\ Goto(w, "undone")
        /\ UNCHANGED <<imports, health, Unlocked>>

RecordFailure(w) ==
    LET f == sync[w].feed
    IN  /\ At(w, "undone")
        /\ health' = [health EXCEPT ![f] = FailureRecorded(@)]
        /\ Goto(w, "backoff")
        /\ UNCHANGED <<dsv, imports, clock, lastActivated, Unlocked>>

\* A repository call of the handler raises: the rest of it is skipped.
HandlerRaises(w) ==
    /\ sync[w].pc \in Handling \ {"marked"}
    /\ Goto(w, "backoff")
    /\ UNCHANGED <<store, Unlocked>>

-----------------------------------------------------------------------------
(* DatasetVersionManager.rollback, all of it under the manager's lock *)

\* Mutant of Candidates: the validation is not looked at.
CandidatesUnvalidated(f) ==
    {v \in VersionsOf(f) : dsv[v].status \in {"ARCHIVED", "STORED"}}

\* What rollback falls back to when the caller names no version.
Candidates(f) ==
    {v \in VersionsOf(f) : /\ dsv[v].status \in {"ARCHIVED", "STORED"}
                           /\ dsv[v].validation # "FAILED"}

\* Acquire the lock and list the versions. A request without a target in the
\* list raises and leaves no trace.
Rollback(o, f, requested, current, target) ==
    /\ rb[o].pc = "idle"
    /\ used.rollbacks < MaxRollbacks
    /\ managerLock = None
    /\ IF ActiveOf(f) = {} THEN current = None ELSE Newest(current, ActiveOf(f))
    /\ IF requested = None THEN Newest(target, Candidates(f))
                           ELSE target = requested /\ target \in VersionsOf(f)
    /\ managerLock' = o
    /\ rb' = [rb EXCEPT ![o] =
                [pc |-> IF current = None THEN "activating" ELSE "marking",
                 feed |-> f, current |-> current,
                 copy |-> IF current = None THEN NoRow ELSE dsv[current],
                 target |-> target, explicit |-> requested # None]]
    /\ used' = [used EXCEPT !.rollbacks = @ + 1]
    /\ UNCHANGED <<store, feedLock, tokens, sync>>

\* Mutant of MarkRolledBack: the version is saved ARCHIVED, like a replaced one.
MarkArchived(o) ==
    /\ rb[o].pc = "marking"
    /\ SaveVersion(rb[o].current, [rb[o].copy EXCEPT !.status = "ARCHIVED"])
    /\ rb' = [rb EXCEPT ![o].pc = "activating"]
    /\ UNCHANGED <<imports, health, feedLock, tokens, managerLock, sync, used>>

\* The active version is saved ROLLED_BACK, in a transaction of its own.
MarkRolledBack(o) ==
    /\ rb[o].pc = "marking"
    /\ SaveVersion(rb[o].current, [rb[o].copy EXCEPT !.status = "ROLLED_BACK"])
    /\ rb' = [rb EXCEPT ![o].pc = "activating"]
    /\ UNCHANGED <<imports, health, feedLock, tokens, managerLock, sync, used>>

ActivateTarget(o) ==
    /\ rb[o].pc = "activating"
    /\ SetActive(rb[o].feed, rb[o].target)
    /\ rb' = [rb EXCEPT ![o] = NoRollback]
    /\ managerLock' = None
    /\ UNCHANGED <<imports, health, feedLock, tokens, sync, used>>

\* Mutant of RollbackFails: an exception leaves the manager's lock taken.
RollbackFailsLocked(o) ==
    /\ rb[o].pc # "idle"
    /\ rb' = [rb EXCEPT ![o] = NoRollback]
    /\ UNCHANGED <<store, feedLock, tokens, managerLock, sync, used>>

\* Either transaction raises; what was saved stays.
RollbackFails(o) ==
    /\ rb[o].pc # "idle"
    /\ rb' = [rb EXCEPT ![o] = NoRollback]
    /\ managerLock' = None
    /\ UNCHANGED <<store, feedLock, tokens, sync, used>>

-----------------------------------------------------------------------------
\* The process dies and starts again on the same database.
Restart ==
    /\ used.restarts < MaxRestarts
    /\ used' = [used EXCEPT !.restarts = @ + 1]
    /\ feedLock' = [f \in Feeds |-> None]
    /\ tokens' = {}
    /\ managerLock' = None
    /\ sync' = [w \in Workers |-> NoSync]
    /\ rb' = [o \in Operators |-> NoRollback]
    /\ UNCHANGED store

\* Nobody calls any more.
Quiescent ==
    /\ \A w \in Workers : At(w, "idle")
    /\ \A o \in Operators : rb[o].pc = "idle"
    /\ UNCHANGED vars

WorkerStep(w) ==
    \/ Acquire(w) \/ AlreadyInProgress(w) \/ DiscardToken(w)
    \/ StopCancelled(w) \/ StartAttempt(w) \/ Retry(w) \/ GiveUp(w)
    \/ \E v \in VersionIds : CreateVersion(w, v)
    \/ \E passed \in BOOLEAN : EvaluateTrust(w, passed)
    \/ ValidationPassed(w) \/ ValidationFailed(w) \/ StoreDataset(w)
    \/ BuildRelationships(w) \/ ActivateVersion(w) \/ ActivationFails(w)
    \/ OnActivate(w) \/ SaveDuration(w) \/ CompleteImport(w)
    \/ RecordSuccess(w) \/ Succeed(w) \/ Raise(w)
    \/ FailImport(w) \/ FailVersion(w) \/ OnRollback(w) \/ RecordFailure(w)
    \/ HandlerRaises(w)

OperatorStep(o) == MarkRolledBack(o) \/ ActivateTarget(o) \/ RollbackFails(o)

Next ==
    \/ \E w \in Workers, f \in Feeds : Trigger(w, f)
    \/ \E w \in Workers : WorkerStep(w)
    \/ \E f \in Feeds : Cancel(f)
    \/ \E o \in Operators, f \in Feeds :
         \E requested, current, target \in VersionIds \cup {None} :
            Rollback(o, f, requested, current, target)
    \/ \E o \in Operators : OperatorStep(o)
    \/ Restart
    \/ Quiescent

Spec == Init /\ [][Next]_vars

\* A thread that is running keeps running; nobody has to call.
FairSpec ==
    /\ Spec
    /\ \A w \in Workers : WF_vars(WorkerStep(w))
    /\ \A o \in Operators : WF_vars(OperatorStep(o))

-----------------------------------------------------------------------------
(* Properties that hold *)

\* Without rollbacks a feed never has two ACTIVE dataset versions, although the
\* sync saves rows outside the manager's lock and plugins activate on their own.
AtMostOneActive == \A f \in Feeds : \A u, v \in ActiveOf(f) : u = v

\* A sync that saves its row late can bring a rolled-back version back to ACTIVE
\* beside the restored one; as long as the version activated last is ACTIVE, it
\* is still the one that get_active_dataset_version serves.
LastActivatedIsServed ==
    \A f \in Feeds : lastActivated[f] \in ActiveOf(f) => Served(f) = lastActivated[f]

\* Without rollbacks, a feed that activated a version and serves none has the
\* failed import of that version on record, across restarts and database errors.
NoSilentOutage ==
    \A f \in Feeds :
        (lastActivated[f] # None /\ Served(f) = None)
            => imports[lastActivated[f]] = "FAILED"

\* With rollbacks too, a feed that activated a version and serves none shows on that
\* version what took it out of service: an operator (whose rollback stopped between its
\* two transactions), a failed sync, or the late save of the sync that made it. It is
\* never ARCHIVED, as if another had replaced it.
OutageHasCause ==
    \A f \in Feeds :
        (lastActivated[f] # None /\ Served(f) = None)
            => dsv[lastActivated[f]].status \in {"ROLLED_BACK", "FAILED", "STORED"}

\* An import on record as COMPLETED has no FAILED dataset: a failure after the
\* completion corrects the import before it touches the dataset.
CompletedImportKeepsDataset ==
    \A v \in VersionIds : imports[v] = "COMPLETED" => dsv[v].status # "FAILED"

\* The version that a feed's health reports as active has been activated
\* (record_sync_success is given the id by the sync, not by the version table).
HealthNamesActivated ==
    \A f \in Feeds : health[f].active # None => dsv[health[f].active].activated_at > 0

\* A dataset that failed validation becomes ACTIVE only because an operator
\* names it in a rollback: no sync, retry or automatic choice activates it.
InvalidOnlyByExplicitRollback ==
    [][\A v \in VersionIds :
          (/\ dsv'[v].status = "ACTIVE" /\ dsv[v].status # "ACTIVE"
           /\ dsv[v].validation = "FAILED")
          => \E o \in Operators : rb[o].explicit /\ rb[o].target = v]_vars

\* cancel_sync: a sync that is asked to stop once it has discarded the token of former
\* requests starts no further attempt; only a request between the acquisition of
\* the lock and the discarding is lost.
CancelHeeded ==
    [][\A w \in Workers :
          (At(w, "ready") /\ sync'[w].pc = "fetching") => ~ sync[w].asked]_vars

\* The locks of the feeds and of DatasetVersionManager are held by the calls that are
\* between acquire and release and by nobody else: no return, exception, cancellation
\* or restart leaves one behind, and none is taken over.
LocksHeld ==
    /\ \A f \in Feeds, w \in Workers :
          feedLock[f] = w <=> sync[w].feed = f /\ sync[w].pc \in Holding
    /\ \A o \in Operators : managerLock = o <=> rb[o].pc # "idle"

\* How far a call of trigger_sync is from its return, if every attempt fails late.
StepsLeft ==
    [checked |-> 19, acquired |-> 18, ready |-> 17, fetching |-> 16, created |-> 15,
     verified |-> 14, validated |-> 13, stored |-> 12, built |-> 11, activated |-> 10,
     notified |-> 9, saved |-> 8, completed |-> 7, recorded |-> 6, failing |-> 5,
     import_failed |-> 4, marked |-> 3, undone |-> 2, backoff |-> 1, idle |-> 0]
Distance(w) == IF At(w, "idle") THEN 0
               ELSE 20 * (MaxRetries - sync[w].attempt) + StepsLeft[sync[w].pc]

\* trigger_sync: each step of the thread brings the call nearer to its return, through
\* every failure and retry, and nobody else takes it further from it.
SyncsShorten ==
    [][\A w \in Workers :
          ~ At(w, "idle") => /\ Distance(w)' \in 0 .. Distance(w)
                             /\ WorkerStep(w) => Distance(w)' # Distance(w)]_vars

\* A thread that enters trigger_sync leaves it, and so gives the feed's lock
\* back, whatever raises and whoever holds the manager's lock meanwhile.
SyncEnds == \A w \in Workers : ~At(w, "idle") ~> At(w, "idle")

\* Without rollbacks the version table implements the catalog of published
\* datasets: one version per feed, and a replaced one never comes back.
Catalog == INSTANCE PublishedDatasets
             WITH published <- [f \in Feeds |-> Served(f)],
                  retired   <- {v \in VersionIds : dsv[v].status = "ARCHIVED"}
ImplementsCatalog == Catalog!Spec

-----------------------------------------------------------------------------
(* A statement of the repository that the code does not keep *)

\* test_versioning counts the ACTIVE rows of a feed and expects one, also while
\* operators roll back.
SingleActiveRow == \A f \in Feeds : Cardinality(ActiveOf(f)) <= 1

=============================================================================
