--------------------------- MODULE FeedSyncProofs ---------------------------
(***************************************************************************)
(* What the ingestion of feeds guarantees for every set of feeds, threads, *)
(* operators and versions and for every bound.                             *)
(***************************************************************************)
EXTENDS FeedSync, TLAPS

-----------------------------------------------------------------------------
(* The rows, records and frames an action builds have their types. *)

Stage == {"idle", "checked"} \cup Holding

LEMMA FrameUpdated ==
  ASSUME NEW fr \in SyncFrame, NEW s \in Stage, NEW row \in DatasetVersion,
         NEW v \in VersionIds \cup {None}
  PROVE  /\ [fr EXCEPT !.pc = s] \in SyncFrame
         /\ [fr EXCEPT !.asked = TRUE] \in SyncFrame
         /\ [fr EXCEPT !.pc = s, !.copy = row] \in SyncFrame
         /\ [fr EXCEPT !.pc = s, !.version = v, !.copy = row] \in SyncFrame
  BY DEF SyncFrame, Stage

LEMMA AttemptUpdated ==
  ASSUME NEW fr \in SyncFrame, NEW s \in Stage
  PROVE  [fr EXCEPT !.pc = s, !.attempt = @ + 1] \in SyncFrame
  <1>1. fr.attempt + 1 \in Nat
    BY DEF SyncFrame
  <1> QED
    BY <1>1 DEF SyncFrame, Stage

LEMMA EmptyFrames ==
  /\ NoRow \in DatasetVersion
  /\ NoHealth \in FeedHealth
  /\ NoSync \in SyncFrame
  /\ NoRollback \in RollbackFrame
  /\ \A f \in Feeds : [NoSync EXCEPT !.pc = "checked", !.feed = f] \in SyncFrame
  <1>1. NoRow \in DatasetVersion
    BY DEF NoRow, DatasetVersion, DatasetStatus, ValidationStatus
  <1>2. NoHealth \in FeedHealth
    BY DEF NoHealth, FeedHealth
  <1>3. NoSync \in SyncFrame
    BY <1>1 DEF NoSync, SyncFrame
  <1>4. NoRollback \in RollbackFrame
    BY <1>1 DEF NoRollback, RollbackFrame
  <1>5. ASSUME NEW f \in Feeds
        PROVE  [NoSync EXCEPT !.pc = "checked", !.feed = f] \in SyncFrame
    BY <1>1 DEF NoSync, SyncFrame
  <1> QED
    BY <1>1, <1>2, <1>3, <1>4, <1>5

LEMMA CallCounted ==
  ASSUME NEW u \in [syncs : Nat, rollbacks : Nat, cancels : Nat, restarts : Nat]
  PROVE  /\ [u EXCEPT !.syncs = @ + 1]
              \in [syncs : Nat, rollbacks : Nat, cancels : Nat, restarts : Nat]
         /\ [u EXCEPT !.rollbacks = @ + 1]
              \in [syncs : Nat, rollbacks : Nat, cancels : Nat, restarts : Nat]
         /\ [u EXCEPT !.cancels = @ + 1]
              \in [syncs : Nat, rollbacks : Nat, cancels : Nat, restarts : Nat]
         /\ [u EXCEPT !.restarts = @ + 1]
              \in [syncs : Nat, rollbacks : Nat, cancels : Nat, restarts : Nat]
  OBVIOUS

\* The three records of the HealthMonitor.
LEMMA HealthRecorded ==
  ASSUME NEW h \in FeedHealth, NEW passed \in BOOLEAN, NEW v \in VersionIds \cup {None}
  PROVE  /\ TrustRecorded(h, passed) \in FeedHealth
         /\ SuccessRecorded(h, v) \in FeedHealth
         /\ FailureRecorded(h) \in FeedHealth
  <1>1. TrustRecorded(h, passed) \in FeedHealth
    BY DEF TrustRecorded, FeedHealth
  <1>2. SuccessRecorded(h, v) \in FeedHealth
    BY DEF SuccessRecorded, FeedHealth
  <1>3. FailureRecorded(h) \in FeedHealth
    <2> DEFINE total == h.total + 1
               consecutive == h.consecutive + 1
               status == IF consecutive >= 3 \/ 100 * h.ok < 50 * total
                         THEN "UNHEALTHY" ELSE "DEGRADED"
    <2>1. /\ status \in {"ABSENT", "HEALTHY", "DEGRADED", "UNHEALTHY"}
          /\ total \in Nat /\ consecutive \in Nat
      BY DEF FeedHealth
    <2>2. FailureRecorded(h) = [h EXCEPT !.status = status, !.total = total,
                  !.consecutive = consecutive, !.validation_state = "FAILED"]
      BY DEF FailureRecorded
    <2> HIDE DEF status, total, consecutive
    <2> QED
      BY <2>1, <2>2 DEF FeedHealth
  <1> QED
    BY <1>1, <1>2, <1>3

\* set_active_dataset_version rewrites rows only.
LEMMA ActivatedTyped ==
  ASSUME TypeOK, NEW f, NEW v
  PROVE  Activated(f, v) \in [VersionIds -> DatasetVersion]
  <1> SUFFICES ASSUME NEW u \in VersionIds
               PROVE  Activated(f, v)[u] \in DatasetVersion
    BY DEF Activated
  <1>1. dsv[u] \in DatasetVersion /\ clock + 1 \in Nat
    BY DEF TypeOK
  <1>2. [dsv[u] EXCEPT !.status = "ACTIVE", !.activated_at = clock + 1] \in DatasetVersion
    BY <1>1 DEF DatasetVersion, DatasetStatus
  <1>3. [dsv[u] EXCEPT !.status = "ARCHIVED"] \in DatasetVersion
    BY <1>1 DEF DatasetVersion, DatasetStatus
  <1> QED
    BY <1>1, <1>2, <1>3 DEF Activated

LEMMA SetActiveTyped ==
  ASSUME TypeOK, NEW f, NEW v \in VersionIds \cup {None}, SetActive(f, v)
  PROVE  /\ dsv' \in [VersionIds -> DatasetVersion]
         /\ clock' \in Nat
         /\ lastActivated' \in [Feeds -> VersionIds \cup {None}]
  <1>1. dsv' \in [VersionIds -> DatasetVersion]
    BY ActivatedTyped DEF SetActive
  <1>2. clock' \in Nat
    BY DEF TypeOK, SetActive
  <1>3. lastActivated' \in [Feeds -> VersionIds \cup {None}]
    BY DEF TypeOK, SetActive
  <1> QED
    BY <1>1, <1>2, <1>3

LEMMA GotoTyped ==
  ASSUME TypeOK, NEW w \in Workers, NEW s \in Stage, Goto(w, s)
  PROVE  sync' \in [Workers -> SyncFrame]
  <1>1. sync[w] \in SyncFrame
    BY DEF TypeOK
  <1>2. [sync[w] EXCEPT !.pc = s] \in SyncFrame
    BY <1>1 DEF SyncFrame, Stage
  <1> QED
    BY <1>2 DEF TypeOK, Goto

LEMMA ReturnTyped ==
  ASSUME TypeOK, NEW w \in Workers, Return(w)
  PROVE  /\ sync' \in [Workers -> SyncFrame]
         /\ feedLock' \in [Feeds -> Workers \cup {None}]
  BY EmptyFrames DEF TypeOK, Return


-----------------------------------------------------------------------------
(* Types *)

\* The stages from which a sync uses the version it created.
Versioned == (Executing \ {"fetching"}) \cup {"import_failed", "marked"}
VersionNamed(w) == sync[w].pc \in Versioned => sync[w].version \in VersionIds

LEMMA StagesKnown ==
  /\ Executing \cup Handling \cup {"acquired", "ready", "backoff"} \subseteq Stage
  /\ {"idle", "checked"} \subseteq Stage
  BY DEF Stage, Holding

\* Steps of trigger_sync and of the scheduler: the tables are not touched.
LEMMA CallTyped ==
  ASSUME TypeOK, NEW w \in Workers,
         \/ \E f \in Feeds : Trigger(w, f)
         \/ Acquire(w) \/ AlreadyInProgress(w) \/ DiscardToken(w) \/ StopCancelled(w)
         \/ StartAttempt(w) \/ Retry(w) \/ GiveUp(w) \/ Succeed(w)
  PROVE  TypeOK'
  <1> USE DEF store
  <1>0. sync[w] \in SyncFrame /\ sync[w].attempt \in Nat
    BY DEF TypeOK, SyncFrame
  <1>1. ASSUME NEW f \in Feeds, Trigger(w, f) PROVE TypeOK'
    <2>1. sync' \in [Workers -> SyncFrame]
      BY <1>1, EmptyFrames DEF TypeOK, Trigger
    <2>2. used' \in [syncs : Nat, rollbacks : Nat, cancels : Nat, restarts : Nat]
      BY <1>1, CallCounted DEF TypeOK, Trigger
    <2>3. UNCHANGED <<dsv, imports, health, clock, lastActivated, feedLock, tokens,
                      managerLock, rb>>
      BY <1>1 DEF Trigger
    <2> QED
      BY <2>1, <2>2, <2>3 DEF TypeOK
  <1>2. CASE Acquire(w)
    <2>1. sync' \in [Workers -> SyncFrame]
      BY <1>2, GotoTyped, StagesKnown DEF Acquire
    <2> QED
      BY <1>2, <2>1 DEF TypeOK, Acquire
  <1>3. CASE AlreadyInProgress(w)
    BY <1>3, EmptyFrames DEF TypeOK, AlreadyInProgress
  <1>4. CASE DiscardToken(w)
    <2>1. sync' \in [Workers -> SyncFrame]
      BY <1>4, GotoTyped, StagesKnown DEF DiscardToken
    <2> QED
      BY <1>4, <2>1 DEF TypeOK, DiscardToken
  <1>5. CASE StopCancelled(w) \/ GiveUp(w) \/ Succeed(w)
    BY <1>5, ReturnTyped DEF TypeOK, StopCancelled, GiveUp, Succeed
  <1>6. CASE StartAttempt(w)
    <2>1. [sync[w] EXCEPT !.pc = "fetching", !.version = None, !.copy = NoRow] \in SyncFrame
      <3>1. "fetching" \in Stage
        BY DEF Stage, Holding, Executing
      <3> QED
        BY <1>0, <3>1, FrameUpdated, EmptyFrames
    <2>2. sync' \in [Workers -> SyncFrame]
      BY <1>6, <2>1 DEF TypeOK, StartAttempt
    <2> QED
      BY <1>6, <2>2 DEF TypeOK, StartAttempt
  <1>7. CASE Retry(w)
    <2>1. [sync[w] EXCEPT !.pc = "ready", !.attempt = @ + 1] \in SyncFrame
      BY <1>0, AttemptUpdated, StagesKnown
    <2>2. sync' \in [Workers -> SyncFrame]
      BY <1>7, <2>1 DEF TypeOK, Retry
    <2> QED
      BY <1>7, <2>2 DEF TypeOK, Retry
  <1> QED
    BY <1>1, <1>2, <1>3, <1>4, <1>5, <1>6, <1>7

\* Steps of execute and of its handler that only move on, or also write the
\* imports or the health.
LEMMA RecordTyped ==
  ASSUME TypeOK, NEW w \in Workers,
         \/ BuildRelationships(w) \/ CompleteImport(w) \/ RecordSuccess(w) \/ Raise(w)
         \/ FailImport(w) \/ RecordFailure(w) \/ HandlerRaises(w)
         \/ \E passed \in BOOLEAN : EvaluateTrust(w, passed)
  PROVE  TypeOK'
  <1> USE DEF store, Unlocked
  <1>0. sync[w] \in SyncFrame /\ sync[w].version \in VersionIds \cup {None}
    BY DEF TypeOK, SyncFrame
  <1>1. sync' \in [Workers -> SyncFrame]
    <2>1. {"built", "notified", "completed", "recorded", "failing", "undone",
           "import_failed", "backoff", "verified"} \subseteq Stage
      BY DEF Stage, Holding, Executing, Handling
    <2>2. CASE BuildRelationships(w)
      <3>1. Goto(w, "built") \/ Goto(w, "notified")
        BY <2>2 DEF BuildRelationships
      <3> QED
        BY <2>1, <3>1, GotoTyped
    <2>3. CASE CompleteImport(w)
      BY <2>1, <2>3, GotoTyped DEF CompleteImport
    <2>4. CASE RecordSuccess(w)
      BY <2>1, <2>4, GotoTyped DEF RecordSuccess
    <2>5. CASE Raise(w)
      <3>1. CASE Goto(w, "failing")
        BY <2>1, <3>1, GotoTyped
      <3>2. CASE sync' = [sync EXCEPT ![w].pc = "failing", ![w].copy.validation = "FAILED"]
        <4>1. sync[w].copy \in DatasetVersion
          BY <1>0 DEF SyncFrame
        <4>2. [sync[w].copy EXCEPT !.validation = "FAILED"] \in DatasetVersion
          BY <4>1 DEF DatasetVersion, ValidationStatus
        <4>3. [sync[w] EXCEPT !.pc = "failing",
                              !.copy = [sync[w].copy EXCEPT !.validation = "FAILED"]] \in SyncFrame
          BY <1>0, <2>1, <4>2, FrameUpdated
        <4> QED
          BY <3>2, <4>3 DEF TypeOK
      <3> QED
        BY <2>5, <3>1, <3>2 DEF Raise
    <2>6. CASE FailImport(w)
      <3>1. Goto(w, "undone") \/ Goto(w, "import_failed")
        BY <2>6 DEF FailImport
      <3> QED
        BY <2>1, <3>1, GotoTyped
    <2>7. CASE RecordFailure(w)
      BY <2>1, <2>7, GotoTyped DEF RecordFailure
    <2>8. CASE HandlerRaises(w)
      BY <2>1, <2>8, GotoTyped DEF HandlerRaises
    <2>9. ASSUME NEW passed \in BOOLEAN, EvaluateTrust(w, passed)
          PROVE  sync' \in [Workers -> SyncFrame]
      <3>1. Goto(w, "verified") \/ Goto(w, "failing")
        BY <2>9 DEF EvaluateTrust
      <3> QED
        BY <2>1, <3>1, GotoTyped
    <2> QED
      BY <2>2, <2>3, <2>4, <2>5, <2>6, <2>7, <2>8, <2>9
  <1>2. health' \in [Feeds -> FeedHealth]
    <2>1. \A f \in Feeds : health[f] \in FeedHealth
      BY DEF TypeOK
    <2>2. CASE RecordSuccess(w)
      BY <1>0, <2>1, <2>2, HealthRecorded DEF TypeOK, RecordSuccess
    <2>3. CASE RecordFailure(w)
      BY <2>1, <2>3, HealthRecorded DEF TypeOK, RecordFailure
    <2>4. ASSUME NEW passed \in BOOLEAN, EvaluateTrust(w, passed)
          PROVE  health' \in [Feeds -> FeedHealth]
      BY <2>1, <2>4, HealthRecorded DEF TypeOK, EvaluateTrust
    <2>5. CASE UNCHANGED health
      BY <2>5 DEF TypeOK
    <2> QED
      BY <2>2, <2>3, <2>4, <2>5 DEF BuildRelationships, CompleteImport, Raise,
         FailImport, HandlerRaises
  <1>3. imports' \in [VersionIds -> {"UNFINISHED", "COMPLETED", "FAILED"}]
    BY DEF TypeOK, BuildRelationships, CompleteImport, RecordSuccess, Raise,
       FailImport, RecordFailure, HandlerRaises, EvaluateTrust
  <1>4. UNCHANGED <<dsv, clock, lastActivated, feedLock, tokens, managerLock, rb, used>>
    BY DEF BuildRelationships, CompleteImport, RecordSuccess, Raise,
       FailImport, RecordFailure, HandlerRaises, EvaluateTrust
  <1> QED
    BY <1>1, <1>2, <1>3, <1>4 DEF TypeOK


\* Steps that create a version or save its row.
LEMMA SaveTyped ==
  ASSUME TypeOK, NEW w \in Workers,
         \/ \E v \in VersionIds : CreateVersion(w, v)
         \/ ValidationPassed(w) \/ ValidationFailed(w) \/ StoreDataset(w)
         \/ SaveDuration(w) \/ FailVersion(w)
  PROVE  TypeOK'
  <1> USE DEF store, Unlocked
  <1>0. /\ sync[w] \in SyncFrame
        /\ sync[w].version \in VersionIds \cup {None}
        /\ sync[w].copy \in DatasetVersion
    BY DEF TypeOK, SyncFrame
  <1>1. {"created", "validated", "failing", "stored", "saved", "marked"} \subseteq Stage
    BY DEF Stage, Holding, Executing, Handling
  <1>2. ASSUME NEW v \in VersionIds, CreateVersion(w, v) PROVE TypeOK'
    <2> DEFINE row == [feed |-> sync[w].feed, status |-> "CREATED",
                       validation |-> "PENDING", imported_at |-> clock + 1,
                       activated_at |-> 0]
    <2>1. row \in DatasetVersion /\ clock + 1 \in Nat
      BY DEF TypeOK, SyncFrame, DatasetVersion, DatasetStatus, ValidationStatus
    <2>2. [sync[w] EXCEPT !.pc = "created", !.version = v, !.copy = row] \in SyncFrame
      BY <1>0, <1>1, <2>1, FrameUpdated
    <2>3. sync' \in [Workers -> SyncFrame]
      BY <1>2, <2>2 DEF TypeOK, CreateVersion
    <2>4. dsv' \in [VersionIds -> DatasetVersion]
      BY <1>2, <2>1 DEF TypeOK, CreateVersion
    <2> QED
      BY <1>2, <2>1, <2>3, <2>4 DEF TypeOK, CreateVersion
  <1>3. CASE ValidationPassed(w)
    <2>1. [sync[w].copy EXCEPT !.validation = "PASSED"] \in DatasetVersion
      BY <1>0 DEF DatasetVersion, ValidationStatus
    <2>2. [sync[w] EXCEPT !.pc = "validated",
                          !.copy = [sync[w].copy EXCEPT !.validation = "PASSED"]] \in SyncFrame
      BY <1>0, <1>1, <2>1, FrameUpdated
    <2>3. sync' = [sync EXCEPT ![w] = [sync[w] EXCEPT !.pc = "validated",
                          !.copy = [sync[w].copy EXCEPT !.validation = "PASSED"]]]
      BY <1>3 DEF ValidationPassed
    <2>4. sync' \in [Workers -> SyncFrame]
      BY <2>2, <2>3 DEF TypeOK
    <2> QED
      BY <1>3, <2>4 DEF TypeOK, ValidationPassed
  <1>4. CASE ValidationFailed(w)
    <2> DEFINE row == [sync[w].copy EXCEPT !.status = "FAILED", !.validation = "FAILED"]
    <2>1. row \in DatasetVersion
      BY <1>0 DEF DatasetVersion, DatasetStatus, ValidationStatus
    <2>2. [sync[w] EXCEPT !.pc = "failing", !.copy = row] \in SyncFrame
      BY <1>0, <1>1, <2>1, FrameUpdated
    <2>3. sync' \in [Workers -> SyncFrame]
      BY <1>4, <2>2 DEF TypeOK, ValidationFailed
    <2>4. dsv' \in [VersionIds -> DatasetVersion]
      BY <1>4, <2>1 DEF TypeOK, ValidationFailed, SaveVersion
    <2> QED
      BY <1>4, <2>3, <2>4 DEF TypeOK, ValidationFailed, SaveVersion
  <1>5. CASE StoreDataset(w)
    <2> DEFINE row == [sync[w].copy EXCEPT !.status = "STORED"]
    <2>1. row \in DatasetVersion
      BY <1>0 DEF DatasetVersion, DatasetStatus
    <2>2. [sync[w] EXCEPT !.pc = "stored", !.copy = row] \in SyncFrame
      BY <1>0, <1>1, <2>1, FrameUpdated
    <2>3. sync' \in [Workers -> SyncFrame]
      BY <1>5, <2>2 DEF TypeOK, StoreDataset
    <2>4. dsv' \in [VersionIds -> DatasetVersion]
      BY <1>5, <2>1 DEF TypeOK, StoreDataset, SaveVersion
    <2> QED
      BY <1>5, <2>3, <2>4 DEF TypeOK, StoreDataset, SaveVersion
  <1>6. CASE SaveDuration(w)
    <2>1. sync' \in [Workers -> SyncFrame]
      BY <1>1, <1>6, GotoTyped DEF SaveDuration
    <2>2. dsv' \in [VersionIds -> DatasetVersion]
      BY <1>0, <1>6 DEF TypeOK, SaveDuration, SaveVersion
    <2> QED
      BY <1>6, <2>1, <2>2 DEF TypeOK, SaveDuration, SaveVersion
  <1>7. CASE FailVersion(w)
    <2> DEFINE row == [sync[w].copy EXCEPT !.status = "FAILED"]
    <2>1. row \in DatasetVersion
      BY <1>0 DEF DatasetVersion, DatasetStatus
    <2>2. [sync[w] EXCEPT !.pc = "marked", !.copy = row] \in SyncFrame
      BY <1>0, <1>1, <2>1, FrameUpdated
    <2>3. sync' \in [Workers -> SyncFrame]
      BY <1>7, <2>2 DEF TypeOK, FailVersion
    <2>4. dsv' \in [VersionIds -> DatasetVersion]
      BY <1>7, <2>1 DEF TypeOK, FailVersion, SaveVersion
    <2> QED
      BY <1>7, <2>3, <2>4 DEF TypeOK, FailVersion, SaveVersion
  <1> QED
    BY <1>2, <1>3, <1>4, <1>5, <1>6, <1>7

\* Steps that may activate the version of a sync.
LEMMA ActivationTyped ==
  ASSUME TypeOK, NEW w \in Workers, VersionNamed(w),
         ActivateVersion(w) \/ ActivationFails(w) \/ OnActivate(w) \/ OnRollback(w)
  PROVE  TypeOK'
  <1> USE DEF Unlocked
  <1>0. /\ sync[w] \in SyncFrame
        /\ sync[w].version \in VersionIds \cup {None}
    BY DEF TypeOK, SyncFrame
  <1>1. {"activated", "failing", "notified", "undone"} \subseteq Stage
    BY DEF Stage, Holding, Executing, Handling
  <1>2. /\ dsv' \in [VersionIds -> DatasetVersion]
        /\ clock' \in Nat
        /\ lastActivated' \in [Feeds -> VersionIds \cup {None}]
    <2>1. \/ SetActive(sync[w].feed, sync[w].version)
          \/ UNCHANGED <<dsv, clock, lastActivated>>
      BY DEF ActivateVersion, ActivationFails, OnActivate, OnRollback
    <2> QED
      BY <1>0, <2>1, SetActiveTyped DEF TypeOK
  <1>3. sync' \in [Workers -> SyncFrame]
    <2>1. CASE ActivateVersion(w)
      <3>1. sync[w].version \in VersionIds
        BY <2>1 DEF ActivateVersion, At, VersionNamed, Versioned, Executing
      <3>2. dsv'[sync[w].version] \in DatasetVersion
        BY <1>2, <3>1
      <3>3. [sync[w] EXCEPT !.pc = "activated", !.copy = dsv'[sync[w].version]] \in SyncFrame
        BY <1>0, <1>1, <3>2, FrameUpdated
      <3> QED
        BY <2>1, <3>3 DEF TypeOK, ActivateVersion
    <2>2. CASE ActivationFails(w)
      BY <1>1, <2>2, GotoTyped DEF ActivationFails
    <2>3. CASE OnActivate(w)
      BY <1>1, <2>3, GotoTyped DEF OnActivate
    <2>4. CASE OnRollback(w)
      BY <1>1, <2>4, GotoTyped DEF OnRollback
    <2> QED
      BY <2>1, <2>2, <2>3, <2>4
  <1>4. UNCHANGED <<imports, health, feedLock, tokens, managerLock, rb, used>>
    BY DEF ActivateVersion, ActivationFails, OnActivate, OnRollback
  <1> QED
    BY <1>2, <1>3, <1>4 DEF TypeOK


\* Steps of the operators, cancellations and restarts.
LEMMA OutsideTyped ==
  ASSUME TypeOK, ConstantsAssumption,
         \/ \E f \in Feeds : Cancel(f)
         \/ \E o \in Operators, f \in Feeds :
              \E requested, current, target \in VersionIds \cup {None} :
                 Rollback(o, f, requested, current, target)
         \/ \E o \in Operators : OperatorStep(o)
         \/ Restart
         \/ UNCHANGED vars
  PROVE  TypeOK'
  <1> USE DEF store
  <1>1. ASSUME NEW f \in Feeds, Cancel(f) PROVE TypeOK'
    <2>1. ASSUME NEW w \in Workers PROVE sync'[w] \in SyncFrame
      <3>1. sync[w] \in SyncFrame
        BY DEF TypeOK
      <3>2. [sync[w] EXCEPT !.asked = TRUE] \in SyncFrame
        BY <3>1 DEF SyncFrame
      <3> QED
        BY <1>1, <3>1, <3>2 DEF Cancel
    <2>2. sync' \in [Workers -> SyncFrame]
      BY <1>1, <2>1 DEF Cancel
    <2>3. used' \in [syncs : Nat, rollbacks : Nat, cancels : Nat, restarts : Nat]
      BY <1>1, CallCounted DEF TypeOK, Cancel
    <2>4. tokens' \subseteq Feeds
      BY <1>1 DEF TypeOK, Cancel
    <2> QED
      BY <1>1, <2>2, <2>3, <2>4 DEF TypeOK, Cancel
  <1>2. ASSUME NEW o \in Operators, NEW f \in Feeds,
               NEW requested \in VersionIds \cup {None},
               NEW current \in VersionIds \cup {None},
               NEW target \in VersionIds \cup {None},
               Rollback(o, f, requested, current, target)
        PROVE  TypeOK'
    <2> DEFINE frame == [pc |-> IF current = None THEN "activating" ELSE "marking",
                         feed |-> f, current |-> current,
                         copy |-> IF current = None THEN NoRow ELSE dsv[current],
                         target |-> target, explicit |-> requested # None]
    <2>1. (IF current = None THEN NoRow ELSE dsv[current]) \in DatasetVersion
      BY EmptyFrames DEF TypeOK
    <2>2. frame \in RollbackFrame
      BY <2>1 DEF RollbackFrame
    <2>3. rb' \in [Operators -> RollbackFrame]
      BY <1>2, <2>2 DEF TypeOK, Rollback
    <2>4. used' \in [syncs : Nat, rollbacks : Nat, cancels : Nat, restarts : Nat]
      BY <1>2, CallCounted DEF TypeOK, Rollback
    <2> QED
      BY <1>2, <2>3, <2>4 DEF TypeOK, Rollback
  <1>3. ASSUME NEW o \in Operators, OperatorStep(o) PROVE TypeOK'
    <2>0. /\ rb[o] \in RollbackFrame /\ rb[o].copy \in DatasetVersion
          /\ rb[o].target \in VersionIds \cup {None}
      BY DEF TypeOK, RollbackFrame
    <2>1. CASE MarkRolledBack(o)
      <3>1. [rb[o].copy EXCEPT !.status = "ROLLED_BACK"] \in DatasetVersion
        BY <2>0 DEF DatasetVersion, DatasetStatus
      <3>2. dsv' \in [VersionIds -> DatasetVersion]
        BY <2>1, <3>1 DEF TypeOK, MarkRolledBack, SaveVersion
      <3>3. [rb[o] EXCEPT !.pc = "activating"] \in RollbackFrame
        BY <2>0 DEF RollbackFrame
      <3>4. rb' \in [Operators -> RollbackFrame]
        BY <2>1, <3>3 DEF TypeOK, MarkRolledBack
      <3> QED
        BY <2>1, <3>2, <3>4 DEF TypeOK, MarkRolledBack, SaveVersion
    <2>2. CASE ActivateTarget(o)
      <3>1. /\ dsv' \in [VersionIds -> DatasetVersion]
            /\ clock' \in Nat
            /\ lastActivated' \in [Feeds -> VersionIds \cup {None}]
        BY <2>0, <2>2, SetActiveTyped DEF ActivateTarget
      <3>2. rb' \in [Operators -> RollbackFrame]
        BY <2>2, EmptyFrames DEF TypeOK, ActivateTarget
      <3> QED
        BY <2>2, <3>1, <3>2 DEF TypeOK, ActivateTarget
    <2>3. CASE RollbackFails(o)
      BY <2>3, EmptyFrames DEF TypeOK, RollbackFails
    <2> QED
      BY <1>3, <2>1, <2>2, <2>3 DEF OperatorStep
  <1>4. CASE Restart
    <2>1. used' \in [syncs : Nat, rollbacks : Nat, cancels : Nat, restarts : Nat]
      BY <1>4, CallCounted DEF TypeOK, Restart
    <2>2. sync' \in [Workers -> SyncFrame] /\ rb' \in [Operators -> RollbackFrame]
      BY <1>4, EmptyFrames DEF Restart
    <2> QED
      BY <1>4, <2>1, <2>2 DEF TypeOK, Restart
  <1>5. CASE UNCHANGED vars
    BY <1>5 DEF TypeOK, vars
  <1> QED
    BY <1>1, <1>2, <1>3, <1>4, <1>5

-----------------------------------------------------------------------------
(* A sync that saves, activates or fails a version has one. *)

LEMMA OthersNamed ==
  ASSUME TypeOK, NEW w \in Workers, NEW x \in Workers, VersionNamed(x), x # w,
         NEW fr, sync' = [sync EXCEPT ![w] = fr]
  PROVE  VersionNamed(x)'
  BY DEF VersionNamed, TypeOK

LEMMA GotoNamed ==
  ASSUME TypeOK, NEW w \in Workers, NEW x \in Workers, VersionNamed(x),
         NEW s, Goto(w, s), s \in Versioned => sync[w].pc \in Versioned
  PROVE  VersionNamed(x)'
  <1>1. sync[w] \in SyncFrame
    BY DEF TypeOK
  <1>2. /\ [sync[w] EXCEPT !.pc = s].pc = s
        /\ [sync[w] EXCEPT !.pc = s].version = sync[w].version
    BY <1>1 DEF SyncFrame
  <1>3. sync'[x] = IF x = w THEN [sync[w] EXCEPT !.pc = s] ELSE sync[x]
    BY DEF TypeOK, Goto
  <1> QED
    BY <1>2, <1>3 DEF VersionNamed

LEMMA VersionKept ==
  ASSUME TypeOK, NEW x \in Workers, VersionNamed(x), Next
  PROVE  VersionNamed(x)'
  <1> USE DEF store, Unlocked
  <1>1. ASSUME NEW w \in Workers, WorkerStep(w)
        PROVE  VersionNamed(x)'
    <2>0. sync[w] \in SyncFrame /\ sync \in [Workers -> SyncFrame]
      BY DEF TypeOK
    <2>1. CASE \/ Acquire(w) \/ DiscardToken(w) \/ RecordFailure(w) \/ HandlerRaises(w)
      <3>1. \E s \in {"acquired", "ready", "backoff"} : Goto(w, s)
        BY <2>1 DEF Acquire, DiscardToken, RecordFailure, HandlerRaises
      <3> QED
        BY <3>1, GotoNamed DEF Versioned, Executing
    <2>8. CASE Raise(w)
      <3>1. CASE Goto(w, "failing")
        BY <3>1, GotoNamed DEF Versioned, Executing
      <3>2. CASE sync' = [sync EXCEPT ![w].pc = "failing", ![w].copy.validation = "FAILED"]
        <4> DEFINE fr == [sync[w] EXCEPT !.pc = "failing", !.copy.validation = "FAILED"]
        <4>1. fr.pc = "failing"
          BY <2>0 DEF SyncFrame
        <4>2. sync' = [sync EXCEPT ![w] = fr]
          BY <3>2
        <4> HIDE DEF fr
        <4> QED
          BY <2>0, <4>1, <4>2, OthersNamed DEF VersionNamed, Versioned, Executing
      <3> QED
        BY <2>8, <3>1, <3>2 DEF Raise
    <2>2. CASE \/ BuildRelationships(w) \/ ActivationFails(w) \/ OnActivate(w)
               \/ SaveDuration(w) \/ CompleteImport(w) \/ RecordSuccess(w) \/ OnRollback(w)
               \/ \E passed \in BOOLEAN : EvaluateTrust(w, passed)
      <3>1. sync[w].pc \in Versioned
        BY <2>2 DEF BuildRelationships, ActivationFails, OnActivate, SaveDuration,
           CompleteImport, RecordSuccess, OnRollback, EvaluateTrust, At, Versioned, Executing
      <3>2. \E s : Goto(w, s)
        BY <2>2 DEF BuildRelationships, ActivationFails, OnActivate, SaveDuration,
           CompleteImport, RecordSuccess, OnRollback, EvaluateTrust
      <3> QED
        BY <3>1, <3>2, GotoNamed
    <2>3. CASE \/ AlreadyInProgress(w) \/ StopCancelled(w) \/ GiveUp(w) \/ Succeed(w)
      <3>1. sync' = [sync EXCEPT ![w] = NoSync]
        BY <2>3 DEF AlreadyInProgress, StopCancelled, GiveUp, Succeed, Return
      <3>2. NoSync.pc \notin Versioned
        BY DEF NoSync, Versioned, Executing
      <3> QED
        BY <2>0, <3>1, <3>2, OthersNamed DEF VersionNamed
    <2>4. CASE StartAttempt(w) \/ Retry(w)
      <3>1. \E fr : sync' = [sync EXCEPT ![w] = fr] /\ fr.pc \in {"fetching", "ready"}
        BY <2>0, <2>4 DEF StartAttempt, Retry, SyncFrame
      <3> QED
        BY <2>0, <3>1, OthersNamed DEF VersionNamed, Versioned, Executing
    <2>5. ASSUME NEW v \in VersionIds, CreateVersion(w, v)
          PROVE  VersionNamed(x)'
      <3> DEFINE row == [feed |-> sync[w].feed, status |-> "CREATED",
                         validation |-> "PENDING", imported_at |-> clock + 1,
                         activated_at |-> 0]
                 fr == [sync[w] EXCEPT !.pc = "created", !.version = v, !.copy = row]
      <3>1. fr.version = v
        BY <2>0 DEF SyncFrame
      <3>2. sync' = [sync EXCEPT ![w] = fr]
        BY <2>0, <2>5 DEF CreateVersion
      <3> QED
        BY <2>0, <3>1, <3>2, OthersNamed DEF VersionNamed
    <2>6. CASE ValidationPassed(w) \/ ValidationFailed(w) \/ StoreDataset(w)
               \/ ActivateVersion(w) \/ FailVersion(w)
      <3>1. sync[w].pc \in Versioned
        BY <2>6 DEF ValidationPassed, ValidationFailed, StoreDataset, ActivateVersion,
           FailVersion, At, Versioned, Executing
      <3>2. \E fr : sync' = [sync EXCEPT ![w] = fr] /\ fr.version = sync[w].version
        BY <2>0, <2>6 DEF ValidationPassed, ValidationFailed, StoreDataset,
           ActivateVersion, FailVersion, SyncFrame
      <3> QED
        BY <2>0, <3>1, <3>2, OthersNamed DEF VersionNamed
    <2>7. CASE FailImport(w)
      <3>1. CASE sync[w].version = None
        BY <2>7, <3>1, GotoNamed DEF FailImport, Versioned, Executing
      <3>2. CASE sync[w].version # None
        <4>1. sync[w].version \in VersionIds
          BY <2>0, <3>2 DEF SyncFrame
        <4>2. \E fr : sync' = [sync EXCEPT ![w] = fr] /\ fr.version = sync[w].version
          BY <2>0, <2>7, <3>2 DEF FailImport, Goto, SyncFrame
        <4> QED
          BY <2>0, <4>1, <4>2, OthersNamed DEF VersionNamed
      <3> QED
        BY <3>1, <3>2
    <2> QED
      BY <1>1, <2>1, <2>2, <2>3, <2>4, <2>5, <2>6, <2>7, <2>8 DEF WorkerStep
  <1>2. ASSUME NEW w \in Workers, NEW f \in Feeds, Trigger(w, f)
        PROVE  VersionNamed(x)'
    <2> DEFINE fr == [NoSync EXCEPT !.pc = "checked", !.feed = f]
    <2>1. sync' = [sync EXCEPT ![w] = fr]
      BY <1>2 DEF Trigger
    <2>2. fr.pc = "checked"
      BY DEF NoSync
    <2> QED
      BY <2>1, <2>2, OthersNamed DEF VersionNamed, Versioned, Executing, TypeOK
  <1>3. ASSUME NEW f \in Feeds, Cancel(f)
        PROVE  VersionNamed(x)'
    <2>1. sync[x] \in SyncFrame
      BY DEF TypeOK
    <2>2. sync'[x].pc = sync[x].pc /\ sync'[x].version = sync[x].version
      BY <1>3, <2>1 DEF Cancel, SyncFrame
    <2> QED
      BY <2>2 DEF VersionNamed
  <1>4. CASE Restart
    BY <1>4 DEF Restart, NoSync, VersionNamed, Versioned, Executing
  <1>5. CASE UNCHANGED sync
    BY <1>5 DEF VersionNamed
  <1> QED
    BY <1>1, <1>2, <1>3, <1>4, <1>5 DEF Next, OperatorStep, MarkRolledBack,
       ActivateTarget, RollbackFails, Rollback, Quiescent, vars

\* Whatever the plugins and the database do, every row, frame, lock and record of
\* the ingestion stays in its type: the handler never saves a version that was
\* never created.
THEOREM TypeCorrect == Spec => []TypeOK
  <1> DEFINE Named == \A w \in Workers : VersionNamed(w)
             IInv == TypeOK /\ Named
  <1> USE ConstantsAssumption
  <1>1. Init => IInv
    <2> SUFFICES ASSUME Init PROVE IInv
      OBVIOUS
    <2>1. TypeOK
      BY EmptyFrames DEF Init, TypeOK
    <2>2. Named
      BY DEF Init, VersionNamed, NoSync, Versioned, Executing
    <2> QED
      BY <2>1, <2>2
  <1>2. IInv /\ [Next]_vars => IInv'
    <2> SUFFICES ASSUME IInv, [Next]_vars PROVE IInv'
      OBVIOUS
    <2>1. CASE Next
      <3>1. Named'
        BY <2>1, VersionKept
      <3>2. ASSUME NEW w \in Workers, WorkerStep(w) PROVE TypeOK'
        BY <3>2, CallTyped, RecordTyped, SaveTyped, ActivationTyped DEF WorkerStep
      <3>3. TypeOK'
        BY <2>1, <3>2, CallTyped, OutsideTyped DEF Next, Quiescent
      <3> QED
        BY <3>1, <3>3
    <2>2. CASE UNCHANGED vars
      BY <2>2, OutsideTyped DEF vars, VersionNamed
    <2> QED
      BY <2>1, <2>2
  <1> QED
    BY <1>1, <1>2, PTL DEF Spec

-----------------------------------------------------------------------------
(* One ACTIVE version per feed, as long as nobody rolls back *)

\* What the feed's lock gives a sync: it owns its feed and its version, and an
\* object it still holds as ACTIVE is the feed's last activation.
Sound(w) ==
    LET s == sync[w]
    IN  /\ s.pc # "idle" => s.feed \in Feeds
        /\ s.pc \in Holding => feedLock[s.feed] = w
        /\ (s.pc \in Executing \cup Handling /\ s.version \in VersionIds)
             => /\ dsv[s.version].feed = s.feed
                /\ s.copy.feed = s.feed
                /\ s.copy.status # "ABSENT"
        /\ (s.pc \in Executing /\ s.copy.status = "ACTIVE")
             => lastActivated[s.feed] = s.version

RowsOwned == \A v \in VersionIds : dsv[v].feed = None <=> dsv[v].status = "ABSENT"

OnlyLastActive ==
    \A v \in VersionIds :
        dsv[v].status = "ACTIVE" => lastActivated[dsv[v].feed] = v

ServiceInv == /\ TypeOK
              /\ \A w \in Workers : VersionNamed(w) /\ Sound(w)
              /\ RowsOwned
              /\ OnlyLastActive

\* What a step of worker w leaves to the others: their frames, the locks they
\* hold, the owner of every version, and the activations of their feeds.
Respectful(w) ==
    /\ \E fr : sync' = [sync EXCEPT ![w] = fr]
    /\ \A f \in Feeds : feedLock[f] \notin {w, None} => feedLock'[f] = feedLock[f]
    /\ \A v \in VersionIds : dsv[v].feed \in Feeds => dsv'[v].feed = dsv[v].feed
    /\ \A f \in Feeds : lastActivated'[f] # lastActivated[f]
                          => feedLock[f] = w /\ lastActivated'[f] = sync[w].version

LEMMA OthersSound ==
  ASSUME ConstantsAssumption, TypeOK, NEW w \in Workers, NEW x \in Workers, x # w,
         Sound(x), Respectful(w)
  PROVE  Sound(x)'
  <1>1. sync'[x] = sync[x]
    BY DEF Respectful, TypeOK
  <1>2. CASE sync[x].pc = "idle"
    BY <1>1, <1>2 DEF Sound, Holding, Executing, Handling
  <1>3. CASE sync[x].pc # "idle"
    <2> DEFINE s == sync[x]
    <2>1. s.feed \in Feeds /\ sync'[x] = s
      BY <1>1, <1>3 DEF Sound
    <2>2. s.pc \in Holding => feedLock[s.feed] = x /\ feedLock'[s.feed] = x
      BY <2>1 DEF Sound, Respectful, ConstantsAssumption
    <2>3. s.pc \in Executing \cup Handling => s.pc \in Holding
      BY DEF Holding
    <2>4. s.pc \in Holding => lastActivated'[s.feed] = lastActivated[s.feed]
      BY <2>1, <2>2 DEF Respectful
    <2>5. (s.pc \in Executing \cup Handling /\ s.version \in VersionIds)
             => dsv'[s.version].feed = s.feed
      BY <2>1 DEF Sound, Respectful
    <2> HIDE DEF s
    <2>6. /\ (s.pc \in Executing \cup Handling /\ s.version \in VersionIds)
               => s.copy.feed = s.feed /\ s.copy.status # "ABSENT"
          /\ (s.pc \in Executing /\ s.copy.status = "ACTIVE")
               => lastActivated[s.feed] = s.version
      BY DEF Sound, s
    <2> QED
      BY <2>1, <2>2, <2>3, <2>4, <2>5, <2>6 DEF Sound
  <1> QED
    BY <1>2, <1>3

LEMMA GotoSound ==
  ASSUME TypeOK, NEW w \in Workers, Sound(w), NEW s, Goto(w, s), Respectful(w),
         sync[w].pc # "idle", s # "idle", feedLock' = feedLock,
         s \in Holding => sync[w].pc \in Holding,
         s \in Executing \cup Handling => sync[w].pc \in Executing \cup Handling,
         s \in Executing => sync[w].pc \in Executing
  PROVE  Sound(w)'
  <1> DEFINE old == sync[w]
             new == [sync[w] EXCEPT !.pc = s]
  <1>1. old \in SyncFrame /\ sync'[w] = new
    BY DEF TypeOK, Goto
  <1>2. /\ new.pc = s /\ new.feed = old.feed /\ new.version = old.version
        /\ new.copy = old.copy
    BY <1>1 DEF SyncFrame
  <1> HIDE DEF new
  <1>3. old.feed \in Feeds
    BY DEF Sound
  <1>4. lastActivated'[old.feed] \in {lastActivated[old.feed], old.version}
    BY <1>3 DEF Respectful
  <1>5. (s \in Executing \cup Handling /\ old.version \in VersionIds)
             => dsv'[old.version].feed = old.feed
    BY <1>3 DEF Sound, Respectful
  <1> QED
    BY <1>1, <1>2, <1>3, <1>4, <1>5 DEF Sound

-----------------------------------------------------------------------------

\* Steps that touch no version.
LEMMA CallSound ==
  ASSUME ConstantsAssumption, TypeOK, NEW w \in Workers, Sound(w),
         \/ \E f \in Feeds : Trigger(w, f)
         \/ Acquire(w) \/ AlreadyInProgress(w) \/ DiscardToken(w) \/ StopCancelled(w)
         \/ StartAttempt(w) \/ Retry(w) \/ GiveUp(w) \/ Succeed(w)
         \/ BuildRelationships(w) \/ CompleteImport(w) \/ RecordSuccess(w) \/ Raise(w)
         \/ FailImport(w) \/ RecordFailure(w) \/ HandlerRaises(w) \/ ValidationPassed(w)
         \/ \E passed \in BOOLEAN : EvaluateTrust(w, passed)
  PROVE  Respectful(w) /\ Sound(w)' /\ UNCHANGED <<dsv, lastActivated>>
  <1> USE DEF store, Unlocked
  <1>0. /\ sync \in [Workers -> SyncFrame] /\ sync[w] \in SyncFrame
        /\ feedLock \in [Feeds -> Workers \cup {None}]
    BY DEF TypeOK
  <1>1. UNCHANGED <<dsv, lastActivated>>
    BY DEF Trigger, Acquire, AlreadyInProgress, DiscardToken, StopCancelled,
       StartAttempt, Retry, GiveUp, Succeed, BuildRelationships, CompleteImport,
       RecordSuccess, Raise, FailImport, RecordFailure, HandlerRaises,
       ValidationPassed, EvaluateTrust
  <1>2. ASSUME NEW f \in Feeds, Trigger(w, f) PROVE Respectful(w) /\ Sound(w)'
    <2> DEFINE fr == [NoSync EXCEPT !.pc = "checked", !.feed = f]
    <2>1. sync' = [sync EXCEPT ![w] = fr] /\ UNCHANGED feedLock
      BY <1>2 DEF Trigger
    <2>2. fr.pc = "checked" /\ fr.feed = f
      BY DEF NoSync
    <2> HIDE DEF fr
    <2> QED
      BY <1>0, <1>1, <2>1, <2>2 DEF Respectful, Sound, Holding, Executing, Handling
  <1>3. CASE Acquire(w)
    <2> DEFINE fr == [sync[w] EXCEPT !.pc = "acquired"]
    <2>1. /\ sync' = [sync EXCEPT ![w] = fr] /\ sync[w].pc = "checked"
          /\ feedLock[sync[w].feed] = None
          /\ feedLock' = [feedLock EXCEPT ![sync[w].feed] = w]
      BY <1>3 DEF Acquire, Goto, At
    <2>2. fr.pc = "acquired" /\ fr.feed = sync[w].feed
      BY <1>0 DEF SyncFrame
    <2> HIDE DEF fr
    <2>3. sync[w].feed \in Feeds
      BY <2>1 DEF Sound
    <2>4. Respectful(w)
      BY <1>0, <1>1, <2>1, <2>3 DEF Respectful
    <2>5. sync'[w] = fr /\ feedLock'[sync[w].feed] = w
      BY <1>0, <2>1, <2>3
    <2>6. "acquired" \notin Executing \cup Handling
      BY DEF Executing, Handling
    <2> QED
      BY <1>1, <2>2, <2>3, <2>4, <2>5, <2>6 DEF Sound
  <1>4. CASE AlreadyInProgress(w) \/ StopCancelled(w) \/ GiveUp(w) \/ Succeed(w)
    <2>1. sync' = [sync EXCEPT ![w] = NoSync]
      BY <1>4 DEF AlreadyInProgress, StopCancelled, GiveUp, Succeed, Return
    <2>2. Sound(w)'
      BY <1>0, <2>1 DEF Sound, NoSync, Holding, Executing, Handling
    <2>3. \/ UNCHANGED feedLock
          \/ /\ sync[w].pc \in Holding
             /\ feedLock' = [feedLock EXCEPT ![sync[w].feed] = None]
      BY <1>4 DEF AlreadyInProgress, StopCancelled, GiveUp, Succeed, Return, At,
         Holding, Executing
    <2>4. \A f \in Feeds : feedLock[f] \notin {w, None} => feedLock'[f] = feedLock[f]
      BY <1>0, <2>3 DEF Sound
    <2> QED
      BY <1>1, <2>1, <2>2, <2>4 DEF Respectful
  <1>5. CASE StartAttempt(w) \/ Retry(w)
    <2>1. sync[w].feed \in Feeds /\ feedLock[sync[w].feed] = w
      BY <1>5 DEF StartAttempt, Retry, At, Sound, Holding
    <2>2. UNCHANGED feedLock
      BY <1>5 DEF StartAttempt, Retry
    <2>3. CASE StartAttempt(w)
      <3> DEFINE fr == [sync[w] EXCEPT !.pc = "fetching", !.version = None, !.copy = NoRow]
      <3>1. sync' = [sync EXCEPT ![w] = fr]
        BY <2>3 DEF StartAttempt
      <3>2. fr.feed = sync[w].feed /\ fr.version = None /\ fr.copy = NoRow
        BY <1>0 DEF SyncFrame
      <3> HIDE DEF fr
      <3>3. None \notin VersionIds /\ NoRow.status # "ACTIVE"
        BY DEF ConstantsAssumption, NoRow
      <3> QED
        BY <1>0, <1>1, <2>1, <2>2, <3>1, <3>2, <3>3 DEF Respectful, Sound
    <2>4. CASE Retry(w)
      <3> DEFINE fr == [sync[w] EXCEPT !.pc = "ready", !.attempt = @ + 1]
      <3>1. sync' = [sync EXCEPT ![w] = fr]
        BY <2>4 DEF Retry
      <3>2. fr.feed = sync[w].feed /\ fr.pc = "ready"
        BY <1>0 DEF SyncFrame
      <3> HIDE DEF fr
      <3> QED
        BY <1>0, <1>1, <2>1, <2>2, <3>1, <3>2 DEF Respectful, Sound, Executing, Handling
    <2> QED
      BY <1>5, <2>3, <2>4
  <1>6. CASE \/ DiscardToken(w) \/ RecordFailure(w) \/ HandlerRaises(w)
             \/ Raise(w) /\ Goto(w, "failing")
             \/ BuildRelationships(w) \/ CompleteImport(w) \/ RecordSuccess(w)
             \/ FailImport(w) \/ \E passed \in BOOLEAN : EvaluateTrust(w, passed)
    <2>1. /\ UNCHANGED feedLock
          /\ \E s : /\ Goto(w, s)
                    /\ sync[w].pc \in Holding /\ s # "idle"
                    /\ s \in Executing \cup Handling
                         => sync[w].pc \in Executing \cup Handling
                    /\ s \in Executing => sync[w].pc \in Executing
      <3>1. CASE DiscardToken(w)
        BY <3>1 DEF DiscardToken, At, Holding, Executing, Handling
      <3>2. CASE (Raise(w) /\ Goto(w, "failing")) \/ RecordFailure(w) \/ HandlerRaises(w)
        BY <3>2 DEF Raise, RecordFailure, HandlerRaises, At, Holding, Executing, Handling
      <3>3. CASE BuildRelationships(w) \/ CompleteImport(w) \/ RecordSuccess(w)
        BY <3>3 DEF BuildRelationships, CompleteImport, RecordSuccess, At,
           Holding, Executing, Handling
      <3>4. CASE FailImport(w)
        BY <3>4 DEF FailImport, At, Holding, Executing, Handling
      <3>5. CASE \E passed \in BOOLEAN : EvaluateTrust(w, passed)
        BY <3>5 DEF EvaluateTrust, At, Holding, Executing, Handling
      <3> QED
        BY <1>6, <3>1, <3>2, <3>3, <3>4, <3>5
    <2>2. Respectful(w)
      BY <1>1, <2>1 DEF Respectful, Goto
    <2>3. sync[w].pc # "idle"
      BY <2>1 DEF Holding, Executing, Handling
    <2>4. PICK s : /\ Goto(w, s)
                   /\ sync[w].pc \in Holding /\ s # "idle"
                   /\ s \in Executing \cup Handling
                        => sync[w].pc \in Executing \cup Handling
                   /\ s \in Executing => sync[w].pc \in Executing
      BY <2>1
    <2>5. Sound(w)'
      BY <2>1, <2>2, <2>3, <2>4, GotoSound
    <2> QED
      BY <1>1, <2>2, <2>5
  <1>7. CASE ValidationPassed(w)
    <2> DEFINE row == [sync[w].copy EXCEPT !.validation = "PASSED"]
               fr == [sync[w] EXCEPT !.pc = "validated", !.copy = row]
    <2>0. UNCHANGED feedLock
      BY <1>7 DEF ValidationPassed
    <2>1. sync' = [sync EXCEPT ![w] = fr]
      BY <1>7 DEF ValidationPassed
    <2>2. /\ fr.feed = sync[w].feed /\ fr.version = sync[w].version
          /\ fr.copy.feed = sync[w].copy.feed /\ fr.copy.status = sync[w].copy.status
      BY <1>0 DEF SyncFrame, DatasetVersion
    <2> HIDE DEF fr
    <2>3. sync[w].pc \in Executing /\ sync[w].pc \in Holding /\ sync[w].pc # "idle"
      BY <1>7 DEF ValidationPassed, At, Executing, Holding
    <2> QED
      BY <1>0, <1>1, <2>0, <2>1, <2>2, <2>3 DEF Respectful, Sound
  <1>8. CASE /\ Raise(w)
             /\ sync' = [sync EXCEPT ![w].pc = "failing", ![w].copy.validation = "FAILED"]
    <2> DEFINE row == [sync[w].copy EXCEPT !.validation = "FAILED"]
               fr == [sync[w] EXCEPT !.pc = "failing", !.copy = row]
    <2>0. UNCHANGED feedLock
      BY <1>8 DEF Raise
    <2>1. sync' = [sync EXCEPT ![w] = fr]
      BY <1>8
    <2>2. /\ fr.feed = sync[w].feed /\ fr.version = sync[w].version
          /\ fr.copy.feed = sync[w].copy.feed /\ fr.copy.status = sync[w].copy.status
      BY <1>0 DEF SyncFrame, DatasetVersion
    <2> HIDE DEF fr
    <2>3. sync[w].pc \in Executing /\ sync[w].pc \in Holding /\ sync[w].pc # "idle"
      BY <1>8 DEF Raise, Executing, Holding
    <2> QED
      BY <1>0, <1>1, <2>0, <2>1, <2>2, <2>3 DEF Respectful, Sound
  <1> QED
    BY <1>1, <1>2, <1>3, <1>4, <1>5, <1>6, <1>7, <1>8 DEF Raise

\* Saving a row for the owner of the version keeps the tables in order, provided
\* an ACTIVE row is the feed's last activation.
LEMMA SaveKeepsTables ==
  ASSUME ConstantsAssumption, TypeOK, RowsOwned, OnlyLastActive,
         NEW v \in VersionIds, NEW row, dsv' = [dsv EXCEPT ![v] = row],
         UNCHANGED lastActivated,
         row.feed \in Feeds, row.status # "ABSENT",
         row.status = "ACTIVE" => lastActivated[row.feed] = v
  PROVE  RowsOwned' /\ OnlyLastActive'
  <1>1. \A u \in VersionIds : dsv'[u] = IF u = v THEN row ELSE dsv[u]
    BY DEF TypeOK
  <1>2. row.feed # None
    BY DEF ConstantsAssumption
  <1>3. RowsOwned'
    BY <1>1, <1>2 DEF RowsOwned
  <1>4. OnlyLastActive'
    BY <1>1 DEF OnlyLastActive
  <1> QED
    BY <1>3, <1>4

\* Steps that create a version or save its row.
LEMMA SaveSound ==
  ASSUME ConstantsAssumption, TypeOK, NEW w \in Workers, VersionNamed(w), Sound(w),
         RowsOwned, OnlyLastActive,
         \/ \E v \in VersionIds : CreateVersion(w, v)
         \/ ValidationFailed(w) \/ StoreDataset(w) \/ SaveDuration(w) \/ FailVersion(w)
  PROVE  Respectful(w) /\ Sound(w)' /\ RowsOwned' /\ OnlyLastActive'
  <1> USE DEF Unlocked
  <1>0. /\ sync \in [Workers -> SyncFrame] /\ sync[w] \in SyncFrame
        /\ sync[w].copy \in DatasetVersion
        /\ dsv \in [VersionIds -> DatasetVersion]
    BY DEF TypeOK, SyncFrame
  <1>1. UNCHANGED <<feedLock, lastActivated>>
    BY DEF CreateVersion, ValidationFailed, StoreDataset, SaveDuration, FailVersion,
       SaveVersion
  <1>2. /\ sync[w].pc \in Executing \cup Handling /\ sync[w].pc \in Holding
        /\ sync[w].pc # "idle"
    BY DEF CreateVersion, ValidationFailed, StoreDataset, SaveDuration, FailVersion,
       At, Executing, Handling, Holding
  <1>3. sync[w].feed \in Feeds /\ feedLock[sync[w].feed] = w /\ sync[w].feed # None
    BY <1>2 DEF Sound, ConstantsAssumption
  <1>4. ASSUME NEW v \in VersionIds, CreateVersion(w, v)
        PROVE  Respectful(w) /\ Sound(w)' /\ RowsOwned' /\ OnlyLastActive'
    <2> DEFINE row == [feed |-> sync[w].feed, status |-> "CREATED",
                       validation |-> "PENDING", imported_at |-> clock + 1,
                       activated_at |-> 0]
               fr == [sync[w] EXCEPT !.pc = "created", !.version = v, !.copy = row]
    <2>1. sync' = [sync EXCEPT ![w] = fr]
      BY <1>4 DEF CreateVersion
    <2>2. dsv' = [dsv EXCEPT ![v] = row] /\ dsv[v].status = "ABSENT"
      BY <1>4 DEF CreateVersion
    <2>3. /\ fr.pc = "created" /\ fr.feed = sync[w].feed /\ fr.version = v
          /\ fr.copy = row /\ row.feed = sync[w].feed /\ row.status = "CREATED"
      BY <1>0 DEF SyncFrame
    <2> HIDE DEF fr, row
    <2>4. RowsOwned' /\ OnlyLastActive'
      BY <1>1, <1>3, <2>2, <2>3, SaveKeepsTables
    <2>5. dsv[v].feed \notin Feeds
      BY <2>2 DEF RowsOwned, ConstantsAssumption
    <2>6. Respectful(w)
      BY <1>0, <1>1, <2>1, <2>2, <2>5 DEF Respectful
    <2>7. sync'[w] = fr /\ dsv'[v] = row
      BY <1>0, <2>1, <2>2
    <2>8. Sound(w)'
      BY <1>1, <1>3, <2>3, <2>7 DEF Sound
    <2> QED
      BY <2>4, <2>6, <2>8
  <1>5. ASSUME NEW row, NEW stage, dsv' = [dsv EXCEPT ![sync[w].version] = row],
               sync[w].pc \in Versioned,
               row.feed = sync[w].copy.feed, row.status # "ABSENT",
               row.status = "ACTIVE" => lastActivated[sync[w].feed] = sync[w].version,
               sync' = [sync EXCEPT ![w] = [sync[w] EXCEPT !.pc = stage, !.copy = row]],
               stage # "idle"
        PROVE  Respectful(w) /\ Sound(w)' /\ RowsOwned' /\ OnlyLastActive'
    <2> DEFINE v == sync[w].version
               fr == [sync[w] EXCEPT !.pc = stage, !.copy = row]
    <2>1. v \in VersionIds
      BY <1>5 DEF VersionNamed
    <2>2. dsv[v].feed = sync[w].feed /\ row.feed = sync[w].feed
      BY <1>2, <1>5, <2>1 DEF Sound
    <2>3. fr.pc = stage /\ fr.feed = sync[w].feed /\ fr.version = v /\ fr.copy = row
      BY <1>0 DEF SyncFrame
    <2>4. sync'[w] = fr /\ dsv'[v] = row /\ sync' = [sync EXCEPT ![w] = fr]
      BY <1>0, <1>5, <2>1
    <2> HIDE DEF fr
    <2>5. RowsOwned' /\ OnlyLastActive'
      BY <1>1, <1>3, <1>5, <2>1, <2>2, SaveKeepsTables
    <2>6. Respectful(w)
      BY <1>0, <1>1, <1>5, <2>1, <2>2, <2>4 DEF Respectful
    <2>7. Sound(w)'
      BY <1>1, <1>3, <1>5, <2>2, <2>3, <2>4 DEF Sound
    <2> QED
      BY <2>5, <2>6, <2>7
  <1>6. CASE ValidationFailed(w)
    <2> DEFINE row == [sync[w].copy EXCEPT !.status = "FAILED", !.validation = "FAILED"]
    <2>1. row.feed = sync[w].copy.feed /\ row.status = "FAILED"
      BY <1>0 DEF DatasetVersion
    <2>2. /\ dsv' = [dsv EXCEPT ![sync[w].version] = row] /\ sync[w].pc \in Versioned
          /\ sync' = [sync EXCEPT ![w] = [sync[w] EXCEPT !.pc = "failing", !.copy = row]]
      BY <1>6 DEF ValidationFailed, SaveVersion, At, Versioned, Executing
    <2> QED
      BY <1>5, <2>1, <2>2
  <1>7. CASE StoreDataset(w)
    <2> DEFINE row == [sync[w].copy EXCEPT !.status = "STORED"]
    <2>1. row.feed = sync[w].copy.feed /\ row.status = "STORED"
      BY <1>0 DEF DatasetVersion
    <2>2. /\ dsv' = [dsv EXCEPT ![sync[w].version] = row] /\ sync[w].pc \in Versioned
          /\ sync' = [sync EXCEPT ![w] = [sync[w] EXCEPT !.pc = "stored", !.copy = row]]
      BY <1>7 DEF StoreDataset, SaveVersion, At, Versioned, Executing
    <2> QED
      BY <1>5, <2>1, <2>2
  <1>8. CASE FailVersion(w)
    <2> DEFINE row == [sync[w].copy EXCEPT !.status = "FAILED"]
    <2>1. row.feed = sync[w].copy.feed /\ row.status = "FAILED"
      BY <1>0 DEF DatasetVersion
    <2>2. /\ dsv' = [dsv EXCEPT ![sync[w].version] = row] /\ sync[w].pc \in Versioned
          /\ sync' = [sync EXCEPT ![w] = [sync[w] EXCEPT !.pc = "marked", !.copy = row]]
      BY <1>8 DEF FailVersion, SaveVersion, At, Versioned, Executing
    <2> QED
      BY <1>5, <2>1, <2>2
  <1>9. CASE SaveDuration(w)
    <2> DEFINE row == sync[w].copy
    <2>1. sync[w].pc = "notified" /\ dsv' = [dsv EXCEPT ![sync[w].version] = row]
      BY <1>9 DEF SaveDuration, SaveVersion, At
    <2>2. sync[w].pc \in Versioned /\ sync[w].pc \in Executing
      BY <2>1 DEF Versioned, Executing
    <2>3. /\ row.status # "ABSENT"
          /\ row.status = "ACTIVE" => lastActivated[sync[w].feed] = sync[w].version
      BY <1>2, <2>2 DEF Sound, VersionNamed
    <2>4. sync' = [sync EXCEPT ![w] = [sync[w] EXCEPT !.pc = "saved"]]
      BY <1>9 DEF SaveDuration, Goto
    <2>5. [sync[w] EXCEPT !.pc = "saved"] = [sync[w] EXCEPT !.pc = "saved", !.copy = row]
      BY <1>0 DEF SyncFrame
    <2> QED
      BY <1>5, <2>1, <2>2, <2>3, <2>4, <2>5
  <1> QED
    BY <1>4, <1>6, <1>7, <1>8, <1>9

\* set_active_dataset_version for the owner of the version.
LEMMA SetActiveKeepsTables ==
  ASSUME ConstantsAssumption, TypeOK, RowsOwned, OnlyLastActive,
         NEW f \in Feeds, NEW v \in VersionIds, SetActive(f, v), dsv[v].feed = f
  PROVE  /\ RowsOwned' /\ OnlyLastActive'
         /\ \A u \in VersionIds : dsv'[u].feed = dsv[u].feed
         /\ dsv'[v].status = "ACTIVE"
         /\ lastActivated' = [lastActivated EXCEPT ![f] = v]
  <1>1. ASSUME NEW u \in VersionIds
        PROVE  /\ dsv'[u].feed = dsv[u].feed
               /\ dsv'[u].status = IF u = v THEN "ACTIVE"
                                   ELSE IF dsv[u].feed = f /\ dsv[u].status = "ACTIVE"
                                        THEN "ARCHIVED" ELSE dsv[u].status
    <2>1. dsv[u] \in DatasetVersion
      BY DEF TypeOK
    <2> QED
      BY <2>1 DEF SetActive, Activated, DatasetVersion
  <1>2. /\ lastActivated' = [lastActivated EXCEPT ![f] = v]
        /\ lastActivated'[f] = v
        /\ \A g : g # f => lastActivated'[g] = lastActivated[g]
    BY DEF SetActive, TypeOK
  <1>3. RowsOwned'
    BY <1>1 DEF RowsOwned, ConstantsAssumption
  <1>4. OnlyLastActive'
    <2> SUFFICES ASSUME NEW u \in VersionIds, dsv'[u].status = "ACTIVE"
                 PROVE  lastActivated'[dsv'[u].feed] = u
      BY DEF OnlyLastActive
    <2>1. CASE u = v
      BY <1>1, <1>2, <2>1
    <2>2. CASE u # v
      BY <1>1, <1>2, <2>2 DEF OnlyLastActive
    <2> QED
      BY <2>1, <2>2
  <1> QED
    BY <1>1, <1>2, <1>3, <1>4

\* Steps that may activate the version of a sync.
LEMMA ActivationSound ==
  ASSUME ConstantsAssumption, TypeOK, NEW w \in Workers, VersionNamed(w), Sound(w),
         RowsOwned, OnlyLastActive,
         ActivateVersion(w) \/ ActivationFails(w) \/ OnActivate(w) \/ OnRollback(w)
  PROVE  Respectful(w) /\ Sound(w)' /\ RowsOwned' /\ OnlyLastActive'
  <1> USE DEF Unlocked
  <1> DEFINE f == sync[w].feed
             v == sync[w].version
  <1>0. /\ sync \in [Workers -> SyncFrame] /\ sync[w] \in SyncFrame
        /\ lastActivated \in [Feeds -> VersionIds \cup {None}]
    BY DEF TypeOK
  <1>1. /\ sync[w].pc \in Executing \cup Handling /\ sync[w].pc \in Holding
        /\ sync[w].pc # "idle" /\ sync[w].pc \in Versioned
    BY DEF ActivateVersion, ActivationFails, OnActivate, OnRollback, At, Executing,
       Handling, Holding, Versioned
  <1>2. f \in Feeds /\ feedLock[f] = w /\ v \in VersionIds /\ dsv[v].feed = f
    BY <1>1 DEF Sound, VersionNamed
  <1>3. UNCHANGED feedLock
    BY DEF ActivateVersion, ActivationFails, OnActivate, OnRollback
  <1>4. SetActive(f, v) \/ UNCHANGED <<dsv, clock, lastActivated>>
    BY DEF ActivateVersion, ActivationFails, OnActivate, OnRollback
  <1>5. /\ RowsOwned' /\ OnlyLastActive'
        /\ \A u \in VersionIds : dsv'[u].feed = dsv[u].feed
        /\ \A g \in Feeds : lastActivated'[g] # lastActivated[g]
                              => g = f /\ lastActivated'[g] = v
    <2>1. CASE SetActive(f, v)
      BY <1>0, <1>2, <2>1, SetActiveKeepsTables
    <2>2. CASE UNCHANGED <<dsv, clock, lastActivated>>
      BY <2>2 DEF RowsOwned, OnlyLastActive
    <2> QED
      BY <1>4, <2>1, <2>2
  <1>6. ASSUME NEW fr, sync' = [sync EXCEPT ![w] = fr] PROVE Respectful(w)
    BY <1>2, <1>3, <1>5, <1>6 DEF Respectful
  <1>7. CASE ActivateVersion(w)
    <2> DEFINE fr == [sync[w] EXCEPT !.pc = "activated", !.copy = dsv'[v]]
    <2>1. SetActive(f, v) /\ sync' = [sync EXCEPT ![w] = fr]
      BY <1>7 DEF ActivateVersion
    <2>2. sync'[w] = fr
      BY <1>0, <2>1
    <2>3. /\ fr.pc = "activated" /\ fr.feed = f /\ fr.version = v /\ fr.copy = dsv'[v]
      BY <1>0 DEF SyncFrame
    <2>4. dsv'[v].status = "ACTIVE" /\ lastActivated'[f] = v
      BY <1>0, <1>2, <2>1, SetActiveKeepsTables
    <2>5. Respectful(w)
      BY <1>6, <2>1
    <2> HIDE DEF fr
    <2>6. Sound(w)'
      BY <1>2, <1>3, <1>5, <2>2, <2>3, <2>4 DEF Sound
    <2> QED
      BY <1>5, <2>5, <2>6
  <1>8. CASE ActivationFails(w) \/ OnActivate(w) \/ OnRollback(w)
    <2>1. PICK s : /\ Goto(w, s) /\ s # "idle"
                   /\ s \in Executing => sync[w].pc \in Executing
      <3>1. CASE ActivationFails(w)
        BY <3>1 DEF ActivationFails, Executing
      <3>2. CASE OnActivate(w)
        BY <3>2 DEF OnActivate, At, Executing
      <3>3. CASE OnRollback(w)
        BY <3>3 DEF OnRollback, Executing
      <3> QED
        BY <1>8, <3>1, <3>2, <3>3
    <2>2. Respectful(w)
      BY <1>6, <2>1 DEF Goto
    <2>3. Sound(w)'
      BY <1>1, <1>3, <2>1, <2>2, GotoSound
    <2> QED
      BY <1>5, <2>2, <2>3
  <1> QED
    BY <1>7, <1>8

LEMMA CancelSound ==
  ASSUME TypeOK, NEW w \in Workers, Sound(w), NEW f \in Feeds, Cancel(f)
  PROVE  Sound(w)'
  <1> DEFINE fr == [sync[w] EXCEPT !.asked = TRUE]
  <1>1. sync[w] \in SyncFrame
    BY DEF TypeOK
  <1>2. /\ fr.pc = sync[w].pc /\ fr.feed = sync[w].feed
        /\ fr.version = sync[w].version /\ fr.copy = sync[w].copy
    BY <1>1 DEF SyncFrame
  <1>3. /\ sync'[w] \in {fr, sync[w]}
        /\ UNCHANGED <<dsv, lastActivated, feedLock>>
    BY DEF Cancel, store
  <1> HIDE DEF fr
  <1> QED
    BY <1>2, <1>3 DEF Sound

LEMMA ServiceStep ==
  ASSUME ConstantsAssumption, Operators = {}, ServiceInv, TypeOK', Next
  PROVE  ServiceInv'
  <1> USE DEF ServiceInv
  <1>1. ASSUME NEW w \in Workers, Respectful(w), Sound(w)'
        PROVE  \A x \in Workers : Sound(x)'
    BY <1>1, OthersSound
  <1>2. \A x \in Workers : VersionNamed(x)'
    BY VersionKept
  <1>3. ASSUME NEW w \in Workers, WorkerStep(w) \/ \E f \in Feeds : Trigger(w, f)
        PROVE  Respectful(w) /\ Sound(w)' /\ RowsOwned' /\ OnlyLastActive'
    <2>1. CASE \/ \E v \in VersionIds : CreateVersion(w, v)
               \/ ValidationFailed(w) \/ StoreDataset(w) \/ SaveDuration(w)
               \/ FailVersion(w)
      BY <2>1, SaveSound
    <2>2. CASE ActivateVersion(w) \/ ActivationFails(w) \/ OnActivate(w) \/ OnRollback(w)
      BY <2>2, ActivationSound
    <2>3. CASE ~\/ \E v \in VersionIds : CreateVersion(w, v)
                \/ ValidationFailed(w) \/ StoreDataset(w) \/ SaveDuration(w)
                \/ FailVersion(w)
                \/ ActivateVersion(w) \/ ActivationFails(w) \/ OnActivate(w)
                \/ OnRollback(w)
      <3>1. Respectful(w) /\ Sound(w)' /\ UNCHANGED <<dsv, lastActivated>>
        BY <1>3, <2>3, CallSound DEF WorkerStep
      <3> QED
        BY <3>1 DEF RowsOwned, OnlyLastActive
    <2> QED
      BY <2>1, <2>2, <2>3
  <1>4. ASSUME NEW f \in Feeds, Cancel(f) PROVE ServiceInv'
    <2>1. UNCHANGED <<dsv, lastActivated>>
      BY <1>4 DEF Cancel, store
    <2> QED
      BY <1>2, <1>4, <2>1, CancelSound DEF RowsOwned, OnlyLastActive
  <1>5. CASE Restart
    <2>1. UNCHANGED <<dsv, lastActivated>>
      BY <1>5 DEF Restart, store
    <2>2. \A w \in Workers : Sound(w)'
      BY <1>5 DEF Restart, NoSync, Sound, Holding, Executing, Handling
    <2> QED
      BY <1>2, <2>1, <2>2 DEF RowsOwned, OnlyLastActive
  <1>6. CASE Quiescent
    BY <1>2, <1>6 DEF Quiescent, vars, Sound, RowsOwned, OnlyLastActive
  <1> QED
    BY <1>1, <1>2, <1>3, <1>4, <1>5, <1>6 DEF Next

LEMMA ServiceKept == Operators = {} => (Spec => []ServiceInv)
  <1> SUFFICES ASSUME Operators = {} PROVE Spec => []ServiceInv
    OBVIOUS
  <1> USE ConstantsAssumption
  <1>1. Init => ServiceInv
    <2> SUFFICES ASSUME Init PROVE ServiceInv
      OBVIOUS
    <2>1. TypeOK
      BY EmptyFrames DEF Init, TypeOK
    <2>2. \A w \in Workers : VersionNamed(w) /\ Sound(w)
      BY DEF Init, VersionNamed, Sound, NoSync, Versioned, Holding, Executing, Handling
    <2>3. RowsOwned /\ OnlyLastActive
      BY DEF Init, RowsOwned, OnlyLastActive, NoRow
    <2> QED
      BY <2>1, <2>2, <2>3 DEF ServiceInv
  <1>2. ServiceInv /\ TypeOK' /\ [Next]_vars => ServiceInv'
    <2> SUFFICES ASSUME ServiceInv, TypeOK', [Next]_vars PROVE ServiceInv'
      OBVIOUS
    <2>1. CASE Next
      BY <2>1, ServiceStep
    <2>2. CASE UNCHANGED vars
      BY <2>2 DEF vars, ServiceInv, VersionNamed, Sound, RowsOwned, OnlyLastActive
    <2> QED
      BY <2>1, <2>2
  <1> QED
    BY <1>1, <1>2, TypeCorrect, PTL DEF Spec

\* Where nobody rolls back, a feed never has two ACTIVE dataset versions, however
\* many syncs, retries, cancellations, database errors and restarts there are: the
\* feed's lock makes up for the saves and activations outside the manager's lock.
THEOREM OneActiveWithoutRollback == Operators = {} => (Spec => []AtMostOneActive)
  <1> SUFFICES ASSUME Operators = {} PROVE Spec => []AtMostOneActive
    OBVIOUS
  <1>1. ServiceInv => AtMostOneActive
    <2> SUFFICES ASSUME ServiceInv, NEW f \in Feeds,
                        NEW u \in ActiveOf(f), NEW v \in ActiveOf(f)
                 PROVE  u = v
      BY DEF AtMostOneActive
    <2> QED
      BY DEF ServiceInv, OnlyLastActive, ActiveOf, VersionsOf
  <1>2. Spec => []ServiceInv
    BY ServiceKept
  <1> QED
    BY <1>1, <1>2, PTL

-----------------------------------------------------------------------------
(* Locks come back and calls come to an end *)

\* A step of a call, as its locks and its stage see it: it goes on in an attempt, begins
\* the next one, takes the lock of the feed, or returns with the lock given back.
GoesOn(w) ==
    LET s == sync[w]
        t == sync'[w]
    IN  /\ s.pc \in Holding /\ t.pc \in Holding
        /\ StepsLeft[t.pc] < StepsLeft[s.pc]
        /\ t.feed = s.feed /\ t.attempt = s.attempt /\ UNCHANGED feedLock
TriesAgain(w) ==
    LET s == sync[w]
        t == sync'[w]
    IN  /\ s.pc = "backoff" /\ t.pc = "ready"
        /\ t.feed = s.feed /\ t.attempt = s.attempt + 1 /\ t.attempt <= MaxRetries
        /\ UNCHANGED feedLock
Takes(w) ==
    LET s == sync[w]
        t == sync'[w]
    IN  /\ s.pc = "checked" /\ t.pc = "acquired"
        /\ t.feed = s.feed /\ t.attempt = s.attempt
        /\ feedLock[s.feed] = None /\ feedLock' = [feedLock EXCEPT ![s.feed] = w]
Returns(w) ==
    /\ sync'[w] = NoSync
    /\ \/ sync[w].pc = "checked" /\ UNCHANGED feedLock
       \/ /\ sync[w].pc \in Holding
          /\ feedLock' = [feedLock EXCEPT ![sync[w].feed] = None]
Calls(w) ==
    /\ sync' = [sync EXCEPT ![w] = sync'[w]]
    /\ UNCHANGED <<managerLock, rb>>
    /\ GoesOn(w) \/ TriesAgain(w) \/ Takes(w) \/ Returns(w)

LEMMA GotoCalls ==
  ASSUME TypeOK, NEW w \in Workers, NEW s \in Holding, Goto(w, s), sync[w].pc \in Holding,
         StepsLeft[s] < StepsLeft[sync[w].pc], UNCHANGED <<feedLock, managerLock, rb>>
  PROVE  Calls(w)
  <1>1. sync[w] \in SyncFrame /\ sync'[w] = [sync[w] EXCEPT !.pc = s]
    BY DEF TypeOK, Goto
  <1>2. sync' = [sync EXCEPT ![w] = sync'[w]]
    BY <1>1 DEF Goto
  <1> QED
    BY <1>1, <1>2 DEF SyncFrame, Calls, GoesOn

LEMMA FrameCalls ==
  ASSUME TypeOK, NEW w \in Workers, NEW fr, sync' = [sync EXCEPT ![w] = fr],
         sync[w].pc \in Holding, fr.pc \in Holding, fr.feed = sync[w].feed,
         fr.attempt = sync[w].attempt, StepsLeft[fr.pc] < StepsLeft[sync[w].pc],
         UNCHANGED <<feedLock, managerLock, rb>>
  PROVE  Calls(w)
  <1>1. sync'[w] = fr /\ sync' = [sync EXCEPT ![w] = sync'[w]]
    BY DEF TypeOK
  <1> QED
    BY <1>1 DEF Calls, GoesOn

LEMMA CallsStep ==
  ASSUME TypeOK, NEW w \in Workers, WorkerStep(w)
  PROVE  Calls(w)
  <1> USE DEF store, Unlocked, Holding, Executing, Handling, At
  <1>0. sync \in [Workers -> SyncFrame] /\ sync[w] \in SyncFrame
    BY DEF TypeOK
  <1>1. CASE Acquire(w)
    <2> DEFINE fr == [sync[w] EXCEPT !.pc = "acquired"]
    <2>1. fr.pc = "acquired" /\ fr.feed = sync[w].feed /\ fr.attempt = sync[w].attempt
      BY <1>0 DEF SyncFrame
    <2>2. sync' = [sync EXCEPT ![w] = fr] /\ sync'[w] = fr
      BY <1>0, <1>1 DEF Acquire, Goto
    <2> HIDE DEF fr
    <2> QED
      BY <1>1, <2>1, <2>2 DEF Acquire, Calls, Takes
  <1>2. CASE AlreadyInProgress(w)
    BY <1>0, <1>2 DEF AlreadyInProgress, Calls, Returns
  <1>3. CASE StopCancelled(w) \/ GiveUp(w) \/ Succeed(w)
    BY <1>0, <1>3 DEF StopCancelled, GiveUp, Succeed, Return, Calls, Returns
  <1>4. CASE StartAttempt(w)
    <2> DEFINE fr == [sync[w] EXCEPT !.pc = "fetching", !.version = None, !.copy = NoRow]
    <2>1. /\ StepsLeft["fetching"] < StepsLeft["ready"] /\ sync[w].pc = "ready"
          /\ UNCHANGED <<feedLock, managerLock, rb>>
      BY <1>4 DEF StartAttempt, StepsLeft
    <2>2. fr.pc = "fetching" /\ fr.feed = sync[w].feed /\ fr.attempt = sync[w].attempt
      BY <1>0 DEF SyncFrame
    <2>3. sync' = [sync EXCEPT ![w] = fr]
      BY <1>0, <1>4 DEF StartAttempt
    <2> HIDE DEF fr
    <2> QED
      BY <2>1, <2>2, <2>3, FrameCalls
  <1>5. CASE Retry(w)
    <2> DEFINE fr == [sync[w] EXCEPT !.pc = "ready", !.attempt = @ + 1]
    <2>1. fr.pc = "ready" /\ fr.feed = sync[w].feed /\ fr.attempt = sync[w].attempt + 1
      BY <1>0 DEF SyncFrame
    <2>2. sync' = [sync EXCEPT ![w] = fr] /\ sync'[w] = fr
      BY <1>0, <1>5 DEF Retry
    <2> HIDE DEF fr
    <2> QED
      BY <1>5, <2>1, <2>2 DEF Retry, Calls, TriesAgain
  <1>6. ASSUME NEW v \in VersionIds, CreateVersion(w, v) PROVE Calls(w)
    <2> DEFINE row == [feed |-> sync[w].feed, status |-> "CREATED", validation |-> "PENDING",
                       imported_at |-> clock + 1, activated_at |-> 0]
               fr == [sync[w] EXCEPT !.pc = "created", !.version = v, !.copy = row]
    <2>1. fr.pc = "created" /\ fr.feed = sync[w].feed /\ fr.attempt = sync[w].attempt
      BY <1>0 DEF SyncFrame
    <2>2. sync' = [sync EXCEPT ![w] = fr] /\ sync'[w] = fr
      BY <1>0, <1>6 DEF CreateVersion
    <2>3. /\ sync[w].pc = "fetching" /\ UNCHANGED <<feedLock, managerLock, rb>>
          /\ StepsLeft["created"] < StepsLeft["fetching"]
      BY <1>6 DEF CreateVersion, StepsLeft
    <2> HIDE DEF row, fr
    <2> QED
      BY <2>1, <2>2, <2>3, FrameCalls
  <1>7. ASSUME NEW s \in Holding, NEW row
        PROVE  LET fr == [sync[w] EXCEPT !.pc = s, !.copy = row]
               IN  fr.pc = s /\ fr.feed = sync[w].feed /\ fr.attempt = sync[w].attempt
    BY <1>0 DEF SyncFrame
  <1>8. CASE ValidationPassed(w)
    <2>0. PICK row : row = [sync[w].copy EXCEPT !.validation = "PASSED"]
      OBVIOUS
    <2> DEFINE fr == [sync[w] EXCEPT !.pc = "validated", !.copy = row]
    <2>1. sync' = [sync EXCEPT ![w] = fr]
      BY <1>0, <1>8, <2>0 DEF ValidationPassed
    <2>2. /\ sync[w].pc = "verified" /\ UNCHANGED <<feedLock, managerLock, rb>>
          /\ StepsLeft["validated"] < StepsLeft["verified"]
      BY <1>8 DEF ValidationPassed, StepsLeft
    <2>3. fr.pc = "validated" /\ fr.feed = sync[w].feed /\ fr.attempt = sync[w].attempt
      BY <1>7
    <2> HIDE DEF fr
    <2> QED
      BY <2>1, <2>2, <2>3, FrameCalls
  <1>9. CASE ValidationFailed(w)
    <2>0. PICK row : row = [sync[w].copy EXCEPT !.status = "FAILED", !.validation = "FAILED"]
      OBVIOUS
    <2> DEFINE fr == [sync[w] EXCEPT !.pc = "failing", !.copy = row]
    <2>1. sync' = [sync EXCEPT ![w] = fr]
      BY <1>0, <1>9, <2>0 DEF ValidationFailed
    <2>2. /\ sync[w].pc = "verified" /\ UNCHANGED <<feedLock, managerLock, rb>>
          /\ StepsLeft["failing"] < StepsLeft["verified"]
      BY <1>9 DEF ValidationFailed, StepsLeft
    <2>3. fr.pc = "failing" /\ fr.feed = sync[w].feed /\ fr.attempt = sync[w].attempt
      BY <1>7
    <2> HIDE DEF fr
    <2> QED
      BY <2>1, <2>2, <2>3, FrameCalls
  <1>10. CASE StoreDataset(w)
    <2>0. PICK row : row = [sync[w].copy EXCEPT !.status = "STORED"]
      OBVIOUS
    <2> DEFINE fr == [sync[w] EXCEPT !.pc = "stored", !.copy = row]
    <2>1. sync' = [sync EXCEPT ![w] = fr]
      BY <1>0, <1>10, <2>0 DEF StoreDataset
    <2>2. /\ sync[w].pc = "validated" /\ UNCHANGED <<feedLock, managerLock, rb>>
          /\ StepsLeft["stored"] < StepsLeft["validated"]
      BY <1>10 DEF StoreDataset, StepsLeft
    <2>3. fr.pc = "stored" /\ fr.feed = sync[w].feed /\ fr.attempt = sync[w].attempt
      BY <1>7
    <2> HIDE DEF fr
    <2> QED
      BY <2>1, <2>2, <2>3, FrameCalls
  <1>11. CASE ActivateVersion(w)
    <2>0. PICK row : row = dsv'[sync[w].version]
      OBVIOUS
    <2> DEFINE fr == [sync[w] EXCEPT !.pc = "activated", !.copy = row]
    <2>1. sync' = [sync EXCEPT ![w] = fr]
      BY <1>0, <1>11, <2>0 DEF ActivateVersion
    <2>2. /\ sync[w].pc = "built" /\ UNCHANGED <<feedLock, managerLock, rb>>
          /\ StepsLeft["activated"] < StepsLeft["built"]
      BY <1>11 DEF ActivateVersion, StepsLeft
    <2>3. fr.pc = "activated" /\ fr.feed = sync[w].feed /\ fr.attempt = sync[w].attempt
      BY <1>7
    <2> HIDE DEF fr
    <2> QED
      BY <2>1, <2>2, <2>3, FrameCalls
  <1>12. CASE FailVersion(w)
    <2>0. PICK row : row = [sync[w].copy EXCEPT !.status = "FAILED"]
      OBVIOUS
    <2> DEFINE fr == [sync[w] EXCEPT !.pc = "marked", !.copy = row]
    <2>1. sync' = [sync EXCEPT ![w] = fr]
      BY <1>0, <1>12, <2>0 DEF FailVersion
    <2>2. /\ sync[w].pc = "import_failed" /\ UNCHANGED <<feedLock, managerLock, rb>>
          /\ StepsLeft["marked"] < StepsLeft["import_failed"]
      BY <1>12 DEF FailVersion, StepsLeft
    <2>3. fr.pc = "marked" /\ fr.feed = sync[w].feed /\ fr.attempt = sync[w].attempt
      BY <1>7
    <2> HIDE DEF fr
    <2> QED
      BY <2>1, <2>2, <2>3, FrameCalls
  <1>13. ASSUME NEW s \in Holding, Goto(w, s), sync[w].pc \in Holding,
                StepsLeft[s] < StepsLeft[sync[w].pc], UNCHANGED Unlocked \/ UNCHANGED <<feedLock, managerLock, rb>>
         PROVE  Calls(w)
    BY <1>13, GotoCalls
  <1>14. CASE DiscardToken(w)
    <2>1. Goto(w, "ready") /\ sync[w].pc = "acquired" /\ UNCHANGED <<feedLock, managerLock, rb>>
      BY <1>14 DEF DiscardToken
    <2> QED
      BY <1>13, <2>1 DEF StepsLeft
  <1>15. ASSUME NEW passed \in BOOLEAN, EvaluateTrust(w, passed) PROVE Calls(w)
    <2>1. /\ sync[w].pc = "created" /\ UNCHANGED <<feedLock, managerLock, rb>>
          /\ Goto(w, "verified") \/ Goto(w, "failing")
      BY <1>15 DEF EvaluateTrust
    <2> QED
      BY <1>13, <2>1 DEF StepsLeft
  <1>16. CASE BuildRelationships(w)
    <2>1. /\ sync[w].pc = "stored" /\ UNCHANGED <<feedLock, managerLock, rb>>
          /\ Goto(w, "built") \/ Goto(w, "notified")
      BY <1>16 DEF BuildRelationships
    <2> QED
      BY <1>13, <2>1 DEF StepsLeft
  <1>17. CASE ActivationFails(w) \/ Raise(w)
    <2>1. sync[w].pc \in Executing /\ UNCHANGED <<feedLock, managerLock, rb>>
      BY <1>17 DEF ActivationFails, Raise
    <2>2. CASE Goto(w, "failing")
      BY <1>13, <2>1, <2>2 DEF StepsLeft
    <2>3. CASE /\ sync[w].pc = "verified"
               /\ sync' = [sync EXCEPT ![w].pc = "failing", ![w].copy.validation = "FAILED"]
      <3>0. PICK row : row = [sync[w].copy EXCEPT !.validation = "FAILED"]
        OBVIOUS
      <3> DEFINE fr == [sync[w] EXCEPT !.pc = "failing", !.copy = row]
      <3>1. sync' = [sync EXCEPT ![w] = fr]
        BY <1>0, <2>3, <3>0
      <3>2. StepsLeft["failing"] < StepsLeft["verified"]
        BY DEF StepsLeft
      <3>3. fr.pc = "failing" /\ fr.feed = sync[w].feed /\ fr.attempt = sync[w].attempt
        BY <1>7
      <3> HIDE DEF fr
      <3> QED
        BY <2>1, <2>3, <3>1, <3>2, <3>3, FrameCalls
    <2> QED
      BY <1>17, <2>2, <2>3 DEF ActivationFails, Raise
  <1>18. CASE OnActivate(w)
    <2>1. Goto(w, "notified") /\ sync[w].pc = "activated" /\ UNCHANGED <<feedLock, managerLock, rb>>
      BY <1>18 DEF OnActivate
    <2> QED
      BY <1>13, <2>1 DEF StepsLeft
  <1>19. CASE SaveDuration(w) \/ CompleteImport(w) \/ RecordSuccess(w)
    <2>1. /\ UNCHANGED <<feedLock, managerLock, rb>>
          /\ \/ Goto(w, "saved") /\ sync[w].pc = "notified"
             \/ Goto(w, "completed") /\ sync[w].pc = "saved"
             \/ Goto(w, "recorded") /\ sync[w].pc = "completed"
      BY <1>19 DEF SaveDuration, CompleteImport, RecordSuccess
    <2> QED
      BY <1>13, <2>1 DEF StepsLeft
  <1>20. CASE FailImport(w)
    <2>1. /\ sync[w].pc = "failing" /\ UNCHANGED <<feedLock, managerLock, rb>>
          /\ Goto(w, "undone") \/ Goto(w, "import_failed")
      BY <1>20 DEF FailImport
    <2> QED
      BY <1>13, <2>1 DEF StepsLeft
  <1>21. CASE OnRollback(w) \/ RecordFailure(w) \/ HandlerRaises(w)
    <2>1. /\ UNCHANGED <<feedLock, managerLock, rb>>
          /\ \/ Goto(w, "undone") /\ sync[w].pc = "marked"
             \/ Goto(w, "backoff") /\ sync[w].pc \in Handling
      BY <1>21 DEF OnRollback, RecordFailure, HandlerRaises
    <2> QED
      BY <1>13, <2>1 DEF StepsLeft
  <1> QED
    BY <1>1, <1>2, <1>3, <1>4, <1>5, <1>6, <1>8, <1>9, <1>10, <1>11, <1>12, <1>14, <1>15,
       <1>16, <1>17, <1>18, <1>19, <1>20, <1>21 DEF WorkerStep

LEMMA OthersCalls ==
  ASSUME TypeOK, NEW w \in Workers, NEW x \in Workers, x # w, Calls(w)
  PROVE  sync'[x] = sync[x]
  BY DEF TypeOK, Calls

\* What the other steps do to calls and locks.
LEMMA OutsideCalls ==
  ASSUME ConstantsAssumption, TypeOK, LocksHeld, Next, ~ \E w \in Workers : WorkerStep(w)
  PROVE  /\ LocksHeld'
         /\ \A w \in Workers : \/ sync'[w].pc = "idle" /\ sync'[w].attempt = 0
                               \/ sync'[w].pc = sync[w].pc /\ sync'[w].attempt = sync[w].attempt
                               \/ /\ sync[w].pc = "idle" /\ sync'[w].pc = "checked"
                                  /\ sync'[w].attempt = 0
  <1> USE DEF LocksHeld
  <1>0. /\ sync \in [Workers -> SyncFrame] /\ rb \in [Operators -> RollbackFrame]
        /\ NoSync.pc = "idle" /\ NoSync.attempt = 0 /\ NoSync.feed = None
        /\ NoRollback.pc = "idle" /\ "idle" \notin Holding /\ "checked" \notin Holding
        /\ None \notin Workers /\ None \notin Operators
    BY DEF TypeOK, NoSync, NoRollback, Holding, Executing, Handling, ConstantsAssumption
  <1>1. ASSUME NEW w \in Workers, NEW f \in Feeds, Trigger(w, f)
        PROVE  /\ LocksHeld'
               /\ sync[w].pc = "idle" /\ sync'[w].pc = "checked" /\ sync'[w].attempt = 0
               /\ \A x \in Workers \ {w} : sync'[x] = sync[x]
    <2> DEFINE fr == [NoSync EXCEPT !.pc = "checked", !.feed = f]
    <2>1. fr.pc = "checked" /\ fr.feed = f /\ fr.attempt = 0
      BY DEF NoSync
    <2>2. /\ sync[w].pc = "idle" /\ sync' = [sync EXCEPT ![w] = fr]
          /\ UNCHANGED <<feedLock, managerLock, rb>>
      BY <1>1 DEF Trigger, At
    <2> HIDE DEF fr
    <2>3. sync'[w] = fr /\ \A x \in Workers \ {w} : sync'[x] = sync[x]
      BY <1>0, <2>2
    <2>4. LocksHeld'
      BY <1>0, <2>1, <2>2, <2>3
    <2> QED
      BY <2>1, <2>2, <2>3, <2>4
  <1>2. ASSUME NEW f \in Feeds, Cancel(f)
        PROVE  /\ LocksHeld'
               /\ \A w \in Workers : sync'[w].pc = sync[w].pc /\ sync'[w].attempt = sync[w].attempt
    <2>1. ASSUME NEW w \in Workers
          PROVE  /\ sync'[w].pc = sync[w].pc /\ sync'[w].attempt = sync[w].attempt
                 /\ sync'[w].feed = sync[w].feed
      <3> DEFINE fr == [sync[w] EXCEPT !.asked = TRUE]
      <3>1. fr.pc = sync[w].pc /\ fr.attempt = sync[w].attempt /\ fr.feed = sync[w].feed
        BY <1>0 DEF SyncFrame
      <3>2. sync'[w] \in {fr, sync[w]}
        BY <1>2 DEF Cancel
      <3> HIDE DEF fr
      <3> QED
        BY <3>1, <3>2
    <2>2. UNCHANGED <<feedLock, managerLock, rb>>
      BY <1>2 DEF Cancel
    <2> QED
      BY <2>1, <2>2
  <1>3. ASSUME NEW o \in Operators, NEW f \in Feeds,
               NEW requested \in VersionIds \cup {None}, NEW current \in VersionIds \cup {None},
               NEW target \in VersionIds \cup {None}, Rollback(o, f, requested, current, target)
        PROVE  LocksHeld' /\ UNCHANGED sync
    <2>1. /\ managerLock = None /\ managerLock' = o /\ rb'[o].pc # "idle"
          /\ \A p \in Operators \ {o} : rb'[p] = rb[p]
          /\ UNCHANGED <<feedLock, sync>>
      BY <1>0, <1>3 DEF Rollback
    <2> QED
      BY <1>0, <2>1
  <1>4. ASSUME NEW o \in Operators, OperatorStep(o) PROVE LocksHeld' /\ UNCHANGED sync
    <2>1. /\ rb[o].pc # "idle" /\ UNCHANGED <<feedLock, sync>>
          /\ \A p \in Operators \ {o} : rb'[p] = rb[p]
          /\ \/ rb'[o].pc # "idle" /\ managerLock' = managerLock
             \/ rb'[o].pc = "idle" /\ managerLock' = None
      BY <1>0, <1>4 DEF OperatorStep, MarkRolledBack, ActivateTarget, RollbackFails, SaveVersion,
         RollbackFrame
    <2>2. managerLock = o /\ \A p \in Operators \ {o} : rb[p].pc = "idle"
      BY <2>1
    <2> QED
      BY <1>0, <2>1, <2>2
  <1>5. CASE Restart
    BY <1>0, <1>5 DEF Restart
  <1>6. CASE Quiescent
    BY <1>6 DEF Quiescent, vars
  <1> QED
    BY <1>1, <1>2, <1>3, <1>4, <1>5, <1>6 DEF Next

LEMMA CallsKeepLocks ==
  ASSUME ConstantsAssumption, TypeOK, LocksHeld, NEW w \in Workers, Calls(w)
  PROVE  LocksHeld'
  <1> USE DEF LocksHeld
  <1>0. /\ feedLock \in [Feeds -> Workers \cup {None}] /\ sync \in [Workers -> SyncFrame]
        /\ NoSync.pc = "idle" /\ "idle" \notin Holding /\ "checked" \notin Holding
        /\ {"acquired", "ready", "backoff"} \subseteq Holding
        /\ None \notin Workers /\ None \notin Feeds
    BY DEF TypeOK, NoSync, Holding, Executing, Handling, ConstantsAssumption
  <1>1. /\ \A x \in Workers \ {w} : sync'[x] = sync[x]
        /\ UNCHANGED <<managerLock, rb>>
    BY OthersCalls DEF Calls
  <1>2. CASE GoesOn(w) \/ TriesAgain(w)
    BY <1>0, <1>1, <1>2 DEF GoesOn, TriesAgain
  <1>3. CASE Takes(w)
    BY <1>0, <1>1, <1>3 DEF Takes
  <1>4. CASE Returns(w)
    BY <1>0, <1>1, <1>4 DEF Returns
  <1> QED
    BY <1>2, <1>3, <1>4 DEF Calls

\* scheduler.trigger_sync and DatasetVersionManager: every lock is held by exactly the call
\* that took it, and by none once that call has returned, raised or died with the process.
THEOREM LocksReturned == Spec => []LocksHeld
  <1> USE ConstantsAssumption
  <1>1. Init => LocksHeld
    BY DEF Init, LocksHeld, NoSync, NoRollback, Holding, Executing, Handling, ConstantsAssumption
  <1>2. TypeOK /\ LocksHeld /\ [Next]_vars => LocksHeld'
    <2> SUFFICES ASSUME TypeOK, LocksHeld, [Next]_vars PROVE LocksHeld'
      OBVIOUS
    <2>1. CASE \E w \in Workers : WorkerStep(w)
      BY <2>1, CallsStep, CallsKeepLocks
    <2>2. CASE Next /\ ~ \E w \in Workers : WorkerStep(w)
      BY <2>2, OutsideCalls
    <2>3. CASE UNCHANGED vars
      BY <2>3 DEF vars, LocksHeld
    <2> QED
      BY <2>1, <2>2, <2>3
  <1> QED
    BY <1>1, <1>2, TypeCorrect, PTL DEF Spec

\* No call makes more attempts than retry_count allows.
Retries == \A w \in Workers : sync[w].attempt \in 0 .. MaxRetries

LEMMA DistanceMeasured ==
  ASSUME ConstantsAssumption, TypeOK, Retries, NEW w \in Workers
  PROVE  /\ Distance(w) \in Nat
         /\ ~ At(w, "idle") => Distance(w) > 0
  <1>1. sync[w].pc \in {"idle", "checked"} \cup Holding /\ sync[w].attempt \in 0 .. MaxRetries
    BY DEF TypeOK, SyncFrame, Retries
  <1>2. \A s \in {"checked"} \cup Holding : StepsLeft[s] \in 1 .. 19
    BY DEF StepsLeft, Holding, Executing, Handling
  <1>3. MaxRetries \in Nat
    BY DEF ConstantsAssumption
  <1>4. CASE At(w, "idle")
    BY <1>4 DEF Distance
  <1>5. CASE ~ At(w, "idle")
    <2>1. StepsLeft[sync[w].pc] \in 1 .. 19
      BY <1>1, <1>2, <1>5 DEF At
    <2>2. Distance(w) = 20 * (MaxRetries - sync[w].attempt) + StepsLeft[sync[w].pc]
      BY <1>5 DEF Distance
    <2>3. 20 * (MaxRetries - sync[w].attempt) \in Nat
      BY <1>1, <1>3
    <2> QED
      BY <2>1, <2>2, <2>3
  <1> QED
    BY <1>4, <1>5

LEMMA CallsShorten ==
  ASSUME ConstantsAssumption, TypeOK, Retries, NEW w \in Workers, Calls(w)
  PROVE  /\ sync'[w].attempt \in 0 .. MaxRetries
         /\ Distance(w)' \in 0 .. Distance(w) /\ Distance(w)' # Distance(w)
  <1> DEFINE s == sync[w]
             t == sync'[w]
  <1>0. /\ sync[w].attempt \in 0 .. MaxRetries /\ MaxRetries \in Nat
        /\ "idle" \notin Holding
        /\ \A g \in Holding : StepsLeft[g] \in 1 .. 18
    BY DEF Retries, ConstantsAssumption, StepsLeft, Holding, Executing, Handling
  <1>1. CASE GoesOn(w)
    BY <1>0, <1>1 DEF GoesOn, Distance, At
  <1>2. CASE TriesAgain(w)
    <2>1. StepsLeft["ready"] = 17 /\ StepsLeft["backoff"] = 1
      BY DEF StepsLeft
    <2> QED
      BY <1>0, <1>2, <2>1 DEF TriesAgain, Distance, At
  <1>3. CASE Takes(w)
    <2>1. StepsLeft["acquired"] = 18 /\ StepsLeft["checked"] = 19
      BY DEF StepsLeft
    <2> QED
      BY <1>0, <1>3, <2>1 DEF Takes, Distance, At
  <1>4. CASE Returns(w)
    <2>1. Distance(w)' = 0 /\ t.attempt = 0 /\ ~ At(w, "idle")
      BY <1>0, <1>4 DEF Returns, NoSync, Distance, At
    <2>2. Distance(w) \in Nat /\ Distance(w) > 0
      BY <2>1, DistanceMeasured
    <2> QED
      BY <1>0, <2>1, <2>2
  <1> QED
    BY <1>1, <1>2, <1>3, <1>4 DEF Calls

\* scheduler.trigger_sync: the safety part of SyncEnds. The distance of a call from its
\* return is a natural number that every step of its thread lowers and no other raises,
\* so that a call makes only a bounded number of steps, whatever fails.
THEOREM CallsComeToAnEnd == Spec => SyncsShorten
  <1> USE ConstantsAssumption
  <1>1. Init => Retries
    BY DEF Init, NoSync, Retries, ConstantsAssumption
  <1>2. /\ TypeOK /\ LocksHeld /\ Retries /\ [Next]_vars
        => /\ Retries'
           /\ [\A w \in Workers :
                  ~ At(w, "idle") => /\ Distance(w)' \in 0 .. Distance(w)
                                     /\ WorkerStep(w) => Distance(w)' # Distance(w)]_vars
    <2> SUFFICES ASSUME TypeOK, LocksHeld, Retries, [Next]_vars
                 PROVE  /\ Retries'
                        /\ [\A w \in Workers :
                               ~ At(w, "idle") => /\ Distance(w)' \in 0 .. Distance(w)
                                                  /\ WorkerStep(w) => Distance(w)' # Distance(w)]_vars
      OBVIOUS
    <2>1. ASSUME NEW w \in Workers, WorkerStep(w)
          PROVE  /\ Retries'
                 /\ \A x \in Workers :
                      ~ At(x, "idle") => /\ Distance(x)' \in 0 .. Distance(x)
                                         /\ WorkerStep(x) => Distance(x)' # Distance(x)
      <3>1. Calls(w)
        BY <2>1, CallsStep
      <3>2. /\ sync'[w].attempt \in 0 .. MaxRetries
            /\ Distance(w)' \in 0 .. Distance(w) /\ Distance(w)' # Distance(w)
        BY <3>1, CallsShorten
      <3>3. ASSUME NEW x \in Workers, x # w
            PROVE  /\ sync'[x] = sync[x]
                   /\ Distance(x)' \in 0 .. Distance(x)
                   /\ WorkerStep(x) => Distance(x)' # Distance(x)
        <4>1. sync'[x] = sync[x] /\ Distance(x)' = Distance(x)
          BY <3>1, <3>3, OthersCalls DEF Distance, At
        <4>2. Distance(x) \in Nat
          BY DistanceMeasured
        <4>3. WorkerStep(x) => Distance(x)' # Distance(x)
          BY CallsStep, CallsShorten
        <4> QED
          BY <4>1, <4>2, <4>3
      <3> QED
        BY <3>2, <3>3 DEF Retries
    <2>2. CASE Next /\ ~ \E w \in Workers : WorkerStep(w)
      <3>1. ASSUME NEW w \in Workers
            PROVE  /\ sync'[w].attempt \in 0 .. MaxRetries
                   /\ ~ At(w, "idle") => Distance(w)' \in 0 .. Distance(w)
        <4>1. \/ sync'[w].pc = "idle" /\ sync'[w].attempt = 0
              \/ sync'[w].pc = sync[w].pc /\ sync'[w].attempt = sync[w].attempt
              \/ sync[w].pc = "idle" /\ sync'[w].attempt = 0
          BY <2>2, OutsideCalls
        <4>2. Distance(w) \in Nat /\ sync[w].attempt \in 0 .. MaxRetries /\ MaxRetries \in Nat
          BY DistanceMeasured DEF Retries, ConstantsAssumption
        <4> QED
          BY <4>1, <4>2 DEF Distance, At
      <3> QED
        BY <2>2, <3>1 DEF Retries
    <2>3. CASE UNCHANGED vars
      BY <2>3 DEF vars, Retries
    <2> QED
      BY <2>1, <2>2, <2>3
  <1> QED
    BY <1>1, <1>2, TypeCorrect, LocksReturned, PTL DEF Spec, SyncsShorten

=============================================================================
