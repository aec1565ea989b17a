-------------------------- MODULE FeedRecordsProofs --------------------------
(***************************************************************************)
(* The records of the ingestion agree: the version table, the table of     *)
(* imports and the health of the feeds, with rollbacks at any time. The    *)
(* steps of a sync are first sorted by what they do to the tables. On one  *)
(* invariant, whose rows a thread writes, the others build: what the       *)
(* imports say, when versions were activated, which is served and why none *)
(* is, whose import is the newest, what is known of a failed validation.   *)
(* Without rollbacks the table implements the catalog of published data.   *)
(***************************************************************************)
EXTENDS FeedSyncProofs

-----------------------------------------------------------------------------
(* What a step of a sync does to the tables *)

\* The stages in which a sync may have a version in hand, and whether it has.
InRun == (Executing \ {"fetching"}) \cup Handling
Owner(w) == sync[w].pc \in InRun /\ sync[w].version # None

SameNamed == \A f \in Feeds : health'[f].active = health[f].active

\* The frame keeps its feed, its version and what is told apart of its object.
Carries(w) ==
    LET s == sync[w]
        t == sync'[w]
    IN  /\ t.feed = s.feed /\ t.version = s.version
        /\ t.copy.feed = s.copy.feed /\ t.copy.status = s.copy.status
        /\ t.copy.activated_at = s.copy.activated_at
        /\ t.copy.imported_at = s.copy.imported_at
        /\ \/ t.copy.validation = IF s.pc = "verified" /\ t.pc = "validated"
                                  THEN "PASSED" ELSE s.copy.validation
           \/ /\ s.pc = "verified" /\ t.pc = "failing"
              /\ t.copy.validation = "FAILED"

\* Afterwards the sync has no version in hand; the tables are as they were.
Leaves(w) ==
    /\ sync'[w].pc \notin InRun
    /\ UNCHANGED <<dsv, imports, clock, lastActivated>> /\ SameNamed
    /\ \/ /\ sync'[w].pc = "idle"
          /\ \A f \in Feeds : feedLock[f] \notin {w, None} => feedLock'[f] = feedLock[f]
       \/ sync'[w].pc = "checked" /\ sync'[w].feed \in Feeds /\ UNCHANGED feedLock
       \/ /\ sync[w].pc = "checked" /\ sync'[w].pc = "acquired"
          /\ sync'[w].feed = sync[w].feed /\ feedLock[sync[w].feed] = None
          /\ feedLock' = [feedLock EXCEPT ![sync[w].feed] = w]
       \/ /\ sync[w].pc \in Holding /\ sync'[w].feed = sync[w].feed /\ UNCHANGED feedLock
          /\ sync'[w].pc # "idle"
          /\ sync'[w].pc = "fetching" => sync'[w].version = None

Creates(w) ==
    /\ sync[w].pc = "fetching" /\ sync'[w].pc = "created"
    /\ LET v == sync'[w].version
       IN  /\ v \in VersionIds /\ dsv[v].status = "ABSENT"
           /\ dsv' = [dsv EXCEPT ![v] = sync'[w].copy]
    /\ sync'[w].feed = sync[w].feed /\ sync'[w].copy.feed = sync[w].feed
    /\ sync'[w].copy.status = "CREATED" /\ sync'[w].copy.activated_at = 0
    /\ sync'[w].copy.validation = "PENDING" /\ sync'[w].copy.imported_at = clock + 1
    /\ clock' = clock + 1
    /\ UNCHANGED <<imports, lastActivated, feedLock>> /\ SameNamed

\* Only the stage changes, and at most the record of the import or of the health.
Hops(w) ==
    LET from == sync[w].pc
        to   == sync'[w].pc
        v    == sync[w].version
    IN  /\ Carries(w)
        /\ UNCHANGED <<dsv, clock, lastActivated, feedLock>>
        /\ \/ /\ UNCHANGED imports /\ SameNamed
              /\ \/ from = "created" /\ to = "verified"
                 \/ from = "verified" /\ to = "validated"
                 \/ from = "stored" /\ to = "built"
                 \/ from = "stored" /\ to = "notified" /\ sync[w].feed \notin AutoActivate
                 \/ from \in Executing /\ to = "failing"
           \/ /\ from = "saved" /\ to = "completed" /\ SameNamed
              /\ imports' = [imports EXCEPT ![v] = "COMPLETED"]
           \/ /\ from = "completed" /\ to = "recorded" /\ UNCHANGED imports
              /\ \A f \in Feeds : health'[f].active =
                                    IF f = sync[w].feed THEN v ELSE health[f].active
           \/ /\ from = "failing" /\ SameNamed
              /\ \/ v = None /\ to = "undone" /\ UNCHANGED imports
                 \/ /\ v # None /\ to = "import_failed"
                    /\ imports' = [imports EXCEPT ![v] = "FAILED"]

\* The object is saved.
Saves(w) ==
    LET from == sync[w].pc
        to   == sync'[w].pc
        row  == sync'[w].copy
    IN  /\ sync'[w].feed = sync[w].feed /\ sync'[w].version = sync[w].version
        /\ row.feed = sync[w].copy.feed /\ row.activated_at = sync[w].copy.activated_at
        /\ row.imported_at = sync[w].copy.imported_at
        /\ row.validation = IF from = "verified" THEN "FAILED" ELSE sync[w].copy.validation
        /\ dsv' = [dsv EXCEPT ![sync[w].version] = row]
        /\ UNCHANGED <<imports, clock, lastActivated, feedLock>> /\ SameNamed
        /\ \/ from = "verified" /\ to = "failing" /\ row.status = "FAILED"
           \/ from = "validated" /\ to = "stored" /\ row.status = "STORED"
           \/ from = "notified" /\ to = "saved" /\ row.status = sync[w].copy.status
           \/ from = "import_failed" /\ to = "marked" /\ row.status = "FAILED"

\* The version is activated, or was to be.
Activates(w) ==
    LET from == sync[w].pc
        to   == sync'[w].pc
    IN  /\ UNCHANGED <<imports, feedLock>> /\ SameNamed
        /\ \/ /\ from = "built" /\ to = "activated"
              /\ SetActive(sync[w].feed, sync[w].version)
              /\ dsv[sync[w].version].validation # "FAILED"
              /\ sync'[w].feed = sync[w].feed /\ sync'[w].version = sync[w].version
              /\ sync'[w].copy = dsv'[sync[w].version]
           \/ /\ Carries(w)
              /\ \/ /\ SetActive(sync[w].feed, sync[w].version)
                    /\ from = "built" \/ sync[w].feed \in ActivatingPlugins
                 \/ UNCHANGED <<dsv, clock, lastActivated>>
              /\ \/ from = "built" /\ to = "failing"
                 \/ from = "activated" /\ to = "notified"
                 \/ from = "marked" /\ to = "undone"

Advances(w) ==
    /\ sync' = [sync EXCEPT ![w] = sync'[w]]
    /\ Leaves(w) \/ Creates(w) \/ Hops(w) \/ Saves(w) \/ Activates(w)

LEMMA Gone ==
  ASSUME TypeOK, NEW w \in Workers, NEW s, Goto(w, s), s # "validated"
  PROVE  /\ sync' = [sync EXCEPT ![w] = sync'[w]] /\ sync'[w].pc = s /\ Carries(w)
  <1>1. sync[w] \in SyncFrame /\ sync'[w] = [sync[w] EXCEPT !.pc = s]
    BY DEF TypeOK, Goto
  <1>2. sync' = [sync EXCEPT ![w] = sync'[w]]
    BY <1>1 DEF Goto
  <1> QED
    BY <1>1, <1>2 DEF SyncFrame, Carries

LEMMA LeavesAll ==
  ASSUME TypeOK, NEW w \in Workers,
         \/ \E f \in Feeds : Trigger(w, f)
         \/ Acquire(w) \/ AlreadyInProgress(w) \/ DiscardToken(w) \/ StopCancelled(w)
         \/ StartAttempt(w) \/ Retry(w) \/ GiveUp(w) \/ Succeed(w)
         \/ RecordFailure(w) \/ HandlerRaises(w),
         sync[w].pc \in Holding => feedLock[sync[w].feed] = w
  PROVE  Advances(w)
  <1> USE DEF store, Unlocked
  <1>0. /\ sync \in [Workers -> SyncFrame] /\ sync[w] \in SyncFrame
        /\ feedLock \in [Feeds -> Workers \cup {None}] /\ health \in [Feeds -> FeedHealth]
    BY DEF TypeOK
  <1>1. UNCHANGED <<dsv, imports, clock, lastActivated>>
    BY DEF Trigger, Acquire, AlreadyInProgress, DiscardToken, StopCancelled,
       StartAttempt, Retry, GiveUp, Succeed, RecordFailure, HandlerRaises
  <1>2. SameNamed
    <2>1. CASE RecordFailure(w)
      <3>1. ASSUME NEW f \in Feeds PROVE FailureRecorded(health[f]).active = health[f].active
        BY <1>0 DEF FailureRecorded, FeedHealth
      <3> QED
        BY <1>0, <2>1, <3>1 DEF RecordFailure, SameNamed
    <2>2. CASE UNCHANGED health
      BY <2>2 DEF SameNamed
    <2> QED
      BY <2>1, <2>2 DEF Trigger, Acquire, AlreadyInProgress, DiscardToken, StopCancelled,
         StartAttempt, Retry, GiveUp, Succeed, HandlerRaises
  <1>3. {"idle", "checked", "acquired", "ready", "backoff", "fetching"} \cap InRun = {}
    BY DEF InRun, Executing, Handling
  <1>4. ASSUME NEW f \in Feeds, Trigger(w, f) PROVE Advances(w)
    <2> DEFINE fr == [NoSync EXCEPT !.pc = "checked", !.feed = f]
    <2>1. fr.pc = "checked" /\ fr.feed = f
      BY DEF NoSync
    <2>2. sync' = [sync EXCEPT ![w] = fr] /\ UNCHANGED feedLock
      BY <1>4 DEF Trigger
    <2> HIDE DEF fr
    <2>3. sync'[w] = fr
      BY <1>0, <2>2
    <2> QED
      BY <1>1, <1>2, <1>3, <2>1, <2>2, <2>3 DEF Advances, Leaves
  <1>5. CASE AlreadyInProgress(w) \/ StopCancelled(w) \/ GiveUp(w) \/ Succeed(w)
    <2>1. sync' = [sync EXCEPT ![w] = NoSync]
      BY <1>5 DEF AlreadyInProgress, StopCancelled, GiveUp, Succeed, Return
    <2>2. sync'[w] = NoSync /\ NoSync.pc = "idle"
      BY <1>0, <2>1 DEF NoSync
    <2>3. \/ UNCHANGED feedLock
          \/ /\ sync[w].pc \in Holding
             /\ feedLock' = [feedLock EXCEPT ![sync[w].feed] = None]
      BY <1>5 DEF AlreadyInProgress, StopCancelled, GiveUp, Succeed, Return, At,
         Holding, Executing
    <2>4. \A f \in Feeds : feedLock[f] \notin {w, None} => feedLock'[f] = feedLock[f]
      BY <1>0, <2>3
    <2> QED
      BY <1>1, <1>2, <1>3, <2>1, <2>2, <2>4 DEF Advances, Leaves
  <1>6. CASE Acquire(w)
    <2>1. /\ sync[w].pc = "checked" /\ feedLock[sync[w].feed] = None
          /\ feedLock' = [feedLock EXCEPT ![sync[w].feed] = w] /\ Goto(w, "acquired")
      BY <1>6 DEF Acquire, At
    <2> QED
      BY <1>1, <1>2, <1>3, <2>1, Gone DEF Advances, Leaves, Carries
  <1>7. CASE DiscardToken(w) \/ RecordFailure(w) \/ HandlerRaises(w)
    <2>1. /\ Goto(w, "ready") \/ Goto(w, "backoff")
          /\ sync[w].pc \in Holding /\ UNCHANGED feedLock
      BY <1>7 DEF DiscardToken, RecordFailure, HandlerRaises, At, Holding, Handling
    <2> QED
      BY <1>1, <1>2, <1>3, <2>1, Gone DEF Advances, Leaves, Carries
  <1>8. CASE StartAttempt(w)
    <2> DEFINE fr == [sync[w] EXCEPT !.pc = "fetching", !.version = None, !.copy = NoRow]
    <2>1. sync[w].pc \in Holding /\ sync' = [sync EXCEPT ![w] = fr] /\ UNCHANGED feedLock
      BY <1>8 DEF StartAttempt, At, Holding
    <2>2. fr.pc = "fetching" /\ fr.version = None /\ fr.feed = sync[w].feed
      BY <1>0 DEF SyncFrame
    <2> HIDE DEF fr
    <2>3. sync'[w] = fr
      BY <1>0, <2>1
    <2> QED
      BY <1>1, <1>2, <1>3, <2>1, <2>2, <2>3 DEF Advances, Leaves
  <1>9. CASE Retry(w)
    <2> DEFINE fr == [sync[w] EXCEPT !.pc = "ready", !.attempt = @ + 1]
    <2>1. sync[w].pc \in Holding /\ sync' = [sync EXCEPT ![w] = fr] /\ UNCHANGED feedLock
      BY <1>9 DEF Retry, At, Holding
    <2>2. fr.pc = "ready" /\ fr.feed = sync[w].feed
      BY <1>0 DEF SyncFrame
    <2> HIDE DEF fr
    <2>3. sync'[w] = fr
      BY <1>0, <2>1
    <2> QED
      BY <1>1, <1>2, <1>3, <2>1, <2>2, <2>3 DEF Advances, Leaves
  <1> QED
    BY <1>4, <1>5, <1>6, <1>7, <1>8, <1>9

LEMMA HopsAll ==
  ASSUME TypeOK, NEW w \in Workers,
         \/ \E passed \in BOOLEAN : EvaluateTrust(w, passed)
         \/ ValidationPassed(w) \/ BuildRelationships(w) \/ CompleteImport(w)
         \/ RecordSuccess(w) \/ Raise(w) \/ FailImport(w)
  PROVE  Advances(w)
  <1> USE DEF store, Unlocked, At
  <1>0. /\ sync \in [Workers -> SyncFrame] /\ sync[w] \in SyncFrame
        /\ health \in [Feeds -> FeedHealth]
    BY DEF TypeOK
  <1>1. UNCHANGED <<dsv, clock, lastActivated, feedLock>>
    BY DEF EvaluateTrust, ValidationPassed, BuildRelationships, CompleteImport,
       RecordSuccess, Raise, FailImport
  <1>2. ASSUME NEW passed \in BOOLEAN, EvaluateTrust(w, passed) PROVE Advances(w)
    <2>1. ASSUME NEW f \in Feeds PROVE TrustRecorded(health[f], passed).active = health[f].active
      BY <1>0 DEF TrustRecorded, FeedHealth
    <2>2. SameNamed /\ UNCHANGED imports
      BY <1>0, <1>2, <2>1 DEF EvaluateTrust, SameNamed
    <2>3. /\ sync[w].pc = "created" /\ "created" \in Executing
          /\ Goto(w, "verified") \/ Goto(w, "failing")
      BY <1>2 DEF EvaluateTrust, Executing
    <2> QED
      BY <1>1, <2>2, <2>3, Gone DEF Advances, Hops
  <1>3. CASE ValidationPassed(w)
    <2> DEFINE fr == [sync[w] EXCEPT !.pc = "validated", !.copy.validation = "PASSED"]
    <2>1. /\ sync' = [sync EXCEPT ![w] = fr] /\ sync[w].pc = "verified"
          /\ UNCHANGED imports /\ SameNamed
      BY <1>3 DEF ValidationPassed, SameNamed
    <2>2. /\ fr.pc = "validated" /\ fr.feed = sync[w].feed /\ fr.version = sync[w].version
          /\ fr.copy.feed = sync[w].copy.feed /\ fr.copy.status = sync[w].copy.status
          /\ fr.copy.activated_at = sync[w].copy.activated_at
          /\ fr.copy.imported_at = sync[w].copy.imported_at /\ fr.copy.validation = "PASSED"
      BY <1>0 DEF SyncFrame, DatasetVersion
    <2> HIDE DEF fr
    <2>3. sync'[w] = fr
      BY <1>0, <2>1
    <2> QED
      BY <1>1, <2>1, <2>2, <2>3 DEF Advances, Hops, Carries
  <1>4. CASE BuildRelationships(w)
    <2>1. /\ sync[w].pc = "stored" /\ UNCHANGED imports /\ SameNamed
          /\ \/ Goto(w, "built")
             \/ Goto(w, "notified") /\ sync[w].feed \notin AutoActivate
      BY <1>4 DEF BuildRelationships, SameNamed
    <2> QED
      BY <1>1, <2>1, Gone DEF Advances, Hops
  <1>5. CASE CompleteImport(w)
    <2>1. /\ sync[w].pc = "saved" /\ Goto(w, "completed") /\ SameNamed
          /\ imports' = [imports EXCEPT ![sync[w].version] = "COMPLETED"]
      BY <1>5 DEF CompleteImport, SameNamed
    <2> QED
      BY <1>1, <2>1, Gone DEF Advances, Hops
  <1>6. CASE RecordSuccess(w)
    <2>1. ASSUME NEW f \in Feeds
          PROVE  health'[f].active = IF f = sync[w].feed THEN sync[w].version ELSE health[f].active
      BY <1>0, <1>6 DEF RecordSuccess, SuccessRecorded
    <2>2. sync[w].pc = "completed" /\ Goto(w, "recorded") /\ UNCHANGED imports
      BY <1>6 DEF RecordSuccess
    <2> QED
      BY <1>1, <2>1, <2>2, Gone DEF Advances, Hops
  <1>7. CASE Raise(w)
    <2>1. sync[w].pc \in Executing /\ UNCHANGED imports /\ SameNamed
      BY <1>7 DEF Raise, SameNamed
    <2>2. CASE Goto(w, "failing")
      BY <1>1, <2>1, <2>2, Gone DEF Advances, Hops
    <2>3. CASE /\ sync[w].pc = "verified"
               /\ sync' = [sync EXCEPT ![w].pc = "failing", ![w].copy.validation = "FAILED"]
      <3> DEFINE fr == [sync[w] EXCEPT !.pc = "failing", !.copy.validation = "FAILED"]
      <3>1. sync' = [sync EXCEPT ![w] = fr]
        BY <2>3
      <3>2. /\ fr.pc = "failing" /\ fr.feed = sync[w].feed /\ fr.version = sync[w].version
            /\ fr.copy.feed = sync[w].copy.feed /\ fr.copy.status = sync[w].copy.status
            /\ fr.copy.activated_at = sync[w].copy.activated_at
            /\ fr.copy.imported_at = sync[w].copy.imported_at /\ fr.copy.validation = "FAILED"
        BY <1>0 DEF SyncFrame, DatasetVersion
      <3> HIDE DEF fr
      <3>3. sync'[w] = fr
        BY <1>0, <3>1
      <3> QED
        BY <1>1, <2>1, <2>3, <3>1, <3>2, <3>3 DEF Advances, Hops, Carries
    <2> QED
      BY <1>7, <2>2, <2>3 DEF Raise
  <1>8. CASE FailImport(w)
    <2>1. /\ sync[w].pc = "failing" /\ SameNamed
          /\ \/ sync[w].version = None /\ UNCHANGED imports /\ Goto(w, "undone")
             \/ /\ sync[w].version # None /\ Goto(w, "import_failed")
                /\ imports' = [imports EXCEPT ![sync[w].version] = "FAILED"]
      BY <1>8 DEF FailImport, SameNamed
    <2> QED
      BY <1>1, <2>1, Gone DEF Advances, Hops
  <1> QED
    BY <1>2, <1>3, <1>4, <1>5, <1>6, <1>7, <1>8

LEMMA WritesAll ==
  ASSUME TypeOK, NEW w \in Workers,
         \/ \E v \in VersionIds : CreateVersion(w, v)
         \/ ValidationFailed(w) \/ StoreDataset(w) \/ SaveDuration(w) \/ FailVersion(w)
         \/ ActivateVersion(w) \/ ActivationFails(w) \/ OnActivate(w) \/ OnRollback(w)
  PROVE  Advances(w)
  <1> USE DEF Unlocked, At
  <1>0. /\ sync \in [Workers -> SyncFrame] /\ sync[w] \in SyncFrame
        /\ sync[w].copy \in DatasetVersion
    BY DEF TypeOK, SyncFrame
  <1>1. UNCHANGED <<imports, feedLock>> /\ SameNamed
    BY DEF CreateVersion, ValidationFailed, StoreDataset, SaveDuration, FailVersion,
       ActivateVersion, ActivationFails, OnActivate, OnRollback, SameNamed
  <1>2. ASSUME NEW v \in VersionIds, CreateVersion(w, v) PROVE Advances(w)
    <2> DEFINE row == [feed |-> sync[w].feed, status |-> "CREATED",
                       validation |-> "PENDING", imported_at |-> clock + 1,
                       activated_at |-> 0]
               fr == [sync[w] EXCEPT !.pc = "created", !.version = v, !.copy = row]
    <2>1. /\ sync' = [sync EXCEPT ![w] = fr] /\ sync[w].pc = "fetching"
          /\ dsv' = [dsv EXCEPT ![v] = row] /\ dsv[v].status = "ABSENT"
          /\ clock' = clock + 1 /\ UNCHANGED lastActivated
      BY <1>2 DEF CreateVersion
    <2>2. /\ fr.pc = "created" /\ fr.feed = sync[w].feed /\ fr.version = v /\ fr.copy = row
          /\ row.feed = sync[w].feed /\ row.status = "CREATED" /\ row.activated_at = 0
          /\ row.validation = "PENDING" /\ row.imported_at = clock + 1
      BY <1>0 DEF SyncFrame
    <2> HIDE DEF fr, row
    <2>3. sync'[w] = fr
      BY <1>0, <2>1
    <2> QED
      BY <1>1, <2>1, <2>2, <2>3 DEF Advances, Creates
  <1>3. ASSUME NEW row, NEW to,
               dsv' = [dsv EXCEPT ![sync[w].version] = row],
               sync' = [sync EXCEPT ![w] = [sync[w] EXCEPT !.pc = to, !.copy = row]]
        PROVE  /\ sync'[w].pc = to /\ sync'[w].copy = row
               /\ sync'[w].feed = sync[w].feed /\ sync'[w].version = sync[w].version
               /\ sync' = [sync EXCEPT ![w] = sync'[w]]
    <2> DEFINE fr == [sync[w] EXCEPT !.pc = to, !.copy = row]
    <2>1. fr.pc = to /\ fr.copy = row /\ fr.feed = sync[w].feed /\ fr.version = sync[w].version
      BY <1>0 DEF SyncFrame
    <2>2. sync' = [sync EXCEPT ![w] = fr]
      BY <1>3
    <2> HIDE DEF fr
    <2> QED
      BY <1>0, <2>1, <2>2
  <1>4. CASE ValidationFailed(w)
    <2> DEFINE row == [sync[w].copy EXCEPT !.status = "FAILED", !.validation = "FAILED"]
    <2>1. /\ row.feed = sync[w].copy.feed /\ row.status = "FAILED"
          /\ row.activated_at = sync[w].copy.activated_at
          /\ row.imported_at = sync[w].copy.imported_at /\ row.validation = "FAILED"
      BY <1>0 DEF DatasetVersion
    <2>2. /\ dsv' = [dsv EXCEPT ![sync[w].version] = row] /\ sync[w].pc = "verified"
          /\ sync' = [sync EXCEPT ![w] = [sync[w] EXCEPT !.pc = "failing", !.copy = row]]
          /\ UNCHANGED <<clock, lastActivated>>
      BY <1>4 DEF ValidationFailed, SaveVersion
    <2>3. /\ sync'[w].pc = "failing" /\ sync'[w].copy = row /\ sync'[w].feed = sync[w].feed
          /\ sync'[w].version = sync[w].version /\ sync' = [sync EXCEPT ![w] = sync'[w]]
      BY <1>3, <2>2
    <2> HIDE DEF row
    <2> QED
      BY <1>1, <2>1, <2>2, <2>3 DEF Advances, Saves
  <1>5. CASE StoreDataset(w)
    <2> DEFINE row == [sync[w].copy EXCEPT !.status = "STORED"]
    <2>1. /\ row.feed = sync[w].copy.feed /\ row.status = "STORED"
          /\ row.activated_at = sync[w].copy.activated_at
          /\ row.imported_at = sync[w].copy.imported_at /\ row.validation = sync[w].copy.validation
      BY <1>0 DEF DatasetVersion
    <2>2. /\ dsv' = [dsv EXCEPT ![sync[w].version] = row] /\ sync[w].pc = "validated"
          /\ sync' = [sync EXCEPT ![w] = [sync[w] EXCEPT !.pc = "stored", !.copy = row]]
          /\ UNCHANGED <<clock, lastActivated>>
      BY <1>5 DEF StoreDataset, SaveVersion
    <2>3. /\ sync'[w].pc = "stored" /\ sync'[w].copy = row /\ sync'[w].feed = sync[w].feed
          /\ sync'[w].version = sync[w].version /\ sync' = [sync EXCEPT ![w] = sync'[w]]
      BY <1>3, <2>2
    <2> HIDE DEF row
    <2> QED
      BY <1>1, <2>1, <2>2, <2>3 DEF Advances, Saves
  <1>6. CASE FailVersion(w)
    <2> DEFINE row == [sync[w].copy EXCEPT !.status = "FAILED"]
    <2>1. /\ row.feed = sync[w].copy.feed /\ row.status = "FAILED"
          /\ row.activated_at = sync[w].copy.activated_at
          /\ row.imported_at = sync[w].copy.imported_at /\ row.validation = sync[w].copy.validation
      BY <1>0 DEF DatasetVersion
    <2>2. /\ dsv' = [dsv EXCEPT ![sync[w].version] = row] /\ sync[w].pc = "import_failed"
          /\ sync' = [sync EXCEPT ![w] = [sync[w] EXCEPT !.pc = "marked", !.copy = row]]
          /\ UNCHANGED <<clock, lastActivated>>
      BY <1>6 DEF FailVersion, SaveVersion
    <2>3. /\ sync'[w].pc = "marked" /\ sync'[w].copy = row /\ sync'[w].feed = sync[w].feed
          /\ sync'[w].version = sync[w].version /\ sync' = [sync EXCEPT ![w] = sync'[w]]
      BY <1>3, <2>2
    <2> HIDE DEF row
    <2> QED
      BY <1>1, <2>1, <2>2, <2>3 DEF Advances, Saves
  <1>7. CASE SaveDuration(w)
    <2>1. /\ sync[w].pc = "notified" /\ dsv' = [dsv EXCEPT ![sync[w].version] = sync[w].copy]
          /\ Goto(w, "saved") /\ UNCHANGED <<clock, lastActivated>>
      BY <1>7 DEF SaveDuration, SaveVersion
    <2>2. sync' = [sync EXCEPT ![w] = [sync[w] EXCEPT !.pc = "saved", !.copy = sync[w].copy]]
      <3>1. [sync[w] EXCEPT !.pc = "saved"] = [sync[w] EXCEPT !.pc = "saved", !.copy = sync[w].copy]
        BY <1>0 DEF SyncFrame
      <3> QED
        BY <2>1, <3>1 DEF Goto
    <2>3. /\ sync'[w].pc = "saved" /\ sync'[w].copy = sync[w].copy
          /\ sync'[w].feed = sync[w].feed /\ sync'[w].version = sync[w].version
          /\ sync' = [sync EXCEPT ![w] = sync'[w]]
      BY <1>3, <2>1, <2>2
    <2> QED
      BY <1>1, <2>1, <2>3 DEF Advances, Saves
  <1>8. CASE ActivateVersion(w)
    <2> DEFINE fr == [sync[w] EXCEPT !.pc = "activated", !.copy = dsv'[sync[w].version]]
    <2>1. /\ sync[w].pc = "built" /\ SetActive(sync[w].feed, sync[w].version)
          /\ dsv[sync[w].version].validation # "FAILED"
          /\ sync' = [sync EXCEPT ![w] = fr]
      BY <1>8 DEF ActivateVersion
    <2>2. /\ fr.pc = "activated" /\ fr.feed = sync[w].feed /\ fr.version = sync[w].version
          /\ fr.copy = dsv'[sync[w].version]
      BY <1>0 DEF SyncFrame
    <2> HIDE DEF fr
    <2>3. sync'[w] = fr
      BY <1>0, <2>1
    <2> QED
      BY <1>1, <2>1, <2>2, <2>3 DEF Advances, Activates
  <1>9. CASE ActivationFails(w) \/ OnActivate(w) \/ OnRollback(w)
    <2>1. /\ \/ /\ SetActive(sync[w].feed, sync[w].version)
                /\ sync[w].pc = "built" \/ sync[w].feed \in ActivatingPlugins
             \/ UNCHANGED <<dsv, clock, lastActivated>>
          /\ \/ sync[w].pc = "built" /\ Goto(w, "failing")
             \/ sync[w].pc = "activated" /\ Goto(w, "notified")
             \/ sync[w].pc = "marked" /\ Goto(w, "undone")
      BY <1>9 DEF ActivationFails, OnActivate, OnRollback
    <2> QED
      BY <1>1, <2>1, Gone DEF Advances, Activates
  <1> QED
    BY <1>2, <1>4, <1>5, <1>6, <1>7, <1>8, <1>9

\* Every step of a thread that synchronises is one of these.
LEMMA WorkersAdvance ==
  ASSUME TypeOK, NEW w \in Workers, sync[w].pc \in Holding => feedLock[sync[w].feed] = w,
         WorkerStep(w) \/ \E f \in Feeds : Trigger(w, f)
  PROVE  Advances(w)
  BY LeavesAll, HopsAll, WritesAll DEF WorkerStep

-----------------------------------------------------------------------------
(* Whose rows a thread writes *)

\* A sync holds the lock of its feed, and its version is a row of that feed.
Placed(w) ==
    LET s == sync[w]
    IN  /\ s.pc # "idle" => s.feed \in Feeds
        /\ s.pc \in Holding => feedLock[s.feed] = w
        /\ s.pc = "fetching" => s.version = None
        /\ Owner(w) => /\ s.version \in VersionIds
                       /\ dsv[s.version].feed = s.feed /\ dsv[s.version].status # "ABSENT"
                       /\ s.copy.feed = s.feed /\ s.copy.status # "ABSENT"

\* A rollback replaces a version of its feed by another of that feed.
Aimed(o) ==
    LET r == rb[o]
    IN  /\ r.pc # "idle" => /\ r.feed \in Feeds /\ r.target \in VersionIds
                            /\ dsv[r.target].feed = r.feed
        /\ r.pc = "marking" => /\ r.current \in VersionIds
                               /\ dsv[r.current].feed = r.feed /\ r.copy.feed = r.feed

\* Health names a version of the feed.
NamesOwn ==
    \A f \in Feeds : LET v == health[f].active
                     IN  v # None => dsv[v].feed = f

PlaceInv ==
    /\ TypeOK
    /\ \A w \in Workers : VersionNamed(w) /\ Placed(w)
    /\ \A o \in Operators : Aimed(o)
    /\ RowsOwned /\ NamesOwn

\* A row that exists goes on to exist, in its feed.
RowsStay ==
    \A v \in VersionIds : dsv[v].status # "ABSENT"
                            => dsv'[v].feed = dsv[v].feed /\ dsv'[v].status # "ABSENT"

\* A step of w leaves the feeds alone whose lock w does not hold.
Local(w) ==
    /\ sync' = [sync EXCEPT ![w] = sync'[w]]
    /\ RowsStay /\ clock <= clock'
    /\ \A f \in Feeds :
          /\ feedLock[f] \notin {w, None} => feedLock'[f] = feedLock[f]
          /\ feedLock[f] # w =>
               /\ \A v \in VersionsOf(f) : dsv'[v] = dsv[v] /\ imports'[v] = imports[v]
               /\ ActiveOf(f)' = ActiveOf(f)
               /\ lastActivated'[f] = lastActivated[f]
               /\ health'[f].active = health[f].active

\* The rows of set_active_dataset_version.
LEMMA ActivatedRows ==
  ASSUME TypeOK, NEW f \in Feeds, NEW v \in VersionIds, SetActive(f, v), dsv[v].feed = f
  PROVE  /\ \A u \in VersionIds :
              /\ dsv'[u].feed = dsv[u].feed
              /\ dsv'[u].status = IF u = v THEN "ACTIVE"
                                  ELSE IF dsv[u].feed = f /\ dsv[u].status = "ACTIVE"
                                       THEN "ARCHIVED" ELSE dsv[u].status
              /\ dsv'[u].activated_at = IF u = v THEN clock + 1 ELSE dsv[u].activated_at
              /\ dsv'[u].imported_at = dsv[u].imported_at
              /\ dsv'[u].validation = dsv[u].validation
              /\ dsv[u].feed # f => dsv'[u] = dsv[u]
         /\ ActiveOf(f)' = {v}
         /\ clock' = clock + 1
         /\ lastActivated'[f] = v
         /\ \A g \in Feeds \ {f} : lastActivated'[g] = lastActivated[g]
  <1>1. ASSUME NEW u \in VersionIds
        PROVE  /\ dsv'[u].feed = dsv[u].feed
               /\ dsv'[u].status = IF u = v THEN "ACTIVE"
                                   ELSE IF dsv[u].feed = f /\ dsv[u].status = "ACTIVE"
                                        THEN "ARCHIVED" ELSE dsv[u].status
               /\ dsv'[u].activated_at = IF u = v THEN clock + 1 ELSE dsv[u].activated_at
               /\ dsv'[u].imported_at = dsv[u].imported_at
               /\ dsv'[u].validation = dsv[u].validation
               /\ dsv[u].feed # f => dsv'[u] = dsv[u]
    <2>1. dsv[u] \in DatasetVersion
      BY DEF TypeOK
    <2> QED
      BY <2>1 DEF SetActive, Activated, DatasetVersion
  <1>2. ActiveOf(f)' = {v}
    BY <1>1 DEF ActiveOf, VersionsOf
  <1> QED
    BY <1>1, <1>2 DEF SetActive, TypeOK

\* The feeds whose rows are untouched keep their ACTIVE ones.
LEMMA SameActive ==
  ASSUME NEW f \in Feeds, \A v \in VersionIds : dsv[v].feed = f \/ dsv'[v].feed = f => dsv'[v] = dsv[v]
  PROVE  ActiveOf(f)' = ActiveOf(f)
  BY DEF ActiveOf, VersionsOf

LEMMA AdvanceLocal ==
  ASSUME ConstantsAssumption, TypeOK, NEW w \in Workers, VersionNamed(w), Placed(w),
         RowsOwned, NamesOwn, Advances(w)
  PROVE  Local(w) /\ Placed(w)' /\ RowsOwned' /\ NamesOwn'
  <1>0. /\ sync \in [Workers -> SyncFrame] /\ sync[w] \in SyncFrame /\ clock \in Nat
        /\ dsv \in [VersionIds -> DatasetVersion] /\ feedLock \in [Feeds -> Workers \cup {None}]
        /\ imports \in [VersionIds -> {"UNFINISHED", "COMPLETED", "FAILED"}]
        /\ \A f \in Feeds : health[f].active \in VersionIds \cup {None}
        /\ sync[w].version \in VersionIds \cup {None}
    BY DEF TypeOK, SyncFrame, FeedHealth
  <1> DEFINE s == sync[w]
             t == sync'[w]
  <1>1. sync' = [sync EXCEPT ![w] = sync'[w]]
    BY DEF Advances
  <1>2. ASSUME UNCHANGED dsv, SameNamed \/ UNCHANGED health PROVE RowsOwned' /\ NamesOwn' /\ RowsStay
    BY <1>2 DEF RowsOwned, NamesOwn, SameNamed, RowsStay
  <1>3. CASE Leaves(w)
    <2>1. UNCHANGED <<dsv, imports, clock, lastActivated>> /\ SameNamed
      BY <1>3 DEF Leaves
    <2>2. Local(w)
      <3>1. \A f \in Feeds : feedLock[f] \notin {w, None} => feedLock'[f] = feedLock[f]
        BY <1>0, <1>3 DEF Leaves
      <3> QED
        BY <1>0, <1>1, <1>2, <2>1, <3>1 DEF Local, SameNamed, ActiveOf, VersionsOf
    <2>3. Placed(w)'
      <3>1. ~ Owner(w)'
        BY <1>3 DEF Leaves, Owner
      <3>2. CASE t.pc = "idle"
        BY <3>1, <3>2 DEF Placed, Holding, Executing, Handling
      <3>3. CASE t.pc = "checked" /\ t.feed \in Feeds
        BY <3>1, <3>3 DEF Placed, Holding, Executing, Handling
      <3>4. CASE /\ s.pc = "checked" /\ t.pc = "acquired" /\ t.feed = s.feed
                 /\ feedLock' = [feedLock EXCEPT ![s.feed] = w]
        BY <1>0, <3>1, <3>4 DEF Placed
      <3>5. CASE /\ s.pc \in Holding /\ t.feed = s.feed /\ UNCHANGED feedLock
                 /\ t.pc # "idle" /\ t.pc = "fetching" => t.version = None
        <4>1. s.pc # "idle"
          BY <3>5 DEF Holding, Executing, Handling
        <4> QED
          BY <3>1, <3>5, <4>1 DEF Placed
      <3> QED
        BY <1>3, <3>2, <3>3, <3>4, <3>5 DEF Leaves
    <2> QED
      BY <1>2, <2>1, <2>2, <2>3
  <1>4. ASSUME s.pc \in Executing \cup Handling
        PROVE  s.feed \in Feeds /\ feedLock[s.feed] = w /\ s.pc # "idle" /\ s.feed # None
    BY <1>4 DEF Placed, Holding, Executing, Handling, ConstantsAssumption
  <1>5. CASE Creates(w)
    <2> DEFINE v == t.version
               row == t.copy
    <2>1. /\ s.pc = "fetching" /\ t.pc = "created" /\ v \in VersionIds /\ dsv[v].status = "ABSENT"
          /\ dsv' = [dsv EXCEPT ![v] = row] /\ t.feed = s.feed
          /\ row.feed = s.feed /\ row.status = "CREATED" /\ clock' = clock + 1
          /\ t.version = v /\ t.copy = row
          /\ UNCHANGED <<imports, lastActivated, feedLock>> /\ SameNamed
      BY <1>5 DEF Creates
    <2>2. s.feed \in Feeds /\ feedLock[s.feed] = w /\ s.feed # None /\ dsv[v].feed = None
      BY <1>4, <2>1 DEF Executing, RowsOwned
    <2> HIDE DEF v, row, s, t
    <2>3. \A u \in VersionIds : dsv'[u] = IF u = v THEN row ELSE dsv[u]
      BY <1>0, <2>1
    <2>4. ASSUME NEW f \in Feeds, feedLock[f] # w PROVE ActiveOf(f)' = ActiveOf(f)
      BY <2>1, <2>2, <2>3, <2>4, SameActive DEF ConstantsAssumption
    <2>5. RowsStay
      BY <2>1, <2>3 DEF RowsStay
    <2>6. Local(w)
      BY <1>0, <1>1, <2>1, <2>2, <2>3, <2>4, <2>5 DEF Local, SameNamed, VersionsOf, ConstantsAssumption
    <2>7. Placed(w)'
      BY <2>1, <2>2, <2>3 DEF Placed, t
    <2>8. RowsOwned'
      BY <2>1, <2>2, <2>3 DEF RowsOwned
    <2>9. NamesOwn'
      BY <1>0, <2>1, <2>2, <2>3 DEF NamesOwn, SameNamed, ConstantsAssumption
    <2> QED
      BY <2>6, <2>7, <2>8, <2>9
  <1>6. CASE Hops(w)
    <2>1. /\ Carries(w) /\ UNCHANGED <<dsv, clock, lastActivated, feedLock>>
          /\ s.pc \in Executing \cup Handling /\ t.pc \in InRun
          /\ s.pc = "fetching" \/ s.pc \in InRun
      BY <1>6 DEF Hops, Executing, Handling, InRun
    <2>2. s.feed \in Feeds /\ feedLock[s.feed] = w /\ s.pc # "idle"
      BY <1>4, <2>1
    <2>3. Owner(w)' => Owner(w)
      BY <2>1 DEF Owner, Placed, Carries
    <2>4. Placed(w)'
      <3>1. t.pc # "fetching"
        BY <2>1 DEF InRun, Executing, Handling
      <3> QED
        BY <2>1, <2>2, <2>3, <3>1 DEF Placed, Carries
    <2>5. /\ \A v \in VersionIds : imports'[v] # imports[v] => Owner(w) /\ v = s.version
          /\ \A f \in Feeds : health'[f].active # health[f].active
                                => Owner(w) /\ f = s.feed /\ health'[f].active = s.version
      <3>1. s.pc \in {"saved", "completed"} => Owner(w)
        BY <1>0 DEF VersionNamed, Versioned, Executing, InRun, Owner, ConstantsAssumption
      <3>2. s.pc = "failing" => s.pc \in InRun
        BY DEF InRun, Handling
      <3> QED
        BY <1>0, <1>6, <3>1, <3>2 DEF Hops, SameNamed, Owner
    <2>6. RowsOwned' /\ RowsStay
      BY <1>2, <2>1 DEF RowsOwned, RowsStay
    <2>7. NamesOwn'
      BY <2>1, <2>5 DEF NamesOwn, Placed
    <2>8. Local(w)
      <3>1. \A f \in Feeds : ActiveOf(f)' = ActiveOf(f)
        BY <2>1 DEF ActiveOf, VersionsOf
      <3>2. \A v \in VersionIds : imports'[v] # imports[v] => dsv[v].feed = s.feed
        BY <2>5 DEF Placed
      <3> HIDE DEF s, t
      <3> QED
        BY <1>0, <1>1, <2>1, <2>2, <2>5, <2>6, <3>1, <3>2 DEF Local, VersionsOf
    <2> QED
      BY <2>4, <2>6, <2>7, <2>8
  <1>7. ASSUME s.pc \in Versioned
        PROVE  /\ s.version \in VersionIds /\ Owner(w) /\ s.pc \in Executing \cup Handling
               /\ dsv[s.version].feed = s.feed /\ s.copy.feed = s.feed
               /\ dsv[s.version].status # "ABSENT" /\ s.copy.status # "ABSENT"
    <2>1. s.version \in VersionIds /\ s.version # None
      BY <1>7 DEF VersionNamed, ConstantsAssumption
    <2>2. s.pc \in InRun /\ s.pc \in Executing \cup Handling
      BY <1>7 DEF Versioned, InRun, Executing, Handling
    <2> QED
      BY <2>1, <2>2 DEF Owner, Placed
  <1>8. CASE Saves(w)
    <2> DEFINE v == s.version
               row == t.copy
    <2>1. /\ s.pc \in Versioned /\ t.pc \in InRun /\ t.feed = s.feed /\ t.version = v
          /\ row.feed = s.copy.feed /\ row.status # "ABSENT" /\ t.copy = row
          /\ dsv' = [dsv EXCEPT ![v] = row]
          /\ UNCHANGED <<imports, clock, lastActivated, feedLock>> /\ SameNamed
      <3>1. s.pc \in Versioned /\ t.pc \in InRun
        BY <1>8 DEF Saves, Versioned, InRun, Executing, Handling
      <3> QED
        BY <1>7, <1>8, <3>1 DEF Saves
    <2>2. /\ v \in VersionIds /\ dsv[v].feed = s.feed /\ s.copy.feed = s.feed /\ row.feed = s.feed
          /\ s.feed \in Feeds /\ feedLock[s.feed] = w /\ s.feed # None /\ dsv[v].status # "ABSENT"
      BY <1>4, <1>7, <2>1
    <2>3. t.pc # "idle" /\ t.pc # "fetching"
      BY <2>1 DEF InRun, Executing, Handling
    <2> HIDE DEF v, row, s, t
    <2>4. \A u \in VersionIds : dsv'[u] = IF u = v THEN row ELSE dsv[u]
      BY <1>0, <2>1
    <2>5. ASSUME NEW f \in Feeds, feedLock[f] # w PROVE ActiveOf(f)' = ActiveOf(f)
      BY <2>2, <2>4, <2>5, SameActive
    <2>6. RowsStay /\ RowsOwned'
      BY <2>1, <2>2, <2>4 DEF RowsStay, RowsOwned
    <2>7. Local(w)
      BY <1>0, <1>1, <2>1, <2>2, <2>4, <2>5, <2>6 DEF Local, SameNamed, VersionsOf
    <2>8. Placed(w)'
      BY <2>1, <2>2, <2>3, <2>4 DEF Placed, t
    <2>9. NamesOwn'
      BY <1>0, <2>1, <2>2, <2>4 DEF NamesOwn, SameNamed
    <2> QED
      BY <2>6, <2>7, <2>8, <2>9
  <1>9. CASE Activates(w)
    <2> DEFINE v == s.version
    <2>1. /\ s.pc \in Versioned /\ t.pc \in InRun /\ t.feed = s.feed /\ t.version = v
          /\ UNCHANGED <<imports, feedLock>> /\ SameNamed
          /\ SetActive(s.feed, v) \/ UNCHANGED <<dsv, clock, lastActivated>>
          /\ Carries(w) \/ (SetActive(s.feed, v) /\ t.copy = dsv'[v])
      BY <1>9 DEF Activates, Versioned, InRun, Executing, Handling, Carries
    <2>2. /\ v \in VersionIds /\ dsv[v].feed = s.feed /\ s.copy.feed = s.feed
          /\ s.feed \in Feeds /\ feedLock[s.feed] = w /\ s.feed # None
          /\ dsv[v].status # "ABSENT" /\ s.copy.status # "ABSENT"
      BY <1>4, <1>7, <2>1
    <2>3. t.pc # "idle" /\ t.pc # "fetching"
      BY <2>1 DEF InRun, Executing, Handling
    <2>4. /\ RowsStay /\ clock <= clock' /\ RowsOwned'
          /\ \A u \in VersionIds : dsv'[u].feed = dsv[u].feed
          /\ \A u \in VersionIds : dsv[u].feed # s.feed => dsv'[u] = dsv[u]
          /\ \A f \in Feeds : f # s.feed => lastActivated'[f] = lastActivated[f]
      <3>1. CASE SetActive(s.feed, v)
        <4> HIDE DEF v, s
        <4> QED
          BY <1>0, <2>2, <3>1, ActivatedRows DEF RowsStay, RowsOwned
      <3>2. CASE UNCHANGED <<dsv, clock, lastActivated>>
        BY <1>0, <3>2 DEF RowsStay, RowsOwned
      <3> QED
        BY <2>1, <3>1, <3>2
    <2>5. t.copy.feed = s.feed /\ t.copy.status # "ABSENT"
      BY <2>1, <2>2, <2>4 DEF Carries, RowsStay
    <2> HIDE DEF v, s, t
    <2>6. ASSUME NEW f \in Feeds, feedLock[f] # w PROVE ActiveOf(f)' = ActiveOf(f)
      BY <2>2, <2>4, <2>6, SameActive
    <2>7. Local(w)
      BY <1>0, <1>1, <2>1, <2>2, <2>4, <2>6 DEF Local, SameNamed, VersionsOf
    <2>8. Placed(w)'
      BY <2>1, <2>2, <2>3, <2>4, <2>5 DEF Placed, t, RowsStay
    <2>9. NamesOwn'
      BY <1>0, <2>1, <2>4 DEF NamesOwn, SameNamed
    <2> QED
      BY <2>4, <2>7, <2>8, <2>9
  <1> QED
    BY <1>3, <1>5, <1>6, <1>8, <1>9 DEF Advances

\* What a step of w leaves alone.
LEMMA Undisturbed ==
  ASSUME ConstantsAssumption, TypeOK, NEW w \in Workers, NEW x \in Workers, x # w,
         Placed(x), Local(w)
  PROVE  /\ sync'[x] = sync[x]
         /\ sync[x].pc \in Holding => feedLock'[sync[x].feed] = feedLock[sync[x].feed]
         /\ Owner(x)' <=> Owner(x)
         /\ Owner(x) => /\ sync[x].version \in VersionIds
                        /\ dsv'[sync[x].version] = dsv[sync[x].version]
                        /\ imports'[sync[x].version] = imports[sync[x].version]
         /\ Owner(x) => \E f \in Feeds :
              /\ f = sync[x].feed
              /\ lastActivated'[f] = lastActivated[f] /\ ActiveOf(f)' = ActiveOf(f)
              /\ health'[f].active = health[f].active
              /\ \A u \in ActiveOf(f) : dsv'[u] = dsv[u]
  <1> DEFINE s == sync[x]
  <1>1. sync'[x] = s
    BY DEF Local, TypeOK
  <1>2. Owner(x)' <=> Owner(x)
    BY <1>1 DEF Owner
  <1>3. ASSUME s.pc \in Holding
        PROVE  s.feed \in Feeds /\ feedLock[s.feed] = x /\ feedLock'[s.feed] = x
    <2>1. s.pc # "idle"
      BY <1>3 DEF Holding, Executing, Handling
    <2>2. s.feed \in Feeds /\ feedLock[s.feed] = x
      BY <1>3, <2>1 DEF Placed
    <2> QED
      BY <2>2 DEF Local, ConstantsAssumption
  <1>4. ASSUME Owner(x)
        PROVE  /\ s.feed \in Feeds /\ s.version \in VersionsOf(s.feed) /\ feedLock[s.feed] # w
    <2>1. s.pc \in Holding
      BY <1>4 DEF Owner, InRun, Holding
    <2> QED
      BY <1>3, <1>4, <2>1 DEF Placed, VersionsOf
  <1>5. \A f \in Feeds : ActiveOf(f) \subseteq VersionsOf(f)
    BY DEF ActiveOf
  <1> HIDE DEF s
  <1>6. ASSUME Owner(x), NEW f \in Feeds, f = s.feed
        PROVE  /\ s.version \in VersionIds
               /\ dsv'[s.version] = dsv[s.version] /\ imports'[s.version] = imports[s.version]
               /\ lastActivated'[f] = lastActivated[f] /\ ActiveOf(f)' = ActiveOf(f)
               /\ health'[f].active = health[f].active
               /\ \A u \in ActiveOf(f) : dsv'[u] = dsv[u]
    <2>1. s.version \in VersionsOf(f) /\ feedLock[f] # w
      BY <1>4, <1>6
    <2>2. /\ \A v \in VersionsOf(f) : dsv'[v] = dsv[v] /\ imports'[v] = imports[v]
          /\ ActiveOf(f)' = ActiveOf(f)
          /\ lastActivated'[f] = lastActivated[f]
          /\ health'[f].active = health[f].active
      BY <2>1 DEF Local
    <2>3. s.version \in VersionIds
      BY <2>1 DEF VersionsOf
    <2> QED
      BY <1>5, <2>1, <2>2, <2>3
  <1> QED
    BY <1>1, <1>2, <1>3, <1>4, <1>6 DEF s

LEMMA OthersPlaced ==
  ASSUME ConstantsAssumption, TypeOK, NEW w \in Workers, NEW x \in Workers, x # w,
         Placed(x), Local(w)
  PROVE  Placed(x)'
  BY Undisturbed DEF Placed

\* The two transactions of a rollback.
Marks(o) ==
    /\ rb[o].pc = "marking" /\ rb'[o].pc = "activating"
    /\ rb'[o].feed = rb[o].feed /\ rb'[o].target = rb[o].target
    /\ rb'[o].explicit = rb[o].explicit
    /\ \E row : /\ dsv' = [dsv EXCEPT ![rb[o].current] = row]
                /\ row.feed = rb[o].copy.feed /\ row.status = "ROLLED_BACK"
                /\ row.activated_at = rb[o].copy.activated_at
                /\ row.imported_at = rb[o].copy.imported_at
                /\ row.validation = rb[o].copy.validation
    /\ UNCHANGED <<clock, lastActivated>>
Restores(o) ==
    /\ rb[o].pc = "activating" /\ rb'[o].pc = "idle"
    /\ SetActive(rb[o].feed, rb[o].target)
Intrudes(o) ==
    /\ rb' = [rb EXCEPT ![o] = rb'[o]]
    /\ UNCHANGED <<imports, health, feedLock, sync>>
    /\ Marks(o) \/ Restores(o)

LEMMA OperatorsIntrude ==
  ASSUME TypeOK, NEW o \in Operators, OperatorStep(o)
  PROVE  \/ Intrudes(o)
         \/ /\ rb'[o].pc = "idle" /\ rb' = [rb EXCEPT ![o] = rb'[o]]
            /\ UNCHANGED <<dsv, imports, health, clock, lastActivated, feedLock, sync>>
  <1>0. rb \in [Operators -> RollbackFrame] /\ rb[o] \in RollbackFrame /\ rb[o].copy \in DatasetVersion
    BY DEF TypeOK, RollbackFrame
  <1>1. CASE MarkRolledBack(o)
    <2> DEFINE row == [rb[o].copy EXCEPT !.status = "ROLLED_BACK"]
               fr == [rb[o] EXCEPT !.pc = "activating"]
    <2>1. /\ row.feed = rb[o].copy.feed /\ row.status = "ROLLED_BACK"
          /\ row.activated_at = rb[o].copy.activated_at
          /\ row.imported_at = rb[o].copy.imported_at /\ row.validation = rb[o].copy.validation
      BY <1>0 DEF DatasetVersion
    <2>2. /\ fr.pc = "activating" /\ fr.feed = rb[o].feed /\ fr.target = rb[o].target
          /\ fr.explicit = rb[o].explicit
      BY <1>0 DEF RollbackFrame
    <2>3. /\ rb[o].pc = "marking" /\ dsv' = [dsv EXCEPT ![rb[o].current] = row]
          /\ rb' = [rb EXCEPT ![o] = fr]
          /\ UNCHANGED <<imports, health, clock, lastActivated, feedLock, sync>>
      BY <1>1 DEF MarkRolledBack, SaveVersion
    <2> HIDE DEF row, fr
    <2>4. rb'[o] = fr
      BY <1>0, <2>3
    <2> QED
      BY <2>1, <2>2, <2>3, <2>4 DEF Intrudes, Marks
  <1>2. CASE ActivateTarget(o)
    <2>1. rb' = [rb EXCEPT ![o] = NoRollback] /\ rb'[o] = NoRollback /\ NoRollback.pc = "idle"
      BY <1>0, <1>2 DEF ActivateTarget, NoRollback
    <2> QED
      BY <1>2, <2>1 DEF ActivateTarget, Intrudes, Restores
  <1>3. CASE RollbackFails(o)
    <2>1. rb' = [rb EXCEPT ![o] = NoRollback] /\ rb'[o] = NoRollback /\ NoRollback.pc = "idle"
      BY <1>0, <1>3 DEF RollbackFails, NoRollback
    <2> QED
      BY <1>3, <2>1 DEF RollbackFails, store
  <1> QED
    BY <1>1, <1>2, <1>3 DEF OperatorStep

\* A request for a rollback has read the versions of the feed: it replaces the newest
\* ACTIVE one, and what it chose itself is a candidate.
Requested(o) ==
    LET r == rb'[o]
    IN  /\ r.pc \in {"marking", "activating"}
        /\ r.pc = "marking" => /\ r.copy = dsv[r.current] /\ dsv[r.current].status = "ACTIVE"
                               /\ Newest(r.current, ActiveOf(r.feed))
        /\ r.pc = "activating" => ActiveOf(r.feed) = {}
        /\ ~ r.explicit => r.target \in Candidates(r.feed)

\* What a rollback leaves to everybody.
LEMMA IntrusionGentle ==
  ASSUME ConstantsAssumption, TypeOK, NEW o \in Operators, Aimed(o), RowsOwned, NamesOwn, Intrudes(o)
  PROVE  /\ RowsStay /\ RowsOwned' /\ NamesOwn' /\ clock <= clock'
         /\ \A v \in VersionIds : dsv'[v].feed = dsv[v].feed
         /\ \A v \in VersionIds : dsv'[v].status \in {dsv[v].status, "ROLLED_BACK", "ARCHIVED", "ACTIVE"}
         /\ \A f \in Feeds : f # rb[o].feed => /\ ActiveOf(f)' = ActiveOf(f)
                                               /\ lastActivated'[f] = lastActivated[f]
         /\ \A v \in VersionIds : dsv[v].feed # rb[o].feed => dsv'[v] = dsv[v]
  <1>0. dsv \in [VersionIds -> DatasetVersion] /\ clock \in Nat
    BY DEF TypeOK
  <1> DEFINE f == rb[o].feed
  <1>1. CASE Marks(o)
    <2> DEFINE c == rb[o].current
    <2>1. /\ f \in Feeds /\ f # None /\ c \in VersionIds /\ dsv[c].feed = f /\ dsv[c].status # "ABSENT"
          /\ rb[o].copy.feed = f
      BY <1>1 DEF Marks, Aimed, ConstantsAssumption, RowsOwned
    <2>2. PICK row : /\ dsv' = [dsv EXCEPT ![c] = row] /\ row.feed = f /\ row.status = "ROLLED_BACK"
      BY <1>1, <2>1 DEF Marks
    <2>3. \A u \in VersionIds : dsv'[u] = IF u = c THEN row ELSE dsv[u]
      BY <1>0, <2>2
    <2>4. UNCHANGED <<clock, lastActivated>> /\ UNCHANGED <<health, imports>>
      BY <1>1 DEF Marks, Intrudes
    <2> HIDE DEF f, c
    <2>5. \A g \in Feeds : g # f => ActiveOf(g)' = ActiveOf(g)
      BY <2>1, <2>2, <2>3, SameActive
    <2>6. RowsStay /\ RowsOwned' /\ NamesOwn'
      <3>1. RowsStay /\ RowsOwned'
        BY <2>1, <2>2, <2>3 DEF RowsStay, RowsOwned
      <3>2. \A g \in Feeds : health[g].active \in VersionIds \cup {None}
        BY DEF TypeOK, FeedHealth
      <3> QED
        BY <2>1, <2>2, <2>3, <2>4, <3>1, <3>2 DEF NamesOwn
    <2> QED
      BY <1>0, <2>1, <2>2, <2>3, <2>4, <2>5, <2>6 DEF f
  <1>2. CASE Restores(o)
    <2> DEFINE v == rb[o].target
    <2>1. f \in Feeds /\ f # None /\ v \in VersionIds /\ dsv[v].feed = f /\ SetActive(f, v)
      BY <1>2 DEF Restores, Aimed, ConstantsAssumption
    <2>2. dsv[v].status # "ABSENT"
      BY <2>1 DEF RowsOwned
    <2>3. UNCHANGED <<health, imports>>
      BY DEF Intrudes
    <2> HIDE DEF f, v
    <2>4. /\ \A u \in VersionIds :
              /\ dsv'[u].feed = dsv[u].feed
              /\ dsv'[u].status = IF u = v THEN "ACTIVE"
                                  ELSE IF dsv[u].feed = f /\ dsv[u].status = "ACTIVE"
                                       THEN "ARCHIVED" ELSE dsv[u].status
              /\ dsv[u].feed # f => dsv'[u] = dsv[u]
          /\ clock' = clock + 1
          /\ \A g \in Feeds \ {f} : lastActivated'[g] = lastActivated[g]
      BY <2>1, ActivatedRows
    <2>5. \A g \in Feeds : g # f => ActiveOf(g)' = ActiveOf(g)
      BY <2>1, <2>4, SameActive
    <2>6. RowsStay /\ RowsOwned' /\ NamesOwn'
      <3>1. \A g \in Feeds : health[g].active \in VersionIds \cup {None}
        BY DEF TypeOK, FeedHealth
      <3> QED
        BY <2>1, <2>2, <2>3, <2>4, <3>1 DEF NamesOwn, RowsStay, RowsOwned
    <2> QED
      BY <1>0, <2>4, <2>5, <2>6 DEF f
  <1> QED
    BY <1>1, <1>2 DEF Intrudes

\* A sync that a rollback interrupts keeps its place.
LEMMA IntrusionPlaced ==
  ASSUME TypeOK, NEW w \in Workers, Placed(w), RowsStay, UNCHANGED <<sync, feedLock>>
  PROVE  Placed(w)'
  BY DEF Placed, Owner, RowsStay

LEMMA AimKept ==
  ASSUME TypeOK, ConstantsAssumption, NEW o \in Operators, Aimed(o), RowsStay, RowsOwned, rb'[o] = rb[o]
  PROVE  Aimed(o)'
  BY DEF Aimed, RowsStay, RowsOwned, ConstantsAssumption

\* Rollback: a request that is accepted takes its rows from list_dataset_versions.
LEMMA RollbackAims ==
  ASSUME TypeOK, ConstantsAssumption, NEW o \in Operators, NEW f \in Feeds,
         NEW requested \in VersionIds \cup {None}, NEW current \in VersionIds \cup {None},
         NEW target \in VersionIds \cup {None}, Rollback(o, f, requested, current, target)
  PROVE  /\ Aimed(o)' /\ \A p \in Operators \ {o} : rb'[p] = rb[p]
         /\ UNCHANGED <<dsv, imports, health, clock, lastActivated, feedLock, sync>>
         /\ Requested(o) /\ rb[o].pc = "idle" /\ managerLock = None
  <1>1. /\ target \in VersionsOf(f)
        /\ current # None => current \in ActiveOf(f)
    BY DEF Rollback, Newest, Candidates, VersionsOf
  <1>2. current \in ActiveOf(f) => current \in VersionIds /\ dsv[current].feed = f
    BY DEF ActiveOf, VersionsOf
  <1>3. /\ rb' = [rb EXCEPT ![o] = rb'[o]]
        /\ rb'[o].pc = (IF current = None THEN "activating" ELSE "marking")
        /\ rb'[o].feed = f /\ rb'[o].current = current /\ rb'[o].target = target
        /\ rb'[o].copy = (IF current = None THEN NoRow ELSE dsv[current])
    BY DEF Rollback, TypeOK
  <1>4. UNCHANGED <<dsv, imports, health, clock, lastActivated, feedLock, sync>>
    BY DEF Rollback, store
  <1>5. \A p \in Operators \ {o} : rb'[p] = rb[p]
    BY <1>3 DEF TypeOK
  <1>6. Aimed(o)'
    BY <1>1, <1>2, <1>3, <1>4 DEF Aimed, VersionsOf
  <1>7. Requested(o)
    <2>1. /\ rb'[o].explicit = (requested # None)
          /\ current = None <=> ActiveOf(f) = {}
          /\ current # None => Newest(current, ActiveOf(f))
          /\ requested = None => target \in Candidates(f)
      BY <1>1 DEF Rollback, TypeOK, Newest, ActiveOf, VersionsOf, ConstantsAssumption
    <2>2. current # None => dsv[current].status = "ACTIVE"
      BY <1>1 DEF ActiveOf
    <2> QED
      BY <1>3, <2>1, <2>2 DEF Requested
  <1> QED
    BY <1>3, <1>4, <1>5, <1>6, <1>7 DEF Rollback

\* Cancellations, requests for a rollback, rollbacks that raise and restarts leave the
\* tables as they are.
Quiet ==
    /\ UNCHANGED <<dsv, imports, health, clock, lastActivated>>
    /\ \A x \in Workers :
          \/ sync'[x].pc = "idle"
          \/ /\ sync'[x].pc = sync[x].pc /\ sync'[x].feed = sync[x].feed
             /\ sync'[x].version = sync[x].version /\ sync'[x].copy = sync[x].copy
             /\ UNCHANGED feedLock
    /\ \A o \in Operators :
          \/ rb'[o] = rb[o]
          \/ rb'[o].pc = "idle"
          \/ /\ Aimed(o)' /\ Requested(o)
             /\ rb[o].pc = "idle" /\ managerLock = None

\* All that happens: a sync goes on, a rollback goes on, or the tables are left alone.
Happens ==
    \/ \E w \in Workers : Advances(w) /\ Local(w) /\ UNCHANGED rb
    \/ \E o \in Operators : Intrudes(o)
    \/ Quiet

LEMMA QuietSteps ==
  ASSUME ConstantsAssumption, TypeOK,
         \/ \E f \in Feeds : Cancel(f)
         \/ \E o \in Operators, f \in Feeds :
              \E requested, current, target \in VersionIds \cup {None} :
                 Rollback(o, f, requested, current, target)
         \/ \E o \in Operators : OperatorStep(o) /\ ~ Intrudes(o)
         \/ Restart
         \/ UNCHANGED vars
  PROVE  Quiet
  <1>1. ASSUME NEW f \in Feeds, Cancel(f) PROVE Quiet
    <2>1. ASSUME NEW w \in Workers
          PROVE  /\ sync'[w].pc = sync[w].pc /\ sync'[w].feed = sync[w].feed
                 /\ sync'[w].version = sync[w].version /\ sync'[w].copy = sync[w].copy
      <3> DEFINE fr == [sync[w] EXCEPT !.asked = TRUE]
      <3>1. sync[w] \in SyncFrame
        BY DEF TypeOK
      <3>2. /\ fr.pc = sync[w].pc /\ fr.feed = sync[w].feed
            /\ fr.version = sync[w].version /\ fr.copy = sync[w].copy
        BY <3>1 DEF SyncFrame
      <3>3. sync'[w] \in {fr, sync[w]}
        BY <1>1 DEF Cancel
      <3> HIDE DEF fr
      <3> QED
        BY <3>2, <3>3
    <2> QED
      BY <1>1, <2>1 DEF Cancel, Quiet, store
  <1>2. ASSUME NEW o \in Operators, NEW f \in Feeds,
               NEW requested \in VersionIds \cup {None}, NEW current \in VersionIds \cup {None},
               NEW target \in VersionIds \cup {None}, Rollback(o, f, requested, current, target)
        PROVE  Quiet
    <2>1. /\ Aimed(o)' /\ \A p \in Operators \ {o} : rb'[p] = rb[p]
          /\ UNCHANGED <<dsv, imports, health, clock, lastActivated, feedLock, sync>>
          /\ Requested(o) /\ rb[o].pc = "idle" /\ managerLock = None
      BY <1>2, RollbackAims
    <2> QED
      BY <2>1 DEF Quiet
  <1>3. ASSUME NEW o \in Operators, OperatorStep(o), ~ Intrudes(o) PROVE Quiet
    <2>1. /\ rb'[o].pc = "idle" /\ rb' = [rb EXCEPT ![o] = rb'[o]]
          /\ UNCHANGED <<dsv, imports, health, clock, lastActivated, feedLock, sync>>
      BY <1>3, OperatorsIntrude
    <2>2. \A p \in Operators \ {o} : rb'[p] = rb[p]
      BY <2>1 DEF TypeOK
    <2> QED
      BY <2>1, <2>2 DEF Quiet
  <1>4. CASE Restart
    BY <1>4 DEF Restart, Quiet, NoSync, NoRollback, store
  <1>5. CASE UNCHANGED vars
    BY <1>5 DEF vars, Quiet
  <1> QED
    BY <1>1, <1>2, <1>3, <1>4, <1>5

LEMMA StepsAre ==
  ASSUME ConstantsAssumption, PlaceInv, [Next]_vars
  PROVE  Happens
  <1>1. ASSUME NEW w \in Workers, WorkerStep(w) \/ \E f \in Feeds : Trigger(w, f) PROVE Happens
    <2>1. Advances(w)
      BY <1>1, WorkersAdvance DEF PlaceInv, Placed
    <2>2. Local(w)
      BY <2>1, AdvanceLocal DEF PlaceInv
    <2>3. UNCHANGED rb
      BY <1>1 DEF WorkerStep, Trigger, Unlocked, Acquire, AlreadyInProgress, DiscardToken,
         StopCancelled, StartAttempt, Retry, GiveUp, CreateVersion, EvaluateTrust,
         ValidationPassed, ValidationFailed, StoreDataset, BuildRelationships,
         ActivateVersion, ActivationFails, OnActivate, SaveDuration, CompleteImport,
         RecordSuccess, Succeed, Raise, FailImport, FailVersion, OnRollback,
         RecordFailure, HandlerRaises
    <2> QED
      BY <2>1, <2>2, <2>3 DEF Happens
  <1>2. CASE \/ \E f \in Feeds : Cancel(f)
             \/ \E o \in Operators, f \in Feeds :
                  \E requested, current, target \in VersionIds \cup {None} :
                     Rollback(o, f, requested, current, target)
             \/ \E o \in Operators : OperatorStep(o)
             \/ Restart
             \/ UNCHANGED vars
    BY <1>2, QuietSteps DEF Happens, PlaceInv
  <1> QED
    BY <1>1, <1>2 DEF Next, Quiescent

LEMMA PlaceKept ==
  ASSUME ConstantsAssumption, PlaceInv, TypeOK', Happens,
         \A w \in Workers : VersionNamed(w)'
  PROVE  PlaceInv'
  <1> USE DEF PlaceInv
  <1>1. ASSUME NEW w \in Workers, Advances(w), Local(w), UNCHANGED rb PROVE PlaceInv'
    <2>1. Placed(w)' /\ RowsOwned' /\ NamesOwn'
      BY <1>1, AdvanceLocal
    <2>2. \A x \in Workers : Placed(x)'
      BY <1>1, <2>1, OthersPlaced
    <2>3. \A o \in Operators : Aimed(o)'
      BY <1>1, AimKept DEF Local
    <2> QED
      BY <2>1, <2>2, <2>3
  <1>2. ASSUME NEW o \in Operators, Intrudes(o) PROVE PlaceInv'
    <2>1. RowsStay /\ RowsOwned' /\ NamesOwn' /\ \A v \in VersionIds : dsv'[v].feed = dsv[v].feed
      BY <1>2, IntrusionGentle
    <2>2. \A x \in Workers : Placed(x)'
      BY <1>2, <2>1, IntrusionPlaced DEF Intrudes
    <2>3. ASSUME NEW p \in Operators PROVE Aimed(p)'
      <3>1. CASE p = o
        BY <1>2, <2>1, <3>1 DEF Aimed, Intrudes, Marks, Restores
      <3>2. CASE p # o
        BY <1>2, <2>1, <3>2, AimKept DEF Intrudes, TypeOK
      <3> QED
        BY <3>1, <3>2
    <2> QED
      BY <2>1, <2>2, <2>3
  <1>3. CASE Quiet
    <2>1. ASSUME NEW x \in Workers PROVE Placed(x)'
      <3>1. CASE sync'[x].pc = "idle"
        BY <3>1 DEF Placed, Owner, InRun, Holding, Executing, Handling
      <3>2. CASE /\ sync'[x].pc = sync[x].pc /\ sync'[x].feed = sync[x].feed
                 /\ sync'[x].version = sync[x].version /\ sync'[x].copy = sync[x].copy
                 /\ UNCHANGED feedLock
        BY <1>3, <3>2 DEF Placed, Owner, Quiet
      <3> QED
        BY <1>3, <3>1, <3>2 DEF Quiet
    <2>2. ASSUME NEW o \in Operators PROVE Aimed(o)'
      BY <1>3 DEF Quiet, Aimed
    <2> QED
      BY <1>3, <2>1, <2>2 DEF Quiet, RowsOwned, NamesOwn
  <1> QED
    BY <1>1, <1>2, <1>3 DEF Happens

LEMMA Placement == Spec => []PlaceInv
  <1> USE ConstantsAssumption
  <1>1. Init => PlaceInv
    <2> SUFFICES ASSUME Init PROVE PlaceInv
      OBVIOUS
    <2>1. TypeOK
      BY EmptyFrames DEF Init, TypeOK
    <2>2. \A w \in Workers : VersionNamed(w) /\ Placed(w)
      BY DEF Init, VersionNamed, Placed, Owner, InRun, NoSync, Versioned, Holding, Executing, Handling
    <2>3. \A o \in Operators : Aimed(o)
      BY DEF Init, Aimed, NoRollback
    <2>4. RowsOwned /\ NamesOwn
      BY DEF Init, RowsOwned, NamesOwn, NoRow, NoHealth
    <2> QED
      BY <2>1, <2>2, <2>3, <2>4 DEF PlaceInv
  <1>2. PlaceInv /\ TypeOK' /\ [Next]_vars => PlaceInv'
    <2> SUFFICES ASSUME PlaceInv, TypeOK', [Next]_vars PROVE PlaceInv'
      OBVIOUS
    <2>1. \A w \in Workers : VersionNamed(w)'
      <3>1. CASE Next
        BY <3>1, VersionKept DEF PlaceInv
      <3>2. CASE UNCHANGED vars
        BY <3>2 DEF vars, VersionNamed, PlaceInv
      <3> QED
        BY <3>1, <3>2
    <2> QED
      BY <2>1, StepsAre, PlaceKept
  <1> QED
    BY <1>1, <1>2, TypeCorrect, PTL DEF Spec

-----------------------------------------------------------------------------
(* What the imports say *)

\* Until it completes, a sync has no final record of its import and no failed object;
\* the handler fails the import before the dataset.
Progress(w) ==
    LET s == sync[w]
    IN  Owner(w) =>
          /\ s.pc \in {"created", "verified", "validated", "stored", "built", "activated",
                       "notified", "saved"} => imports[s.version] = "UNFINISHED"
          /\ s.pc \in {"created", "verified", "validated", "stored", "built", "activated",
                       "notified"} => s.copy.status # "FAILED"
          /\ s.pc = "saved" => dsv[s.version].status # "FAILED"
          /\ s.pc = "import_failed" => imports[s.version] = "FAILED"

ImportInv ==
    /\ \A w \in Workers : Progress(w)
    /\ CompletedImportKeepsDataset
    /\ \A v \in VersionIds : dsv[v].status = "ABSENT" => imports[v] = "UNFINISHED"

\* Steps that give no dataset the status FAILED and leave the imports alone.
LEMMA ImportsUntouched ==
  ASSUME ImportInv, UNCHANGED imports, RowsStay,
         \A v \in VersionIds : dsv'[v].status = "FAILED" => dsv[v].status = "FAILED"
  PROVE  CompletedImportKeepsDataset'
         /\ \A v \in VersionIds : dsv'[v].status = "ABSENT" => imports'[v] = "UNFINISHED"
  BY DEF ImportInv, CompletedImportKeepsDataset, RowsStay

LEMMA AdvanceKeepsImports ==
  ASSUME ConstantsAssumption, PlaceInv, PlaceInv', ImportInv, NEW w \in Workers,
         Advances(w), Local(w)
  PROVE  ImportInv'
  <1> DEFINE s == sync[w]
             t == sync'[w]
             v == sync[w].version
  <1>0. /\ dsv \in [VersionIds -> DatasetVersion]
        /\ imports \in [VersionIds -> {"UNFINISHED", "COMPLETED", "FAILED"}]
        /\ Placed(w) /\ VersionNamed(w) /\ Progress(w) /\ RowsStay /\ TypeOK
    BY DEF PlaceInv, TypeOK, ImportInv, Local
  <1>1. ASSUME Progress(w)' PROVE \A x \in Workers : Progress(x)'
    <2>1. ASSUME NEW x \in Workers, x # w PROVE Progress(x)'
      <3>1. Placed(x) /\ Progress(x)
        BY DEF PlaceInv, ImportInv
      <3> QED
        BY <1>0, <2>1, <3>1, Undisturbed DEF Progress
    <2> QED
      BY <1>1, <2>1
  <1>2. s.pc \in Versioned => v \in VersionIds /\ Owner(w)
    BY <1>0 DEF VersionNamed, Versioned, Owner, InRun, Handling, ConstantsAssumption
  <1>3. CASE Leaves(w)
    <2>1. Progress(w)'
      BY <1>3 DEF Leaves, Progress, Owner
    <2> QED
      BY <1>0, <1>1, <1>3, <2>1, ImportsUntouched DEF Leaves, ImportInv
  <1>4. CASE Creates(w)
    <2> DEFINE n == t.version
    <2>1. /\ n \in VersionIds /\ dsv[n].status = "ABSENT" /\ t.pc = "created"
          /\ dsv' = [dsv EXCEPT ![n] = t.copy] /\ t.copy.status = "CREATED" /\ UNCHANGED imports
      BY <1>4 DEF Creates
    <2>2. imports[n] = "UNFINISHED"
      BY <2>1 DEF ImportInv
    <2>3. \A u \in VersionIds : dsv'[u].status = IF u = n THEN "CREATED" ELSE dsv[u].status
      BY <1>0, <2>1
    <2>4. Progress(w)'
      BY <2>1, <2>2 DEF Progress
    <2> QED
      BY <1>0, <1>1, <2>1, <2>3, <2>4, ImportsUntouched DEF ImportInv
  <1>5. CASE Hops(w)
    <2>1. UNCHANGED dsv /\ Carries(w)
      BY <1>5 DEF Hops
    <2>2. CASE UNCHANGED imports /\ t.pc # "import_failed"
      <3>1. Progress(w)'
        <4>1. Owner(w)' => Owner(w)
          BY <1>5, <2>1 DEF Hops, Carries, Owner, InRun, Executing, Handling, Placed, PlaceInv
        <4> QED
          BY <1>0, <1>5, <2>1, <2>2, <4>1 DEF Hops, Carries, Progress
      <3> QED
        BY <1>0, <1>1, <2>1, <2>2, <3>1, ImportsUntouched DEF ImportInv
    <2>3. CASE s.pc = "saved" /\ t.pc = "completed" /\ imports' = [imports EXCEPT ![v] = "COMPLETED"]
      <3>1. v \in VersionIds /\ Owner(w)
        BY <1>2, <2>3 DEF Versioned, Executing
      <3>2. dsv[v].status # "FAILED" /\ dsv[v].status # "ABSENT"
        BY <1>0, <2>3, <3>1 DEF Progress, Placed
      <3>3. \A u \in VersionIds : imports'[u] = IF u = v THEN "COMPLETED" ELSE imports[u]
        BY <1>0, <2>3, <3>1
      <3>4. Progress(w)'
        BY <2>3 DEF Progress
      <3> HIDE DEF v
      <3>5. CompletedImportKeepsDataset'
        BY <2>1, <3>2, <3>3 DEF CompletedImportKeepsDataset, ImportInv
      <3> QED
        BY <1>1, <2>1, <3>2, <3>3, <3>4, <3>5 DEF ImportInv
    <2>4. CASE /\ s.pc = "failing" /\ t.pc = "import_failed" /\ v # None
               /\ imports' = [imports EXCEPT ![v] = "FAILED"]
      <3>1. v \in VersionIds /\ dsv[v].status # "ABSENT"
        BY <1>0, <2>4 DEF Owner, InRun, Handling, Placed
      <3>2. \A u \in VersionIds : imports'[u] = IF u = v THEN "FAILED" ELSE imports[u]
        BY <1>0, <2>4, <3>1
      <3>3. Progress(w)'
        BY <2>1, <2>4, <3>1, <3>2 DEF Progress, Carries
      <3> HIDE DEF v
      <3>4. CompletedImportKeepsDataset'
        BY <2>1, <3>2 DEF CompletedImportKeepsDataset, ImportInv
      <3> QED
        BY <1>1, <2>1, <3>1, <3>2, <3>3, <3>4 DEF ImportInv
    <2> QED
      BY <1>5, <2>2, <2>3, <2>4 DEF Hops
  <1>6. CASE Saves(w)
    <2>1. /\ dsv' = [dsv EXCEPT ![v] = t.copy] /\ t.version = v /\ UNCHANGED imports
          /\ s.pc \in Versioned
      BY <1>6 DEF Saves, Versioned, Executing
    <2>2. v \in VersionIds /\ Owner(w)
      BY <1>2, <2>1
    <2>3. \A u \in VersionIds : dsv'[u] = IF u = v THEN t.copy ELSE dsv[u]
      BY <1>0, <2>1, <2>2
    <2>4. t.copy.status = "FAILED" => imports[v] # "COMPLETED"
      BY <1>0, <1>6, <2>2 DEF Saves, Progress
    <2>5. Progress(w)'
      BY <1>0, <1>6, <2>1, <2>2, <2>3 DEF Saves, Progress
    <2>6. CompletedImportKeepsDataset'
      BY <2>1, <2>3, <2>4 DEF CompletedImportKeepsDataset, ImportInv
    <2>7. \A u \in VersionIds : dsv'[u].status = "ABSENT" => imports'[u] = "UNFINISHED"
      BY <1>0, <2>1 DEF RowsStay, ImportInv
    <2> QED
      BY <1>1, <2>5, <2>6, <2>7 DEF ImportInv
  <1>7. CASE Activates(w)
    <2>1. /\ UNCHANGED imports /\ s.pc \in Versioned /\ t.version = v
          /\ SetActive(s.feed, v) \/ UNCHANGED <<dsv, clock, lastActivated>>
      BY <1>7 DEF Activates, Versioned, Executing, Carries
    <2>2. v \in VersionIds /\ Owner(w) /\ dsv[v].feed = s.feed /\ s.feed \in Feeds
      <3>1. s.pc # "idle"
        BY <2>1 DEF Versioned, Executing
      <3> QED
        BY <1>0, <1>2, <2>1, <3>1 DEF Placed
    <2> HIDE DEF s, v
    <2>3. \A u \in VersionIds : dsv'[u].status = "FAILED" => dsv[u].status = "FAILED"
      <3>1. CASE SetActive(s.feed, v)
        BY <1>0, <2>2, <3>1, ActivatedRows
      <3>2. CASE UNCHANGED dsv
        BY <3>2
      <3> QED
        BY <2>1, <3>1, <3>2
    <2>4. SetActive(s.feed, v) => dsv'[v].status = "ACTIVE"
      BY <1>0, <2>2, ActivatedRows
    <2>5. Progress(w)'
      BY <1>0, <1>7, <2>1, <2>2, <2>4 DEF Activates, Carries, Progress, s, v
    <2> QED
      BY <1>0, <1>1, <2>1, <2>3, <2>5, ImportsUntouched DEF ImportInv
  <1> QED
    BY <1>3, <1>4, <1>5, <1>6, <1>7 DEF Advances

LEMMA ImportsKept ==
  ASSUME ConstantsAssumption, PlaceInv, PlaceInv', ImportInv, Happens
  PROVE  ImportInv'
  <1>1. CASE \E w \in Workers : Advances(w) /\ Local(w)
    BY <1>1, AdvanceKeepsImports
  <1>2. ASSUME NEW o \in Operators, Intrudes(o) PROVE ImportInv'
    <2>1. /\ RowsStay /\ UNCHANGED <<imports, sync>>
          /\ \A v \in VersionIds : dsv'[v].status = "FAILED" => dsv[v].status = "FAILED"
      BY <1>2, IntrusionGentle DEF PlaceInv, Intrudes
    <2>2. \A x \in Workers : Progress(x)'
      BY <2>1 DEF ImportInv, Progress, Owner, PlaceInv, Placed
    <2> QED
      BY <2>1, <2>2, ImportsUntouched DEF ImportInv
  <1>3. CASE Quiet
    <2>1. ASSUME NEW x \in Workers PROVE Progress(x)'
      <3>1. "idle" \notin InRun
        BY DEF InRun, Executing, Handling
      <3> QED
        BY <1>3, <3>1 DEF Quiet, Progress, Owner, ImportInv
    <2> QED
      BY <1>3, <2>1 DEF Quiet, ImportInv, CompletedImportKeepsDataset
  <1> QED
    BY <1>1, <1>2, <1>3 DEF Happens

LEMMA ImportsAgree == Spec => []ImportInv
  <1> USE ConstantsAssumption
  <1>1. Init => ImportInv
    BY DEF Init, ImportInv, Progress, Owner, InRun, NoSync, NoRow, Executing, Handling,
       CompletedImportKeepsDataset
  <1>2. PlaceInv /\ PlaceInv' /\ ImportInv /\ [Next]_vars => ImportInv'
    BY StepsAre, ImportsKept
  <1> QED
    BY <1>1, <1>2, Placement, PTL DEF Spec

\* FeedLifecycleRunner.execute: whatever raises and whoever rolls back meanwhile, an
\* import that is on record as COMPLETED has not lost its dataset.
THEOREM CompletedKeepsDataset == Spec => []CompletedImportKeepsDataset
  BY ImportsAgree, PTL DEF ImportInv

-----------------------------------------------------------------------------
(* When versions were activated *)

\* The object of a sync is not younger than the clock; it knows of its activation from
\* step 12 on, and whenever the health of the feed names it.
Timed(w) ==
    LET s == sync[w]
    IN  Owner(w) =>
          /\ s.copy.activated_at <= clock
          /\ s.copy.status = "ACTIVE" => s.copy.activated_at > 0
          /\ s.pc = "activated" => s.copy.activated_at > 0
          /\ s.feed \in AutoActivate =>
               /\ s.pc \in {"notified", "saved", "completed"} => s.copy.activated_at > 0
               /\ s.pc \in {"saved", "completed"} => dsv[s.version].activated_at > 0
               /\ health[s.feed].active = s.version => s.copy.activated_at > 0

TimedRollback(o) ==
    rb[o].pc = "marking" => rb[o].copy.activated_at > 0 /\ rb[o].copy.activated_at <= clock

TimeInv ==
    /\ \A w \in Workers : Timed(w)
    /\ \A o \in Operators : TimedRollback(o)
    /\ \A v \in VersionIds : /\ dsv[v].activated_at <= clock
                             /\ dsv[v].status = "ACTIVE" => dsv[v].activated_at > 0
    /\ \A f \in Feeds \cap AutoActivate :
          health[f].active # None => dsv[health[f].active].activated_at > 0

LEMMA AdvanceKeepsTimes ==
  ASSUME ConstantsAssumption, PlaceInv, PlaceInv', TimeInv, NEW w \in Workers,
         Advances(w), Local(w), UNCHANGED rb
  PROVE  TimeInv'
  <1> DEFINE s == sync[w]
             t == sync'[w]
             v == sync[w].version
  <1>0. /\ dsv \in [VersionIds -> DatasetVersion] /\ clock \in Nat /\ clock' \in Nat
        /\ clock <= clock'
        /\ Placed(w) /\ VersionNamed(w) /\ Timed(w) /\ RowsStay /\ TypeOK
        /\ \A u \in VersionIds : dsv[u].activated_at \in Nat
        /\ \A f \in Feeds : health[f].active \in VersionIds \cup {None}
        /\ \A x \in Workers : sync[x].copy.activated_at \in Nat
        /\ \A o \in Operators : rb[o].copy.activated_at \in Nat
    BY DEF PlaceInv, TypeOK, TimeInv, Local, DatasetVersion, FeedHealth, SyncFrame, RollbackFrame
  <1>1. ASSUME Timed(w)' PROVE \A x \in Workers : Timed(x)'
    <2>1. ASSUME NEW x \in Workers, x # w PROVE Timed(x)'
      <3>1. Placed(x) /\ Timed(x)
        BY DEF PlaceInv, TimeInv
      <3> QED
        BY <1>0, <2>1, <3>1, Undisturbed DEF Timed
    <2> QED
      BY <1>1, <2>1
  <1>2. \A o \in Operators : TimedRollback(o)'
    BY <1>0 DEF TimeInv, TimedRollback
  <1>3. s.pc \in Versioned => v \in VersionIds /\ Owner(w)
    BY <1>0 DEF VersionNamed, Versioned, Owner, InRun, Handling, ConstantsAssumption
  <1>4. CASE Leaves(w)
    <2>1. Timed(w)'
      BY <1>4 DEF Leaves, Timed, Owner
    <2> QED
      BY <1>1, <1>2, <1>4, <2>1 DEF Leaves, TimeInv, SameNamed
  <1>5. CASE Creates(w)
    <2> DEFINE n == t.version
    <2>1. /\ n \in VersionIds /\ dsv[n].status = "ABSENT" /\ t.pc = "created"
          /\ dsv' = [dsv EXCEPT ![n] = t.copy] /\ t.copy.status = "CREATED"
          /\ t.copy.activated_at = 0 /\ SameNamed
      BY <1>5 DEF Creates
    <2>2. /\ \A f \in Feeds : health[f].active # n
      <3>1. dsv[n].feed = None /\ n # None
        BY <2>1 DEF PlaceInv, RowsOwned, ConstantsAssumption
      <3> QED
        BY <3>1 DEF PlaceInv, NamesOwn, ConstantsAssumption
    <2>3. \A u \in VersionIds : dsv'[u] = IF u = n THEN t.copy ELSE dsv[u]
      BY <1>0, <2>1
    <2>4. Timed(w)'
      <3>1. t.feed \in AutoActivate => health'[t.feed].active # n
        BY <2>1, <2>2 DEF SameNamed, ConstantsAssumption
      <3> QED
        BY <1>0, <2>1, <3>1 DEF Timed
    <2> HIDE DEF n, t
    <2> QED
      BY <1>0, <1>1, <1>2, <2>1, <2>2, <2>3, <2>4 DEF TimeInv, SameNamed
  <1>6. CASE Hops(w)
    <2>1. UNCHANGED <<dsv, clock>> /\ Carries(w)
      BY <1>6 DEF Hops
    <2>2. Owner(w)' => Owner(w)
      BY <1>0, <1>6, <2>1 DEF Hops, Carries, Owner, InRun, Executing, Handling, Placed
    <2>3. CASE SameNamed
      <3>1. Timed(w)'
        <4>1. t.feed \in AutoActivate => health'[t.feed].active = health[s.feed].active
          BY <2>1, <2>3 DEF Carries, SameNamed, ConstantsAssumption
        <4> QED
          BY <1>0, <1>6, <2>1, <2>2, <4>1 DEF Hops, Carries, Timed
      <3> QED
        BY <1>1, <1>2, <2>1, <2>3, <3>1 DEF TimeInv, SameNamed
    <2>4. CASE /\ s.pc = "completed" /\ t.pc = "recorded"
               /\ \A f \in Feeds : health'[f].active = IF f = s.feed THEN v ELSE health[f].active
      <3>1. v \in VersionIds /\ Owner(w)
        BY <1>3, <2>4 DEF Versioned, Executing
      <3>2. s.feed \in AutoActivate => s.copy.activated_at > 0 /\ dsv[v].activated_at > 0
        BY <1>0, <2>4, <3>1 DEF Timed
      <3>3. Timed(w)'
        BY <1>0, <2>1, <2>4, <3>1, <3>2 DEF Carries, Timed
      <3> HIDE DEF s, v
      <3> QED
        BY <1>1, <1>2, <2>1, <2>4, <3>2, <3>3 DEF TimeInv
    <2> QED
      BY <1>6, <2>3, <2>4 DEF Hops
  <1>7. CASE Saves(w)
    <2>1. /\ dsv' = [dsv EXCEPT ![v] = t.copy] /\ t.version = v /\ t.feed = s.feed
          /\ t.copy.activated_at = s.copy.activated_at
          /\ t.copy.status = "ACTIVE" => s.copy.status = "ACTIVE"
          /\ s.pc \in Versioned /\ UNCHANGED clock /\ SameNamed
      BY <1>7 DEF Saves, Versioned, Executing
    <2>2. v \in VersionIds /\ Owner(w) /\ dsv[v].feed = s.feed /\ s.feed \in Feeds
      <3>1. s.pc # "idle"
        BY <2>1 DEF Versioned, Executing
      <3> QED
        BY <1>0, <1>3, <2>1, <3>1 DEF Placed
    <2>3. \A u \in VersionIds : dsv'[u] = IF u = v THEN t.copy ELSE dsv[u]
      BY <1>0, <2>1, <2>2
    <2>4. Timed(w)'
      <3>1. health'[s.feed].active = health[s.feed].active
        BY <2>1, <2>2 DEF SameNamed
      <3> QED
        BY <1>0, <1>7, <2>1, <2>2, <2>3, <3>1 DEF Saves, Timed
    <2>5. /\ s.copy.activated_at <= clock
          /\ t.copy.status = "ACTIVE" => t.copy.activated_at > 0
          /\ s.feed \in AutoActivate /\ health[s.feed].active = v => t.copy.activated_at > 0
      BY <1>0, <2>1, <2>2 DEF Timed
    <2>6. \A f \in Feeds : health[f].active = v => f = s.feed
      BY <2>2 DEF PlaceInv, NamesOwn, ConstantsAssumption
    <2> HIDE DEF s, t, v
    <2>7. \A u \in VersionIds : /\ dsv'[u].activated_at <= clock'
                                /\ dsv'[u].status = "ACTIVE" => dsv'[u].activated_at > 0
      BY <2>1, <2>3, <2>5 DEF TimeInv
    <2>8. \A f \in Feeds \cap AutoActivate :
             health'[f].active # None => dsv'[health'[f].active].activated_at > 0
      BY <1>0, <2>1, <2>3, <2>5, <2>6 DEF TimeInv, SameNamed
    <2> QED
      BY <1>1, <1>2, <2>4, <2>7, <2>8 DEF TimeInv
  <1>8. CASE Activates(w)
    <2>1. /\ s.pc \in Versioned /\ t.version = v /\ t.feed = s.feed /\ SameNamed
          /\ SetActive(s.feed, v) \/ UNCHANGED <<dsv, clock, lastActivated>>
      BY <1>8 DEF Activates, Versioned, Executing, Carries
    <2>2. v \in VersionIds /\ Owner(w) /\ dsv[v].feed = s.feed /\ s.feed \in Feeds
      <3>1. s.pc # "idle"
        BY <2>1 DEF Versioned, Executing
      <3> QED
        BY <1>0, <1>3, <2>1, <3>1 DEF Placed
    <2>3. health'[s.feed].active = health[s.feed].active
      BY <2>1, <2>2 DEF SameNamed
    <2> HIDE DEF s, v
    <2>4. \A u \in VersionIds : /\ dsv'[u].activated_at <= clock'
                                /\ dsv'[u].status = "ACTIVE" => dsv'[u].activated_at > 0
                                /\ dsv[u].activated_at <= dsv'[u].activated_at
                                /\ dsv'[u].activated_at \in Nat
      <3>1. CASE SetActive(s.feed, v)
        <4>1. \A u \in VersionIds :
                 /\ dsv'[u].activated_at = IF u = v THEN clock + 1 ELSE dsv[u].activated_at
                 /\ dsv'[u].status = "ACTIVE" => u = v \/ dsv[u].status = "ACTIVE"
          BY <1>0, <2>2, <3>1, ActivatedRows
        <4>2. clock' = clock + 1
          BY <3>1 DEF SetActive
        <4> QED
          BY <1>0, <4>1, <4>2 DEF TimeInv
      <3>2. CASE UNCHANGED <<dsv, clock, lastActivated>>
        BY <1>0, <3>2 DEF TimeInv
      <3> QED
        BY <2>1, <3>1, <3>2
    <2>5. SetActive(s.feed, v) => dsv'[v].activated_at = clock + 1 /\ clock' = clock + 1
      BY <1>0, <2>2, ActivatedRows
    <2>6. Timed(w)'
      <3>1. CASE t.pc = "activated"
        <4>1. t.copy = dsv'[v] /\ SetActive(s.feed, v)
          BY <1>8, <3>1 DEF Activates, s, v
        <4>2. t.copy.activated_at = clock + 1 /\ clock' = clock + 1
          BY <2>5, <4>1
        <4> QED
          BY <1>0, <3>1, <4>2 DEF Timed
      <3>2. CASE t.pc # "activated"
        <4>1. /\ Carries(w) /\ t.pc \in {"failing", "notified", "undone"}
              /\ t.pc = "notified" => s.pc = "activated"
          BY <1>8, <3>2 DEF Activates, s, v
        <4>2. /\ s.copy.activated_at <= clock'
              /\ s.copy.status = "ACTIVE" => s.copy.activated_at > 0
              /\ t.pc = "notified" => s.copy.activated_at > 0
              /\ s.feed \in AutoActivate /\ health'[s.feed].active = v => s.copy.activated_at > 0
          <5>1. s.copy.activated_at \in Nat
            BY <1>0 DEF s
          <5>2. Timed(w) /\ Owner(w)
            BY <1>0, <2>2
          <5> QED
            BY <1>0, <2>3, <4>1, <5>1, <5>2 DEF Timed, s, v
        <4>3. /\ t.feed = s.feed /\ t.version = v /\ t.copy.status = s.copy.status
              /\ t.copy.activated_at = s.copy.activated_at
          BY <4>1 DEF Carries, s, v
        <4>4. t.pc \notin {"activated", "saved", "completed"}
          BY <4>1
        <4> QED
          BY <4>2, <4>3, <4>4 DEF Timed
      <3> QED
        BY <3>1, <3>2
    <2>7. \A f \in Feeds \cap AutoActivate :
             health'[f].active # None => dsv'[health'[f].active].activated_at > 0
      BY <1>0, <2>1, <2>4 DEF TimeInv, SameNamed
    <2> QED
      BY <1>1, <1>2, <2>4, <2>6, <2>7 DEF TimeInv
  <1> QED
    BY <1>4, <1>5, <1>6, <1>7, <1>8 DEF Advances

LEMMA TimesKept ==
  ASSUME ConstantsAssumption, PlaceInv, PlaceInv', TimeInv, Happens
  PROVE  TimeInv'
  <1>0. /\ dsv \in [VersionIds -> DatasetVersion] /\ clock \in Nat /\ TypeOK
        /\ \A u \in VersionIds : dsv[u].activated_at \in Nat
        /\ \A f \in Feeds : health[f].active \in VersionIds \cup {None}
        /\ \A x \in Workers : sync[x].copy.activated_at \in Nat
        /\ \A o \in Operators : rb[o].copy.activated_at \in Nat
    BY DEF PlaceInv, TypeOK, DatasetVersion, FeedHealth, SyncFrame, RollbackFrame
  <1>1. CASE \E w \in Workers : Advances(w) /\ Local(w) /\ UNCHANGED rb
    BY <1>1, AdvanceKeepsTimes
  <1>2. ASSUME NEW o \in Operators, Intrudes(o) PROVE TimeInv'
    <2>1. /\ UNCHANGED <<imports, health, sync>> /\ RowsStay /\ clock <= clock' /\ clock' \in Nat
          /\ Aimed(o) /\ TimedRollback(o) /\ rb' = [rb EXCEPT ![o] = rb'[o]]
      BY <1>2, IntrusionGentle DEF PlaceInv, TypeOK, Intrudes, TimeInv
    <2>2. \A u \in VersionIds : /\ dsv'[u].activated_at <= clock'
                                /\ dsv'[u].status = "ACTIVE" => dsv'[u].activated_at > 0
                                /\ dsv[u].activated_at > 0 => dsv'[u].activated_at > 0
      <3>1. CASE Marks(o)
        <4> DEFINE c == rb[o].current
        <4>1. c \in VersionIds /\ rb[o].copy.activated_at > 0 /\ rb[o].copy.activated_at <= clock
          BY <2>1, <3>1 DEF Marks, Aimed, TimedRollback
        <4>2. PICK row : /\ dsv' = [dsv EXCEPT ![c] = row] /\ row.status = "ROLLED_BACK"
                         /\ row.activated_at = rb[o].copy.activated_at
          BY <3>1 DEF Marks
        <4>3. \A u \in VersionIds : dsv'[u] = IF u = c THEN row ELSE dsv[u]
          BY <1>0, <4>2
        <4>4. UNCHANGED clock
          BY <3>1 DEF Marks
        <4> HIDE DEF c
        <4> QED
          BY <1>0, <4>1, <4>2, <4>3, <4>4 DEF TimeInv
      <3>2. CASE Restores(o)
        <4> DEFINE f == rb[o].feed
                   v == rb[o].target
        <4>1. f \in Feeds /\ v \in VersionIds /\ dsv[v].feed = f /\ SetActive(f, v)
          BY <2>1, <3>2 DEF Restores, Aimed
        <4> HIDE DEF f, v
        <4>2. \A u \in VersionIds :
                 /\ dsv'[u].activated_at = IF u = v THEN clock + 1 ELSE dsv[u].activated_at
                 /\ dsv'[u].status = "ACTIVE" => u = v \/ dsv[u].status = "ACTIVE"
          BY <1>0, <4>1, ActivatedRows
        <4>3. clock' = clock + 1
          BY <4>1 DEF SetActive
        <4> QED
          BY <1>0, <4>2, <4>3 DEF TimeInv
      <3> QED
        BY <1>2, <3>1, <3>2 DEF Intrudes
    <2>3. ASSUME NEW x \in Workers PROVE Timed(x)'
      <3>1. Timed(x) /\ Placed(x)
        BY DEF TimeInv, PlaceInv
      <3>2. Owner(x)' <=> Owner(x)
        BY <2>1 DEF Owner
      <3>3. Owner(x) => sync[x].version \in VersionIds
        BY <3>1 DEF Placed
      <3> QED
        BY <1>0, <2>1, <2>2, <3>1, <3>2, <3>3 DEF Timed
    <2>4. ASSUME NEW p \in Operators PROVE TimedRollback(p)'
      <3>1. CASE p = o
        BY <1>2, <3>1 DEF Intrudes, Marks, Restores, TimedRollback
      <3>2. CASE p # o
        <4>1. rb'[p] = rb[p]
          BY <1>0, <2>1, <3>2 DEF TypeOK
        <4> QED
          BY <1>0, <2>1, <4>1 DEF TimedRollback, TimeInv
      <3> QED
        BY <3>1, <3>2
    <2> QED
      BY <1>0, <2>1, <2>2, <2>3, <2>4 DEF TimeInv
  <1>3. CASE Quiet
    <2>1. ASSUME NEW x \in Workers PROVE Timed(x)'
      <3>1. "idle" \notin InRun
        BY DEF InRun, Executing, Handling
      <3> QED
        BY <1>3, <3>1 DEF Quiet, Timed, Owner, TimeInv
    <2>2. ASSUME NEW o \in Operators PROVE TimedRollback(o)'
      <3>1. rb'[o].pc = "marking" /\ Aimed(o)' => rb'[o].current \in VersionIds
        BY DEF Aimed
      <3> QED
        BY <1>3, <3>1 DEF Quiet, Requested, TimedRollback, TimeInv
    <2> QED
      BY <1>3, <2>1, <2>2 DEF Quiet, TimeInv
  <1> QED
    BY <1>1, <1>2, <1>3 DEF Happens

LEMMA TimesAgree == Spec => []TimeInv
  <1> USE ConstantsAssumption
  <1>1. Init => TimeInv
    BY DEF Init, TimeInv, Timed, TimedRollback, Owner, InRun, NoSync, NoRow, NoHealth,
       NoRollback, Executing, Handling
  <1>2. PlaceInv /\ PlaceInv' /\ TimeInv /\ [Next]_vars => TimeInv'
    BY StepsAre, TimesKept
  <1> QED
    BY <1>1, <1>2, Placement, PTL DEF Spec

\* HealthMonitor.record_sync_success: where every feed is configured with auto_activate,
\* the version a feed's health names as active has been activated.
THEOREM HealthNames == AutoActivate = Feeds => (Spec => []HealthNamesActivated)
  <1> SUFFICES ASSUME AutoActivate = Feeds PROVE Spec => []HealthNamesActivated
    OBVIOUS
  <1>1. TimeInv => HealthNamesActivated
    BY DEF TimeInv, HealthNamesActivated
  <1> QED
    BY <1>1, TimesAgree, PTL

-----------------------------------------------------------------------------
(* Which version is served *)

\* From its activation to its last save, a sync knows the only ACTIVE version of the
\* feed: the one activated last. If that is not its own, its own was earlier.
Latest(w) ==
    LET s == sync[w]
    IN  Owner(w) =>
          /\ s.pc \in {"created", "verified", "validated", "stored", "built"}
               => s.copy.status # "ACTIVE"
          /\ (s.pc \in {"activated", "notified"} /\ s.copy.status = "ACTIVE") =>
               \A u \in ActiveOf(s.feed) :
                  /\ u = lastActivated[s.feed]
                  /\ u # s.version => s.copy.activated_at < dsv[u].activated_at

\* The version a feed activated last, if ACTIVE, is younger than all others that are.
LastIsYoungest(f) ==
    lastActivated[f] \in ActiveOf(f) =>
        \A u \in ActiveOf(f) \ {lastActivated[f]} :
            dsv[u].activated_at < dsv[lastActivated[f]].activated_at

LatestInv == /\ \A w \in Workers : Latest(w)
             /\ \A f \in Feeds : LastIsYoungest(f)

\* A feed nothing happens to.
LEMMA YoungestUntouched ==
  ASSUME NEW f \in Feeds, LastIsYoungest(f), lastActivated'[f] = lastActivated[f],
         ActiveOf(f)' = ActiveOf(f), \A u \in ActiveOf(f) : dsv'[u] = dsv[u]
  PROVE  LastIsYoungest(f)'
  BY DEF LastIsYoungest

\* A feed that has just activated a version.
LEMMA YoungestAlone ==
  ASSUME NEW f \in Feeds, NEW v, ActiveOf(f)' = {v}, lastActivated'[f] = v
  PROVE  LastIsYoungest(f)'
  BY DEF LastIsYoungest

LEMMA AdvanceKeepsLatest ==
  ASSUME ConstantsAssumption, PlaceInv, PlaceInv', TimeInv, LatestInv, NEW w \in Workers,
         Advances(w), Local(w)
  PROVE  LatestInv'
  <1> DEFINE s == sync[w]
             t == sync'[w]
             v == sync[w].version
  <1>0. /\ dsv \in [VersionIds -> DatasetVersion] /\ clock \in Nat
        /\ Placed(w) /\ VersionNamed(w) /\ Latest(w) /\ Timed(w) /\ TypeOK
        /\ s.copy.activated_at \in Nat
        /\ \A u \in VersionIds : dsv[u].activated_at \in Nat
    BY DEF PlaceInv, TypeOK, LatestInv, TimeInv, DatasetVersion, SyncFrame
  <1>1. ASSUME Latest(w)' PROVE \A x \in Workers : Latest(x)'
    <2>1. ASSUME NEW x \in Workers, x # w PROVE Latest(x)'
      <3>1. Placed(x) /\ Latest(x)
        BY DEF PlaceInv, LatestInv
      <3>2. Owner(x)' <=> Owner(x)
        BY <1>0, <2>1, <3>1, Undisturbed
      <3>3. CASE ~ Owner(x)
        BY <3>2, <3>3, <1>0, <2>1, <3>1, Undisturbed DEF Latest
      <3>4. CASE Owner(x)
        <4>1. PICK f \in Feeds : /\ f = sync[x].feed
                                 /\ lastActivated'[f] = lastActivated[f] /\ ActiveOf(f)' = ActiveOf(f)
                                 /\ \A u \in ActiveOf(f) : dsv'[u] = dsv[u]
          BY <1>0, <2>1, <3>1, <3>4, Undisturbed
        <4>2. sync'[x] = sync[x]
          BY <1>0, <2>1, <3>1, Undisturbed
        <4>3. f = sync'[x].feed
          BY <4>1, <4>2
        <4>4. /\ sync[x].pc \in {"created", "verified", "validated", "stored", "built"}
                   => sync[x].copy.status # "ACTIVE"
              /\ (sync[x].pc \in {"activated", "notified"} /\ sync[x].copy.status = "ACTIVE") =>
                   \A u \in ActiveOf(f) :
                      /\ u = lastActivated[f]
                      /\ u # sync[x].version => sync[x].copy.activated_at < dsv[u].activated_at
          BY <3>1, <3>4, <4>1 DEF Latest
        <4>5. /\ sync'[x].pc \in {"created", "verified", "validated", "stored", "built"}
                   => sync'[x].copy.status # "ACTIVE"
              /\ (sync'[x].pc \in {"activated", "notified"} /\ sync'[x].copy.status = "ACTIVE") =>
                   \A u \in ActiveOf(f)' :
                      /\ u = lastActivated'[f]
                      /\ u # sync'[x].version => sync'[x].copy.activated_at < dsv'[u].activated_at
          BY <4>1, <4>2, <4>4
        <4> QED
          BY <4>3, <4>5 DEF Latest
      <3> QED
        BY <3>3, <3>4
    <2> QED
      BY <1>1, <2>1
  <1>2. ASSUME NEW f \in Feeds, feedLock[f] # w PROVE LastIsYoungest(f)'
    <2>1. /\ \A u \in VersionsOf(f) : dsv'[u] = dsv[u]
          /\ ActiveOf(f)' = ActiveOf(f) /\ lastActivated'[f] = lastActivated[f]
      BY <1>2 DEF Local
    <2>2. \A u \in ActiveOf(f) : u \in VersionsOf(f)
      BY DEF ActiveOf
    <2> QED
      BY <2>1, <2>2, YoungestUntouched DEF LatestInv
  <1>3. ASSUME UNCHANGED <<dsv, lastActivated>>
        PROVE  \A f \in Feeds : LastIsYoungest(f)'
    BY <1>3 DEF LatestInv, LastIsYoungest, ActiveOf, VersionsOf
  <1>4. s.pc \in Versioned => v \in VersionIds /\ Owner(w)
    BY <1>0 DEF VersionNamed, Versioned, Owner, InRun, Handling, ConstantsAssumption
  <1>5. CASE Leaves(w)
    <2>1. Latest(w)'
      BY <1>5 DEF Leaves, Latest, Owner
    <2> QED
      BY <1>1, <1>3, <1>5, <2>1 DEF Leaves, LatestInv
  <1>6. CASE Creates(w)
    <2> DEFINE n == t.version
    <2>1. /\ n \in VersionIds /\ dsv[n].status = "ABSENT" /\ t.pc = "created"
          /\ dsv' = [dsv EXCEPT ![n] = t.copy] /\ t.copy.status = "CREATED"
          /\ UNCHANGED lastActivated
      BY <1>6 DEF Creates
    <2>2. Latest(w)'
      BY <2>1 DEF Latest
    <2>3. \A u \in VersionIds : dsv'[u] = IF u = n THEN t.copy ELSE dsv[u]
      BY <1>0, <2>1
    <2>4. ASSUME NEW f \in Feeds PROVE LastIsYoungest(f)'
      <3>1. ActiveOf(f)' = ActiveOf(f) /\ \A u \in ActiveOf(f) : dsv'[u] = dsv[u]
        BY <2>1, <2>3 DEF ActiveOf, VersionsOf
      <3> QED
        BY <2>1, <3>1, YoungestUntouched DEF LatestInv
    <2> QED
      BY <1>1, <2>2, <2>4 DEF LatestInv
  <1>7. CASE Hops(w)
    <2>1. UNCHANGED <<dsv, lastActivated>> /\ Carries(w)
      BY <1>7 DEF Hops
    <2>2. Owner(w)' => Owner(w)
      BY <1>0, <1>7, <2>1 DEF Hops, Carries, Owner, InRun, Executing, Handling, Placed
    <2>3. /\ t.pc # "activated"
          /\ t.pc = "notified" => s.pc = "stored"
          /\ t.pc \in {"created", "verified", "validated", "stored", "built"}
               => s.pc \in {"created", "verified", "validated", "stored", "built"}
      BY <1>7 DEF Hops
    <2>4. Latest(w)'
      BY <1>0, <2>1, <2>2, <2>3 DEF Latest, Carries
    <2> QED
      BY <1>1, <1>3, <2>1, <2>4 DEF LatestInv
  <1>8. s.pc \in Versioned => /\ v \in VersionIds /\ Owner(w) /\ dsv[v].feed = s.feed
                              /\ s.feed \in Feeds /\ s.copy.feed = s.feed
    <2>1. s.pc \in Versioned => s.pc # "idle"
      BY DEF Versioned, Executing
    <2> QED
      BY <1>0, <1>4, <2>1 DEF Placed
  <1>10. \A f \in Feeds : f # s.feed /\ s.pc \in Versioned => LastIsYoungest(f)'
    <2> SUFFICES ASSUME NEW f \in Feeds, f # s.feed, s.pc \in Versioned PROVE LastIsYoungest(f)'
      OBVIOUS
    <2>2. Saves(w) \/ Activates(w) \/ UNCHANGED <<dsv, lastActivated>> \/ Creates(w)
      BY DEF Advances, Leaves, Hops
    <2>3. CASE UNCHANGED <<dsv, lastActivated>>
      BY <1>3, <2>3
    <2>4. CASE Creates(w)
      BY <2>4 DEF Creates, Versioned
    <2>5. CASE Saves(w) \/ Activates(w)
      <3>1. /\ \A u \in VersionIds : dsv[u].feed # s.feed => dsv'[u] = dsv[u]
            /\ \A u \in VersionIds : dsv'[u].feed = dsv[u].feed
            /\ lastActivated'[f] = lastActivated[f]
        <4>1. CASE Saves(w)
          <5>1. /\ dsv' = [dsv EXCEPT ![v] = t.copy] /\ t.copy.feed = s.copy.feed
                /\ UNCHANGED lastActivated
            BY <4>1 DEF Saves
          <5>2. \A u \in VersionIds : dsv'[u] = IF u = v THEN t.copy ELSE dsv[u]
            BY <1>0, <1>8, <5>1
          <5> QED
            BY <1>8, <5>1, <5>2
        <4>2. CASE Activates(w)
          <5>1. SetActive(s.feed, v) \/ UNCHANGED <<dsv, lastActivated>>
            BY <4>2 DEF Activates
          <5> HIDE DEF s, v
          <5> QED
            BY <1>0, <1>8, <5>1, ActivatedRows
        <4> QED
          BY <2>5, <4>1, <4>2
      <3>2. ActiveOf(f)' = ActiveOf(f)
        BY <3>1, SameActive
      <3>3. \A u \in ActiveOf(f) : dsv'[u] = dsv[u]
        BY <3>1 DEF ActiveOf, VersionsOf
      <3> QED
        BY <3>1, <3>2, <3>3, YoungestUntouched DEF LatestInv
    <2> QED
      BY <2>2, <2>3, <2>4, <2>5
  <1>9. CASE Saves(w)
    <2>1. /\ dsv' = [dsv EXCEPT ![v] = t.copy] /\ t.version = v /\ t.feed = s.feed
          /\ t.copy.feed = s.copy.feed /\ t.copy.activated_at = s.copy.activated_at
          /\ t.copy.status = "ACTIVE" => s.copy.status = "ACTIVE" /\ s.pc = "notified"
          /\ (t.pc \notin {"activated", "notified"} /\ t.copy.status # "ACTIVE") \/ t.pc = "saved"
          /\ s.pc \in Versioned /\ UNCHANGED lastActivated
      BY <1>9 DEF Saves, Versioned, Executing
    <2>2. /\ v \in VersionIds /\ Owner(w) /\ dsv[v].feed = s.feed /\ s.feed \in Feeds
          /\ s.copy.feed = s.feed
      BY <1>8, <2>1
    <2>3. \A u \in VersionIds : dsv'[u] = IF u = v THEN t.copy ELSE dsv[u]
      BY <1>0, <2>1, <2>2
    <2>4. Latest(w)'
      BY <2>1 DEF Latest
    <2>6. ASSUME NEW f \in Feeds, f = s.feed PROVE LastIsYoungest(f)'
      <3>1. ASSUME NEW u \in ActiveOf(f)', u # v PROVE u \in ActiveOf(f) /\ dsv'[u] = dsv[u]
        BY <2>3, <3>1 DEF ActiveOf, VersionsOf
      <3>2. CASE t.copy.status # "ACTIVE"
        <4>1. v \notin ActiveOf(f)'
          BY <2>2, <2>3, <3>2 DEF ActiveOf
        <4> QED
          BY <2>1, <3>1, <4>1 DEF LastIsYoungest, LatestInv
      <3>3. CASE t.copy.status = "ACTIVE"
        <4>1. \A u \in ActiveOf(f) : /\ u = lastActivated[f]
                                     /\ u # v => s.copy.activated_at < dsv[u].activated_at
          BY <1>0, <2>1, <2>2, <2>6, <3>3 DEF Latest
        <4>2. dsv'[v].activated_at = s.copy.activated_at
          BY <2>1, <2>2, <2>3
        <4> HIDE DEF s, t, v
        <4> QED
          BY <2>1, <3>1, <4>1, <4>2 DEF LastIsYoungest
      <3> QED
        BY <3>2, <3>3
    <2> QED
      BY <1>1, <1>10, <2>1, <2>4, <2>6 DEF LatestInv
  <1>11. CASE Activates(w)
    <2>1. /\ s.pc \in Versioned /\ t.version = v /\ t.feed = s.feed
          /\ SetActive(s.feed, v) \/ UNCHANGED <<dsv, clock, lastActivated>>
      BY <1>11 DEF Activates, Versioned, Executing, Carries
    <2>2. v \in VersionIds /\ Owner(w) /\ dsv[v].feed = s.feed /\ s.feed \in Feeds
      BY <1>8, <2>1
    <2>3. CASE SetActive(s.feed, v)
      <3>1. \A f \in Feeds : f = s.feed => ActiveOf(f)' = {v} /\ lastActivated'[f] = v
        <4> HIDE DEF s, v
        <4> QED
          BY <1>0, <2>2, <2>3, ActivatedRows
      <3>2. \A f \in Feeds : f = s.feed => LastIsYoungest(f)'
        BY <3>1, YoungestAlone
      <3>3. Latest(w)'
        <4>1. t.pc \notin {"created", "verified", "validated", "stored", "built"}
          BY <1>11 DEF Activates
        <4>2. t.feed \in Feeds /\ t.feed = s.feed
          BY <2>1, <2>2
        <4>3. PICK g \in Feeds : g = t.feed
          BY <4>2
        <4>4. ActiveOf(g)' = {v} /\ lastActivated'[g] = v
          BY <3>1, <4>2, <4>3
        <4>5. \A u \in ActiveOf(g)' : u = lastActivated'[g] /\ u = t.version
          BY <2>1, <4>4
        <4> QED
          BY <4>1, <4>3, <4>5 DEF Latest
      <3> QED
        BY <1>1, <1>10, <2>1, <3>2, <3>3 DEF LatestInv
    <2>4. CASE UNCHANGED <<dsv, clock, lastActivated>> /\ ~ SetActive(s.feed, v)
      <3>1. /\ Carries(w) /\ t.pc \in {"failing", "notified", "undone"}
            /\ t.pc = "notified" => s.pc = "activated"
        BY <1>11, <2>4 DEF Activates
      <3>2. Latest(w)'
        BY <1>0, <2>2, <2>4, <3>1 DEF Latest, Carries, ActiveOf, VersionsOf
      <3> QED
        BY <1>1, <1>3, <2>4, <3>2 DEF LatestInv
    <2> QED
      BY <2>1, <2>3, <2>4
  <1> QED
    BY <1>5, <1>6, <1>7, <1>9, <1>11 DEF Advances

\* A feed whose ACTIVE versions become fewer.
LEMMA YoungestOfFewer ==
  ASSUME NEW f \in Feeds, LastIsYoungest(f), lastActivated'[f] = lastActivated[f],
         \A u \in ActiveOf(f)' : u \in ActiveOf(f) /\ dsv'[u] = dsv[u]
  PROVE  LastIsYoungest(f)'
  BY DEF LastIsYoungest

\* What a rollback does to the versions of a feed: it takes some out of service, or puts
\* one in, younger than anything there is.
LEMMA IntrusionOnActive ==
  ASSUME ConstantsAssumption, PlaceInv, NEW o \in Operators, Intrudes(o), NEW f \in Feeds
  PROVE  \/ /\ lastActivated'[f] = lastActivated[f]
            /\ \A u \in ActiveOf(f)' : u \in ActiveOf(f) /\ dsv'[u] = dsv[u]
         \/ \E v \in VersionIds : /\ ActiveOf(f)' = {v} /\ lastActivated'[f] = v
                                  /\ dsv'[v].activated_at = clock + 1
  <1>0. /\ dsv \in [VersionIds -> DatasetVersion] /\ TypeOK /\ RowsOwned /\ NamesOwn /\ Aimed(o)
    BY DEF PlaceInv, TypeOK
  <1>1. CASE f # rb[o].feed
    <2>1. /\ ActiveOf(f)' = ActiveOf(f) /\ lastActivated'[f] = lastActivated[f]
          /\ \A v \in VersionIds : dsv[v].feed # rb[o].feed => dsv'[v] = dsv[v]
      BY <1>0, <1>1, IntrusionGentle
    <2> QED
      BY <1>1, <2>1 DEF ActiveOf, VersionsOf
  <1>2. CASE f = rb[o].feed /\ Marks(o)
    <2> DEFINE c == rb[o].current
    <2>1. PICK row : dsv' = [dsv EXCEPT ![c] = row] /\ row.status = "ROLLED_BACK"
      BY <1>2 DEF Marks
    <2>2. c \in VersionIds /\ UNCHANGED lastActivated
      BY <1>0, <1>2 DEF Aimed, Marks
    <2> HIDE DEF c
    <2>3. \A u \in VersionIds : dsv'[u] = IF u = c THEN row ELSE dsv[u]
      BY <1>0, <2>1, <2>2
    <2> QED
      BY <2>1, <2>2, <2>3 DEF ActiveOf, VersionsOf
  <1>3. CASE f = rb[o].feed /\ Restores(o)
    <2>1. PICK v \in VersionIds : dsv[v].feed = f /\ SetActive(f, v)
      BY <1>0, <1>3 DEF Aimed, Restores
    <2> QED
      BY <1>0, <2>1, ActivatedRows
  <1> QED
    BY <1>1, <1>2, <1>3 DEF Intrudes

LEMMA LatestKept ==
  ASSUME ConstantsAssumption, PlaceInv, PlaceInv', TimeInv, LatestInv, Happens
  PROVE  LatestInv'
  <1>0. /\ dsv \in [VersionIds -> DatasetVersion] /\ clock \in Nat
        /\ \A x \in Workers : sync[x].copy.activated_at \in Nat
    BY DEF PlaceInv, TypeOK, SyncFrame, DatasetVersion
  <1>1. CASE \E w \in Workers : Advances(w) /\ Local(w)
    BY <1>1, AdvanceKeepsLatest
  <1>2. ASSUME NEW o \in Operators, Intrudes(o) PROVE LatestInv'
    <2>1. UNCHANGED sync
      BY <1>2 DEF Intrudes
    <2>2. ASSUME NEW f \in Feeds PROVE LastIsYoungest(f)'
      <3>1. LastIsYoungest(f)
        BY DEF LatestInv
      <3> QED
        BY <1>2, <3>1, IntrusionOnActive, YoungestOfFewer, YoungestAlone
    <2>3. ASSUME NEW x \in Workers PROVE Latest(x)'
      <3>1. CASE ~ Owner(x)
        BY <2>1, <3>1 DEF Latest, Owner
      <3>2. CASE Owner(x)
        <4>1. Latest(x) /\ Timed(x) /\ sync'[x] = sync[x] /\ sync[x].feed \in Feeds
          <5>1. Placed(x) /\ sync[x].pc # "idle"
            BY <3>2 DEF PlaceInv, Owner, InRun, Executing, Handling
          <5> QED
            BY <2>1, <5>1 DEF LatestInv, TimeInv, Placed
        <4>2. PICK f \in Feeds : f = sync[x].feed
          BY <4>1
        <4>3. sync[x].copy.activated_at <= clock
          BY <3>2, <4>1 DEF Timed
        <4>4. /\ sync[x].pc \in {"created", "verified", "validated", "stored", "built"}
                   => sync[x].copy.status # "ACTIVE"
              /\ (sync[x].pc \in {"activated", "notified"} /\ sync[x].copy.status = "ACTIVE") =>
                   \A u \in ActiveOf(f) :
                      /\ u = lastActivated[f]
                      /\ u # sync[x].version => sync[x].copy.activated_at < dsv[u].activated_at
          BY <3>2, <4>1, <4>2 DEF Latest
        <4>5. /\ sync[x].pc \in {"created", "verified", "validated", "stored", "built"}
                   => sync[x].copy.status # "ACTIVE"
              /\ (sync[x].pc \in {"activated", "notified"} /\ sync[x].copy.status = "ACTIVE") =>
                   \A u \in ActiveOf(f)' :
                      /\ u = lastActivated'[f]
                      /\ u # sync[x].version => sync[x].copy.activated_at < dsv'[u].activated_at
          <5>1. CASE /\ lastActivated'[f] = lastActivated[f]
                     /\ \A u \in ActiveOf(f)' : u \in ActiveOf(f) /\ dsv'[u] = dsv[u]
            BY <4>4, <5>1
          <5>2. ASSUME NEW v \in VersionIds, ActiveOf(f)' = {v}, lastActivated'[f] = v,
                       dsv'[v].activated_at = clock + 1
                PROVE  /\ \A u \in ActiveOf(f)' :
                             /\ u = lastActivated'[f]
                             /\ u # sync[x].version => sync[x].copy.activated_at < dsv'[u].activated_at
            BY <1>0, <4>3, <5>2
          <5> QED
            BY <1>2, <4>4, <5>1, <5>2, IntrusionOnActive
        <4> QED
          BY <4>1, <4>2, <4>5 DEF Latest
      <3> QED
        BY <3>1, <3>2
    <2> QED
      BY <2>2, <2>3 DEF LatestInv
  <1>3. CASE Quiet
    <2>1. UNCHANGED <<dsv, lastActivated>>
      BY <1>3 DEF Quiet
    <2>2. \A f \in Feeds : LastIsYoungest(f)'
      BY <2>1 DEF LatestInv, LastIsYoungest, ActiveOf, VersionsOf
    <2>3. ASSUME NEW x \in Workers PROVE Latest(x)'
      <3>1. "idle" \notin InRun
        BY DEF InRun, Executing, Handling
      <3>2. CASE sync'[x].pc = "idle"
        BY <3>1, <3>2 DEF Latest, Owner
      <3>3. CASE /\ sync'[x].pc = sync[x].pc /\ sync'[x].feed = sync[x].feed
                 /\ sync'[x].version = sync[x].version /\ sync'[x].copy = sync[x].copy
        BY <2>1, <3>3 DEF Latest, Owner, LatestInv, ActiveOf, VersionsOf
      <3> QED
        BY <1>3, <3>2, <3>3 DEF Quiet
    <2> QED
      BY <2>2, <2>3 DEF LatestInv
  <1> QED
    BY <1>1, <1>2, <1>3 DEF Happens

LEMMA LatestAgrees == Spec => []LatestInv
  <1> USE ConstantsAssumption
  <1>1. Init => LatestInv
    BY DEF Init, LatestInv, Latest, LastIsYoungest, Owner, InRun, NoSync, NoRow, ActiveOf,
       VersionsOf, Executing, Handling, ConstantsAssumption
  <1>2. PlaceInv /\ PlaceInv' /\ TimeInv /\ LatestInv /\ [Next]_vars => LatestInv'
    BY StepsAre, LatestKept
  <1> QED
    BY <1>1, <1>2, Placement, TimesAgree, PTL DEF Spec

\* get_active_dataset_version: among ACTIVE rows, the one that was activated last is
\* served, however syncs and rollbacks interleave.
THEOREM LastServed == Spec => []LastActivatedIsServed
  <1>1. TypeOK /\ LatestInv => LastActivatedIsServed
    <2> SUFFICES ASSUME TypeOK, LatestInv, NEW f \in Feeds, lastActivated[f] \in ActiveOf(f)
                 PROVE  Served(f) = lastActivated[f]
      BY DEF LastActivatedIsServed
    <2> DEFINE l == lastActivated[f]
               first(v) == \A u \in ActiveOf(f) : dsv[u].activated_at <= dsv[v].activated_at
    <2>1. \A u \in ActiveOf(f) : dsv[u].activated_at \in Nat
      BY DEF ActiveOf, VersionsOf, TypeOK, DatasetVersion
    <2>2. \A u \in ActiveOf(f) \ {l} : dsv[u].activated_at < dsv[l].activated_at
      BY DEF LatestInv, LastIsYoungest
    <2>3. first(l)
      BY <2>1, <2>2
    <2>4. \A v \in ActiveOf(f) : first(v) => v = l
      BY <2>1, <2>2
    <2>5. (CHOOSE v \in ActiveOf(f) : first(v)) = l
      <3> HIDE DEF first
      <3> QED
        BY <2>3, <2>4
    <2> QED
      BY <2>5 DEF Served
  <1> QED
    BY <1>1, LatestAgrees, TypeCorrect, PTL

-----------------------------------------------------------------------------
(* When a feed serves nothing *)

\* The version a feed activated last is in service, or its import failed.
Accounted(f) ==
    lastActivated[f] # None =>
        /\ lastActivated[f] \in VersionIds /\ dsv[lastActivated[f]].feed = f
        /\ dsv[lastActivated[f]].status = "ACTIVE" \/ imports[lastActivated[f]] = "FAILED"

\* The object of a sync knows it if its version was activated last.
Informed(w) ==
    LET s == sync[w]
    IN  Owner(w) =>
          /\ s.pc \in {"created", "verified", "validated", "stored", "built"}
               => lastActivated[s.feed] # s.version
          /\ s.pc = "activated" => s.copy.status = "ACTIVE"
          /\ s.pc = "notified" /\ lastActivated[s.feed] = s.version
               => s.copy.status = "ACTIVE"

OutageInv == /\ \A f \in Feeds : Accounted(f)
             /\ \A w \in Workers : Informed(w)

LEMMA AdvanceAccounts ==
  ASSUME ConstantsAssumption, PlaceInv, PlaceInv', ImportInv, OutageInv, NEW w \in Workers,
         Advances(w), Local(w)
  PROVE  OutageInv'
  <1> DEFINE s == sync[w]
             t == sync'[w]
             v == sync[w].version
  <1>0. /\ dsv \in [VersionIds -> DatasetVersion] /\ TypeOK /\ RowsOwned
        /\ imports \in [VersionIds -> {"UNFINISHED", "COMPLETED", "FAILED"}]
        /\ Placed(w) /\ VersionNamed(w) /\ Informed(w) /\ Progress(w)
    BY DEF PlaceInv, TypeOK, ImportInv, OutageInv
  <1>1. ASSUME NEW x \in Workers, x # w PROVE Informed(x)'
    <2>1. Placed(x) /\ Informed(x)
      BY DEF PlaceInv, OutageInv
    <2>2. /\ sync'[x] = sync[x]
          /\ Owner(x)' <=> Owner(x)
          /\ Owner(x) => \E f \in Feeds : f = sync[x].feed /\ lastActivated'[f] = lastActivated[f]
      BY <1>0, <1>1, <2>1, Undisturbed
    <2>3. CASE Owner(x)
      <3>1. PICK f \in Feeds : f = sync[x].feed /\ lastActivated'[f] = lastActivated[f]
        BY <2>2, <2>3
      <3>2. sync'[x] = sync[x] /\ sync'[x].feed = f
        BY <2>2, <3>1
      <3>3. lastActivated'[sync'[x].feed] = lastActivated[sync[x].feed]
        BY <3>1, <3>2
      <3> HIDE DEF s, t, v
      <3> QED
        BY <2>1, <2>2, <2>3, <3>2, <3>3 DEF Informed
    <2>4. CASE ~ Owner(x)
      BY <2>2, <2>4 DEF Informed
    <2> QED
      BY <2>3, <2>4
  <1>2. s.pc \in Versioned => /\ v \in VersionIds /\ Owner(w) /\ dsv[v].feed = s.feed
                              /\ s.feed \in Feeds
    <2>1. s.pc \in Versioned => /\ v \in VersionIds /\ Owner(w) /\ s.pc # "idle"
      BY <1>0 DEF VersionNamed, Versioned, Owner, InRun, Executing, Handling, ConstantsAssumption
    <2> QED
      BY <1>0, <2>1 DEF Placed
  <1>3. CASE Leaves(w)
    <2>1. UNCHANGED <<dsv, imports, lastActivated>> /\ ~ Owner(w)'
      BY <1>3 DEF Leaves, Owner
    <2> QED
      BY <1>1, <2>1 DEF OutageInv, Accounted, Informed
  <1>4. CASE Creates(w)
    <2> DEFINE n == t.version
    <2>1. /\ n \in VersionIds /\ dsv[n].status = "ABSENT" /\ t.pc = "created" /\ t.feed = s.feed
          /\ dsv' = [dsv EXCEPT ![n] = t.copy] /\ s.pc = "fetching"
          /\ UNCHANGED <<imports, lastActivated>>
      BY <1>4 DEF Creates
    <2>2. ASSUME NEW f \in Feeds PROVE lastActivated[f] # n
      BY <2>1, <2>2, <1>0 DEF OutageInv, Accounted, RowsOwned, ConstantsAssumption
    <2>3. \A f \in Feeds : Accounted(f)'
      BY <1>0, <2>1, <2>2 DEF OutageInv, Accounted
    <2>4. s.feed \in Feeds
      BY <1>0, <2>1 DEF Placed
    <2>5. Informed(w)'
      BY <2>1, <2>2, <2>4 DEF Informed
    <2> QED
      BY <1>1, <2>3, <2>5 DEF OutageInv
  <1>5. CASE Hops(w)
    <2>1. UNCHANGED <<dsv, lastActivated>> /\ Carries(w)
      BY <1>5 DEF Hops
    <2>2. ASSUME NEW f \in Feeds PROVE Accounted(f)'
      <3>1. Accounted(f)
        BY DEF OutageInv
      <3>2. CASE UNCHANGED imports
        BY <2>1, <3>1, <3>2 DEF Accounted
      <3>3. CASE s.pc = "saved" /\ imports' = [imports EXCEPT ![v] = "COMPLETED"]
        <4>1. v \in VersionIds /\ imports[v] = "UNFINISHED"
          BY <1>0, <1>2, <3>3 DEF Versioned, Executing, Progress
        <4> QED
          BY <1>0, <2>1, <3>1, <3>3, <4>1 DEF Accounted
      <3>4. CASE imports' = [imports EXCEPT ![v] = "FAILED"]
        BY <1>0, <2>1, <3>1, <3>4 DEF Accounted
      <3> QED
        BY <1>5, <3>2, <3>3, <3>4 DEF Hops
    <2>3. Informed(w)'
      <3>1. Owner(w)' => Owner(w)
        BY <1>0, <1>5, <2>1 DEF Hops, Carries, Owner, InRun, Executing, Handling, Placed
      <3>2. /\ t.pc # "activated"
            /\ t.pc = "notified" => s.pc = "stored"
            /\ t.pc \in {"created", "verified", "validated", "stored", "built"}
                 => s.pc \in {"created", "verified", "validated", "stored", "built"}
        BY <1>5 DEF Hops
      <3> QED
        BY <1>0, <2>1, <3>1, <3>2 DEF Informed, Carries
    <2> QED
      BY <1>1, <2>2, <2>3 DEF OutageInv
  <1>6. CASE Saves(w)
    <2>1. /\ dsv' = [dsv EXCEPT ![v] = t.copy] /\ t.version = v /\ t.feed = s.feed
          /\ t.copy.feed = s.copy.feed /\ s.pc \in Versioned /\ UNCHANGED <<imports, lastActivated>>
          /\ \/ s.pc = "verified" /\ t.pc = "failing"
             \/ s.pc = "validated" /\ t.pc = "stored"
             \/ s.pc = "notified" /\ t.pc = "saved" /\ t.copy.status = s.copy.status
             \/ s.pc = "import_failed" /\ t.pc = "marked"
      BY <1>6 DEF Saves, Versioned, Executing
    <2>2. v \in VersionIds /\ Owner(w) /\ dsv[v].feed = s.feed /\ s.copy.feed = s.feed
      BY <1>0, <1>2, <2>1 DEF Placed
    <2>3. \A u \in VersionIds : dsv'[u] = IF u = v THEN t.copy ELSE dsv[u]
      BY <1>0, <2>1, <2>2
    <2>4. ASSUME NEW f \in Feeds PROVE Accounted(f)'
      <3>1. Accounted(f)
        BY DEF OutageInv
      <3>2. CASE lastActivated[f] # v
        BY <2>1, <2>3, <3>1, <3>2 DEF Accounted
      <3>3. CASE lastActivated[f] = v
        <4>1. f = s.feed
          BY <2>2, <3>1, <3>3 DEF Accounted, VersionNamed, Owner
        <4>2. /\ s.pc \notin {"verified", "validated"}
              /\ s.pc = "notified" => s.copy.status = "ACTIVE"
              /\ s.pc = "import_failed" => imports[v] = "FAILED"
          BY <1>0, <2>2, <3>3, <4>1 DEF Informed, Progress
        <4>3. t.copy.status = "ACTIVE" \/ imports[v] = "FAILED"
          BY <2>1, <4>2
        <4> QED
          BY <2>1, <2>2, <2>3, <3>1, <3>3, <4>1, <4>3 DEF Accounted
      <3> QED
        BY <3>2, <3>3
    <2>5. Informed(w)'
      BY <1>0, <2>1, <2>2 DEF Informed
    <2> QED
      BY <1>1, <2>4, <2>5 DEF OutageInv
  <1>7. CASE Activates(w)
    <2>1. /\ s.pc \in Versioned /\ t.version = v /\ t.feed = s.feed /\ UNCHANGED imports
          /\ SetActive(s.feed, v) \/ UNCHANGED <<dsv, lastActivated>>
      BY <1>7 DEF Activates, Versioned, Executing, Carries
    <2>2. v \in VersionIds /\ Owner(w) /\ dsv[v].feed = s.feed /\ s.feed \in Feeds
      BY <1>2, <2>1
    <2>3. ASSUME SetActive(s.feed, v)
          PROVE  /\ \A u \in VersionIds : dsv'[u].feed = dsv[u].feed
                 /\ dsv'[v].status = "ACTIVE"
                 /\ \A u \in VersionIds : dsv[u].feed # s.feed => dsv'[u] = dsv[u]
                 /\ \A f \in Feeds : f = s.feed => lastActivated'[f] = v
                 /\ \A f \in Feeds : f # s.feed => lastActivated'[f] = lastActivated[f]
      <3> HIDE DEF s, v
      <3> QED
        BY <1>0, <2>2, <2>3, ActivatedRows
    <2>4. ASSUME NEW f \in Feeds PROVE Accounted(f)'
      <3>1. Accounted(f)
        BY DEF OutageInv
      <3>2. CASE SetActive(s.feed, v)
        <4> HIDE DEF s, v
        <4> QED
          BY <2>1, <2>2, <2>3, <3>1, <3>2 DEF Accounted
      <3>3. CASE UNCHANGED <<dsv, lastActivated>>
        BY <2>1, <3>1, <3>3 DEF Accounted
      <3> QED
        BY <2>1, <3>2, <3>3
    <2>5. Informed(w)'
      <3>1. \/ t.pc = "activated" /\ t.copy = dsv'[v] /\ SetActive(s.feed, v)
            \/ t.pc \in {"failing", "undone"}
            \/ s.pc = "activated" /\ t.pc = "notified" /\ t.copy.status = s.copy.status
        BY <1>7, <2>1 DEF Activates, Carries
      <3> QED
        BY <1>0, <2>2, <2>3, <3>1 DEF Informed
    <2> QED
      BY <1>1, <2>4, <2>5 DEF OutageInv
  <1> QED
    BY <1>3, <1>4, <1>5, <1>6, <1>7 DEF Advances

LEMMA OutageKept ==
  ASSUME ConstantsAssumption, Operators = {}, PlaceInv, PlaceInv', ImportInv, OutageInv, Happens
  PROVE  OutageInv'
  <1>1. CASE \E w \in Workers : Advances(w) /\ Local(w)
    BY <1>1, AdvanceAccounts
  <1>2. CASE Quiet
    <2>1. UNCHANGED <<dsv, imports, lastActivated>>
      BY <1>2 DEF Quiet
    <2>2. ASSUME NEW x \in Workers PROVE Informed(x)'
      <3>1. "idle" \notin InRun
        BY DEF InRun, Executing, Handling
      <3> QED
        BY <1>2, <2>1, <3>1 DEF Quiet, Informed, Owner, OutageInv
    <2> QED
      BY <2>1, <2>2 DEF OutageInv, Accounted
  <1> QED
    BY <1>1, <1>2 DEF Happens

\* FeedLifecycleRunner.execute: as long as nobody rolls back, a feed that has activated a
\* version and serves none shows the failed import, whatever raised and across restarts.
THEOREM NoOutageSilent == Operators = {} => (Spec => []NoSilentOutage)
  <1> USE ConstantsAssumption
  <1> SUFFICES ASSUME Operators = {} PROVE Spec => []NoSilentOutage
    OBVIOUS
  <1>1. Init => OutageInv
    BY DEF Init, OutageInv, Accounted, Informed, Owner, InRun, NoSync, Executing, Handling
  <1>2. PlaceInv /\ PlaceInv' /\ ImportInv /\ OutageInv /\ [Next]_vars => OutageInv'
    BY StepsAre, OutageKept
  <1>3. OutageInv /\ LastActivatedIsServed => NoSilentOutage
    <2> SUFFICES ASSUME OutageInv, LastActivatedIsServed, NEW f \in Feeds,
                        lastActivated[f] # None, Served(f) = None
                 PROVE  imports[lastActivated[f]] = "FAILED"
      BY DEF NoSilentOutage
    <2>1. lastActivated[f] \notin ActiveOf(f)
      BY DEF LastActivatedIsServed
    <2> QED
      BY <2>1 DEF OutageInv, Accounted, ActiveOf, VersionsOf
  <1> QED
    BY <1>1, <1>2, <1>3, Placement, ImportsAgree, LastServed, PTL DEF Spec

-----------------------------------------------------------------------------
(* What took a version out of service *)

\* What a version activated last may have become: nothing archives it in its place.
Explained(f) ==
    lastActivated[f] # None =>
        /\ lastActivated[f] \in VersionIds /\ dsv[lastActivated[f]].feed = f
        /\ dsv[lastActivated[f]].status \in {"ACTIVE", "ROLLED_BACK", "FAILED", "STORED"}

\* The object that the last save of a sync writes is ACTIVE, or STORED if the feed is
\* not activated automatically.
Writes(w) ==
    LET s == sync[w]
    IN  Owner(w) => /\ s.pc = "stored" => s.copy.status = "STORED"
                    /\ s.pc = "activated" => s.copy.status = "ACTIVE"
                    /\ s.pc = "notified" => s.copy.status \in {"ACTIVE", "STORED"}

CauseInv == /\ \A f \in Feeds : Explained(f)
            /\ \A w \in Workers : Writes(w)

\* Whoever activates a version of a feed, what is said of the feeds stays true.
LEMMA ActivationExplained ==
  ASSUME ConstantsAssumption, TypeOK, CauseInv, NEW f \in Feeds, NEW v \in VersionIds,
         dsv[v].feed = f, SetActive(f, v), NEW g \in Feeds
  PROVE  Explained(g)'
  <1>1. /\ \A u \in VersionIds : dsv'[u].feed = dsv[u].feed
        /\ \A u \in VersionIds : dsv[u].feed # f => dsv'[u] = dsv[u]
        /\ dsv'[v].status = "ACTIVE" /\ lastActivated'[f] = v
        /\ \A h \in Feeds \ {f} : lastActivated'[h] = lastActivated[h]
    BY ActivatedRows
  <1>2. Explained(g)
    BY DEF CauseInv
  <1>3. CASE g = f
    BY <1>1, <1>3 DEF Explained
  <1>4. CASE g # f
    BY <1>1, <1>2, <1>4 DEF Explained
  <1> QED
    BY <1>3, <1>4

\* A save that keeps the feed of its row and gives it one of these statuses.
LEMMA SaveExplained ==
  ASSUME TypeOK, CauseInv, NEW v \in VersionIds, NEW row, dsv' = [dsv EXCEPT ![v] = row],
         row.feed = dsv[v].feed, row.status \in {"ACTIVE", "ROLLED_BACK", "FAILED", "STORED"},
         UNCHANGED lastActivated, NEW f \in Feeds
  PROVE  Explained(f)'
  <1>1. \A u \in VersionIds : dsv'[u] = IF u = v THEN row ELSE dsv[u]
    BY DEF TypeOK
  <1> QED
    BY <1>1 DEF Explained, CauseInv

LEMMA AdvanceExplains ==
  ASSUME ConstantsAssumption, PlaceInv, PlaceInv', CauseInv, NEW w \in Workers,
         Advances(w), Local(w)
  PROVE  CauseInv'
  <1> DEFINE s == sync[w]
             t == sync'[w]
             v == sync[w].version
  <1>0. /\ dsv \in [VersionIds -> DatasetVersion] /\ TypeOK /\ RowsOwned
        /\ Placed(w) /\ VersionNamed(w) /\ Writes(w)
    BY DEF PlaceInv, TypeOK, CauseInv
  <1>1. ASSUME NEW x \in Workers, x # w PROVE Writes(x)'
    <2>1. Writes(x) /\ sync'[x] = sync[x]
      BY <1>0, <1>1 DEF CauseInv, Local, TypeOK
    <2> QED
      BY <2>1 DEF Writes, Owner
  <1>2. s.pc \in Versioned => /\ v \in VersionIds /\ Owner(w) /\ dsv[v].feed = s.feed
                              /\ s.feed \in Feeds /\ s.copy.feed = s.feed
    <2>1. s.pc \in Versioned => /\ v \in VersionIds /\ Owner(w) /\ s.pc # "idle"
      BY <1>0 DEF VersionNamed, Versioned, Owner, InRun, Executing, Handling, ConstantsAssumption
    <2> QED
      BY <1>0, <2>1 DEF Placed
  <1>3. ASSUME UNCHANGED <<dsv, lastActivated>> PROVE \A f \in Feeds : Explained(f)'
    BY <1>3 DEF CauseInv, Explained
  <1>4. CASE Leaves(w)
    BY <1>1, <1>3, <1>4 DEF Leaves, CauseInv, Writes, Owner
  <1>5. CASE Creates(w)
    <2> DEFINE n == t.version
    <2>1. /\ n \in VersionIds /\ dsv[n].status = "ABSENT" /\ t.pc = "created"
          /\ dsv' = [dsv EXCEPT ![n] = t.copy] /\ UNCHANGED lastActivated
      BY <1>5 DEF Creates
    <2>2. \A f \in Feeds : Explained(f)'
      BY <1>0, <2>1 DEF CauseInv, Explained
    <2>3. Writes(w)'
      BY <2>1 DEF Writes
    <2> QED
      BY <1>1, <2>2, <2>3 DEF CauseInv
  <1>6. CASE Hops(w)
    <2>1. UNCHANGED <<dsv, lastActivated>> /\ Carries(w)
      BY <1>6 DEF Hops
    <2>2. Owner(w)' => Owner(w)
      BY <1>0, <1>6, <2>1 DEF Hops, Carries, Owner, InRun, Executing, Handling, Placed
    <2>3. /\ t.pc \notin {"stored", "activated"}
          /\ t.pc = "notified" => s.pc = "stored"
      BY <1>6 DEF Hops
    <2>4. Writes(w)'
      BY <1>0, <2>1, <2>2, <2>3 DEF Writes, Carries
    <2> QED
      BY <1>1, <1>3, <2>1, <2>4 DEF CauseInv
  <1>7. CASE Saves(w)
    <2>1. /\ dsv' = [dsv EXCEPT ![v] = t.copy] /\ t.copy.feed = s.copy.feed
          /\ s.pc \in Versioned /\ UNCHANGED lastActivated
          /\ t.pc \notin {"activated", "notified"}
          /\ t.pc = "stored" => t.copy.status = "STORED"
          /\ \/ t.copy.status \in {"FAILED", "STORED"}
             \/ s.pc = "notified" /\ t.copy.status = s.copy.status
      BY <1>7 DEF Saves, Versioned, Executing
    <2>2. v \in VersionIds /\ t.copy.feed = dsv[v].feed
      BY <1>2, <2>1
    <2>3. t.copy.status \in {"ACTIVE", "FAILED", "STORED"}
      BY <1>0, <1>2, <2>1 DEF Writes
    <2>4. \A f \in Feeds : Explained(f)'
      <3> HIDE DEF v, t
      <3> QED
        BY <1>0, <2>1, <2>2, <2>3, SaveExplained
    <2>5. Writes(w)'
      BY <2>1 DEF Writes
    <2> QED
      BY <1>1, <2>4, <2>5 DEF CauseInv
  <1>8. CASE Activates(w)
    <2>1. /\ s.pc \in Versioned
          /\ SetActive(s.feed, v) \/ UNCHANGED <<dsv, lastActivated>>
      BY <1>8 DEF Activates, Versioned, Executing
    <2>2. v \in VersionIds /\ Owner(w) /\ dsv[v].feed = s.feed /\ s.feed \in Feeds
      BY <1>2, <2>1
    <2>3. \A f \in Feeds : Explained(f)'
      <3> HIDE DEF s, v
      <3> QED
        BY <1>0, <1>3, <2>1, <2>2, ActivationExplained
    <2>4. Writes(w)'
      <3>1. \/ t.pc = "activated" /\ t.copy = dsv'[v] /\ SetActive(s.feed, v)
            \/ t.pc \in {"failing", "undone"}
            \/ s.pc = "activated" /\ t.pc = "notified" /\ t.copy.status = s.copy.status
        BY <1>8 DEF Activates, Carries
      <3>2. SetActive(s.feed, v) => dsv'[v].status = "ACTIVE"
        <4> HIDE DEF s, v
        <4> QED
          BY <1>0, <2>2, ActivatedRows
      <3> QED
        BY <1>0, <2>2, <3>1, <3>2 DEF Writes
    <2> QED
      BY <1>1, <2>3, <2>4 DEF CauseInv
  <1> QED
    BY <1>4, <1>5, <1>6, <1>7, <1>8 DEF Advances

LEMMA CauseKept ==
  ASSUME ConstantsAssumption, PlaceInv, PlaceInv', CauseInv, Happens
  PROVE  CauseInv'
  <1>1. CASE \E w \in Workers : Advances(w) /\ Local(w)
    BY <1>1, AdvanceExplains
  <1>2. ASSUME NEW o \in Operators, Intrudes(o) PROVE CauseInv'
    <2>1. TypeOK /\ Aimed(o) /\ UNCHANGED sync
      BY <1>2 DEF PlaceInv, Intrudes
    <2>2. \A w \in Workers : Writes(w)'
      BY <2>1 DEF CauseInv, Writes, Owner
    <2>3. ASSUME NEW f \in Feeds PROVE Explained(f)'
      <3>1. CASE Marks(o)
        <4>1. PICK c \in VersionIds : c = rb[o].current /\ dsv[c].feed = rb[o].copy.feed
          BY <2>1, <3>1 DEF Marks, Aimed
        <4>2. PICK row : /\ dsv' = [dsv EXCEPT ![c] = row] /\ row.feed = rb[o].copy.feed
                         /\ row.status = "ROLLED_BACK" /\ UNCHANGED lastActivated
          BY <3>1, <4>1 DEF Marks
        <4> QED
          BY <2>1, <4>1, <4>2, SaveExplained
      <3>2. CASE Restores(o)
        <4>1. PICK v \in VersionIds : dsv[v].feed = rb[o].feed /\ SetActive(rb[o].feed, v)
          BY <2>1, <3>2 DEF Restores, Aimed
        <4>2. rb[o].feed \in Feeds
          BY <2>1, <3>2 DEF Restores, Aimed
        <4> QED
          BY <2>1, <4>1, <4>2, ActivationExplained
      <3> QED
        BY <1>2, <3>1, <3>2 DEF Intrudes
    <2> QED
      BY <2>2, <2>3 DEF CauseInv
  <1>3. CASE Quiet
    <2>1. ASSUME NEW x \in Workers PROVE Writes(x)'
      <3>1. "idle" \notin InRun
        BY DEF InRun, Executing, Handling
      <3> QED
        BY <1>3, <3>1 DEF Quiet, Writes, Owner, CauseInv
    <2> QED
      BY <1>3, <2>1 DEF Quiet, CauseInv, Explained
  <1> QED
    BY <1>1, <1>2, <1>3 DEF Happens

\* DatasetVersionManager.rollback and FeedLifecycleRunner.execute, interleaved: a feed
\* that serves nothing shows on the version it activated last what took it away.
THEOREM OutageExplained == Spec => []OutageHasCause
  <1> USE ConstantsAssumption
  <1>1. Init => CauseInv
    BY DEF Init, CauseInv, Explained, Writes, Owner, InRun, NoSync, Executing, Handling
  <1>2. PlaceInv /\ PlaceInv' /\ CauseInv /\ [Next]_vars => CauseInv'
    BY StepsAre, CauseKept
  <1>3. CauseInv /\ LastActivatedIsServed => OutageHasCause
    <2> SUFFICES ASSUME CauseInv, LastActivatedIsServed, NEW f \in Feeds,
                        lastActivated[f] # None, Served(f) = None
                 PROVE  dsv[lastActivated[f]].status \in {"ROLLED_BACK", "FAILED", "STORED"}
      BY DEF OutageHasCause
    <2>1. lastActivated[f] \notin ActiveOf(f)
      BY DEF LastActivatedIsServed
    <2> QED
      BY <2>1 DEF CauseInv, Explained, ActiveOf, VersionsOf
  <1> QED
    BY <1>1, <1>2, <1>3, Placement, LastServed, PTL DEF Spec

-----------------------------------------------------------------------------
(* Cancellation *)

\* A sync that has been asked to stop keeps its feed's token until it looks.
Heeds(w) ==
    sync[w].asked => sync[w].pc \in Holding \ {"acquired"} /\ sync[w].feed \in tokens

\* A sync goes on: it keeps the request, or forgets it at its end.
Remembers(w) ==
    /\ sync' = [sync EXCEPT ![w] = sync'[w]]
    /\ \/ ~ sync'[w].asked
       \/ /\ sync[w].asked /\ sync'[w].feed = sync[w].feed
          /\ sync'[w].pc \in Holding \ {"acquired"}
    /\ \/ UNCHANGED tokens
       \/ /\ sync[w].pc = "acquired" /\ sync[w].feed \in Feeds
          /\ tokens' = tokens \ {sync[w].feed}
    /\ (sync[w].pc = "ready" /\ sync'[w].pc = "fetching") => sync[w].feed \notin tokens

\* All requests for a cancellation that count.
AllHeed == \A w \in Workers : Heeds(w)

LEMMA GoneOn ==
  ASSUME TypeOK, NEW w \in Workers, NEW s, Goto(w, s)
  PROVE  /\ sync' = [sync EXCEPT ![w] = sync'[w]] /\ sync'[w].pc = s
         /\ sync'[w].feed = sync[w].feed /\ sync'[w].asked = sync[w].asked
  <1>1. sync[w] \in SyncFrame /\ sync'[w] = [sync[w] EXCEPT !.pc = s]
    BY DEF TypeOK, Goto
  <1> QED
    BY <1>1 DEF SyncFrame, Goto

LEMMA WorkersRemember ==
  ASSUME ConstantsAssumption, PlaceInv, NEW w \in Workers, Heeds(w),
         WorkerStep(w) \/ \E f \in Feeds : Trigger(w, f)
  PROVE  Remembers(w)
  <1> USE DEF Unlocked
  <1>0. /\ sync \in [Workers -> SyncFrame] /\ sync[w] \in SyncFrame /\ TypeOK
        /\ sync[w].pc # "idle" => sync[w].feed \in Feeds
    BY DEF PlaceInv, TypeOK, Placed
  <1>1. ASSUME NEW s \in Holding \ {"acquired", "fetching"}, Goto(w, s),
               \/ UNCHANGED tokens
               \/ /\ sync[w].pc = "acquired" /\ sync[w].feed \in Feeds
                  /\ tokens' = tokens \ {sync[w].feed}
        PROVE  Remembers(w)
    BY <1>0, <1>1, GoneOn DEF Remembers
  <1>2. (Executing \ {"fetching"}) \cup Handling \cup {"ready", "backoff"}
          \subseteq Holding \ {"acquired", "fetching"}
    BY DEF Holding, Executing, Handling
  <1>3. CASE \/ AlreadyInProgress(w) \/ StopCancelled(w) \/ GiveUp(w) \/ Succeed(w)
    <2>1. sync' = [sync EXCEPT ![w] = NoSync] /\ UNCHANGED tokens
      BY <1>3 DEF AlreadyInProgress, StopCancelled, GiveUp, Succeed, Return
    <2> QED
      BY <1>0, <2>1 DEF Remembers, NoSync
  <1>4. CASE \E f \in Feeds : Trigger(w, f)
    <2>1. PICK f \in Feeds : Trigger(w, f)
      BY <1>4
    <2> DEFINE fr == [NoSync EXCEPT !.pc = "checked", !.feed = f]
    <2>2. ~ fr.asked /\ fr.pc = "checked" /\ sync' = [sync EXCEPT ![w] = fr] /\ UNCHANGED tokens
      BY <2>1 DEF Trigger, NoSync
    <2> HIDE DEF fr
    <2> QED
      BY <1>0, <2>2 DEF Remembers
  <1>5. CASE Acquire(w)
    <2>1. Goto(w, "acquired") /\ ~ sync[w].asked /\ UNCHANGED tokens
      BY <1>5 DEF Acquire, At, Heeds, Holding, Executing, Handling
    <2> QED
      BY <1>0, <2>1, GoneOn DEF Remembers
  <1>6. CASE DiscardToken(w)
    <2>1. /\ Goto(w, "ready") /\ sync[w].pc = "acquired"
          /\ tokens' = tokens \ {sync[w].feed}
      BY <1>6 DEF DiscardToken, At
    <2> QED
      BY <1>0, <1>1, <1>2, <2>1
  <1>7. ASSUME NEW fr, sync' = [sync EXCEPT ![w] = fr], fr.asked = sync[w].asked,
               fr.feed = sync[w].feed, fr.pc \in Holding \ {"acquired"}, UNCHANGED tokens,
               fr.pc = "fetching" => sync[w].feed \notin tokens
        PROVE  Remembers(w)
    BY <1>0, <1>7 DEF Remembers
  <1>8. CASE StartAttempt(w)
    <2> DEFINE fr == [sync[w] EXCEPT !.pc = "fetching", !.version = None, !.copy = NoRow]
    <2>1. /\ fr.asked = sync[w].asked /\ fr.feed = sync[w].feed /\ fr.pc = "fetching"
      BY <1>0 DEF SyncFrame
    <2>2. sync' = [sync EXCEPT ![w] = fr] /\ UNCHANGED tokens /\ sync[w].feed \notin tokens
      BY <1>8 DEF StartAttempt
    <2>3. "fetching" \in Holding \ {"acquired"}
      BY DEF Holding, Executing
    <2> HIDE DEF fr
    <2> QED
      BY <1>7, <2>1, <2>2, <2>3
  <1>9. CASE Retry(w)
    <2> DEFINE fr == [sync[w] EXCEPT !.pc = "ready", !.attempt = @ + 1]
    <2>1. /\ fr.asked = sync[w].asked /\ fr.feed = sync[w].feed /\ fr.pc = "ready"
      BY <1>0 DEF SyncFrame
    <2>2. sync' = [sync EXCEPT ![w] = fr] /\ UNCHANGED tokens
      BY <1>9 DEF Retry
    <2> HIDE DEF fr
    <2> QED
      BY <1>2, <1>7, <2>1, <2>2
  <1>10. ASSUME NEW v \in VersionIds, CreateVersion(w, v) PROVE Remembers(w)
    <2> DEFINE row == [feed |-> sync[w].feed, status |-> "CREATED",
                       validation |-> "PENDING", imported_at |-> clock + 1,
                       activated_at |-> 0]
               fr == [sync[w] EXCEPT !.pc = "created", !.version = v, !.copy = row]
    <2>1. /\ fr.asked = sync[w].asked /\ fr.feed = sync[w].feed /\ fr.pc = "created"
      BY <1>0 DEF SyncFrame
    <2>2. sync' = [sync EXCEPT ![w] = fr] /\ UNCHANGED tokens
      BY <1>10 DEF CreateVersion
    <2>3. "created" \in Holding \ {"acquired"}
      BY <1>2 DEF Executing
    <2> HIDE DEF fr
    <2> QED
      BY <1>7, <2>1, <2>2, <2>3
  <1>11. CASE ValidationPassed(w)
    <2> DEFINE fr == [sync[w] EXCEPT !.pc = "validated", !.copy.validation = "PASSED"]
    <2>1. /\ fr.asked = sync[w].asked /\ fr.feed = sync[w].feed /\ fr.pc = "validated"
      BY <1>0 DEF SyncFrame
    <2>2. sync' = [sync EXCEPT ![w] = fr] /\ UNCHANGED tokens
      BY <1>11 DEF ValidationPassed
    <2>3. "validated" \in Holding \ {"acquired"}
      BY <1>2 DEF Executing
    <2> HIDE DEF fr
    <2> QED
      BY <1>7, <2>1, <2>2, <2>3
  <1>12. ASSUME NEW to \in {"failing", "stored", "activated", "marked"}, NEW row,
                sync' = [sync EXCEPT ![w].pc = to, ![w].copy = row], UNCHANGED tokens
         PROVE  Remembers(w)
    <2> DEFINE fr == [sync[w] EXCEPT !.pc = to, !.copy = row]
    <2>1. /\ fr.asked = sync[w].asked /\ fr.feed = sync[w].feed /\ fr.pc = to
      BY <1>0 DEF SyncFrame
    <2>2. sync' = [sync EXCEPT ![w] = fr] /\ UNCHANGED tokens
      BY <1>12
    <2>3. to \in Holding \ {"acquired"}
      BY <1>2 DEF Executing, Handling
    <2> HIDE DEF fr
    <2> QED
      BY <1>7, <2>1, <2>2, <2>3
  <1>13. CASE ValidationFailed(w) \/ StoreDataset(w) \/ ActivateVersion(w) \/ FailVersion(w)
    BY <1>12, <1>13 DEF ValidationFailed, StoreDataset, ActivateVersion, FailVersion
  <1>15. CASE Raise(w)
    <2>1. UNCHANGED tokens
      BY <1>15 DEF Raise
    <2>2. CASE Goto(w, "failing")
      BY <1>1, <1>2, <2>1, <2>2 DEF Handling
    <2>3. CASE sync' = [sync EXCEPT ![w].pc = "failing", ![w].copy.validation = "FAILED"]
      <3> DEFINE fr == [sync[w] EXCEPT !.pc = "failing", !.copy.validation = "FAILED"]
      <3>1. fr.asked = sync[w].asked /\ fr.feed = sync[w].feed /\ fr.pc = "failing"
        BY <1>0 DEF SyncFrame
      <3>2. sync' = [sync EXCEPT ![w] = fr]
        BY <2>3
      <3>3. "failing" \in Holding \ {"acquired"}
        BY <1>2 DEF Handling
      <3> HIDE DEF fr
      <3> QED
        BY <1>7, <2>1, <3>1, <3>2, <3>3
    <2> QED
      BY <1>15, <2>2, <2>3 DEF Raise
  <1>14. CASE \/ \E passed \in BOOLEAN : EvaluateTrust(w, passed)
              \/ BuildRelationships(w) \/ ActivationFails(w) \/ OnActivate(w)
              \/ SaveDuration(w) \/ CompleteImport(w) \/ RecordSuccess(w)
              \/ FailImport(w) \/ OnRollback(w) \/ RecordFailure(w) \/ HandlerRaises(w)
    <2>1. \E s \in (Executing \ {"fetching"}) \cup Handling \cup {"ready", "backoff"} : Goto(w, s)
      BY <1>14 DEF EvaluateTrust, BuildRelationships, ActivationFails, OnActivate,
         SaveDuration, CompleteImport, RecordSuccess, FailImport, OnRollback,
         RecordFailure, HandlerRaises, Executing, Handling
    <2>2. UNCHANGED tokens
      BY <1>14 DEF EvaluateTrust, BuildRelationships, ActivationFails, OnActivate,
         SaveDuration, CompleteImport, RecordSuccess, FailImport, OnRollback,
         RecordFailure, HandlerRaises
    <2> QED
      BY <1>1, <1>2, <2>1, <2>2
  <1> QED
    BY <1>3, <1>4, <1>5, <1>6, <1>8, <1>9, <1>10, <1>11, <1>13, <1>14, <1>15 DEF WorkerStep

LEMMA HeedKept ==
  ASSUME ConstantsAssumption, PlaceInv, AllHeed, [Next]_vars
  PROVE  AllHeed'
  <1> USE DEF AllHeed
  <1>0. TypeOK /\ \A w \in Workers : Placed(w)
    BY DEF PlaceInv
  <1>1. ASSUME NEW w \in Workers, WorkerStep(w) \/ \E f \in Feeds : Trigger(w, f),
               NEW x \in Workers
        PROVE  Heeds(x)'
    <2>1. Remembers(w) /\ Heeds(x)
      BY <1>1, WorkersRemember
    <2>2. CASE x = w
      BY <2>1, <2>2 DEF Remembers, Heeds
    <2>3. CASE x # w
      <3>1. sync'[x] = sync[x]
        BY <1>0, <2>1, <2>3 DEF Remembers, TypeOK
      <3>2. CASE UNCHANGED tokens
        BY <2>1, <3>1, <3>2 DEF Heeds
      <3>3. CASE /\ sync[w].pc = "acquired" /\ sync[w].feed \in Feeds
                 /\ tokens' = tokens \ {sync[w].feed}
        <4>1. sync[x].asked => feedLock[sync[x].feed] = x
          BY <1>0, <2>1 DEF Heeds, Placed
        <4>2. feedLock[sync[w].feed] = w
          BY <1>0, <3>3 DEF Placed, Holding
        <4>3. sync[x].asked => sync[x].feed \in tokens'
          BY <2>1, <2>3, <3>3, <4>1, <4>2 DEF Heeds
        <4> QED
          BY <2>1, <3>1, <4>3 DEF Heeds
      <3> QED
        BY <2>1, <3>2, <3>3 DEF Remembers
    <2> QED
      BY <2>2, <2>3
  <1>2. ASSUME NEW f \in Feeds, Cancel(f), NEW x \in Workers PROVE Heeds(x)'
    <2> DEFINE fr == [sync[x] EXCEPT !.asked = TRUE]
    <2>1. Heeds(x) /\ Placed(x) /\ tokens' = tokens \cup {f} /\ sync[x] \in SyncFrame
      BY <1>0, <1>2 DEF Cancel, TypeOK
    <2>2. CASE f = sync[x].feed /\ sync[x].pc \in Holding \ {"acquired"}
      <3>1. sync'[x] = fr
        BY <1>2, <2>2 DEF Cancel
      <3>2. fr.pc = sync[x].pc /\ fr.feed = sync[x].feed
        BY <2>1 DEF SyncFrame
      <3> HIDE DEF fr
      <3> QED
        BY <2>1, <2>2, <3>1, <3>2 DEF Heeds
    <2>3. CASE sync'[x] = sync[x]
      BY <2>1, <2>3 DEF Heeds
    <2> QED
      BY <1>2, <2>2, <2>3 DEF Cancel
  <1>3. CASE Restart
    BY <1>3 DEF Restart, Heeds, NoSync
  <1>4. CASE UNCHANGED <<sync, tokens>>
    BY <1>4 DEF Heeds
  <1>5. ASSUME NEW o \in Operators, OperatorStep(o) PROVE UNCHANGED <<sync, tokens>>
    BY <1>5 DEF OperatorStep, MarkRolledBack, ActivateTarget, RollbackFails
  <1>6. ASSUME NEW o \in Operators, NEW f \in Feeds,
               NEW requested, NEW current, NEW target, Rollback(o, f, requested, current, target)
        PROVE  UNCHANGED <<sync, tokens>>
    BY <1>6 DEF Rollback
  <1> QED
    BY <1>1, <1>2, <1>3, <1>4, <1>5, <1>6 DEF Next, Quiescent, vars

\* cancel_sync: no attempt starts in a sync that was asked to stop after it had discarded
\* the token of former requests.
THEOREM CancellationHeeded == Spec => CancelHeeded
  <1> USE ConstantsAssumption
  <1>1. Init => AllHeed
    BY DEF AllHeed, Init, Heeds, NoSync
  <1>2. PlaceInv /\ AllHeed /\ [Next]_vars => AllHeed'
    BY HeedKept
  <1>3. PlaceInv /\ AllHeed /\ [Next]_vars
        => [\A w \in Workers :
              (At(w, "ready") /\ sync'[w].pc = "fetching") => ~ sync[w].asked]_vars
    <2> SUFFICES ASSUME PlaceInv, AllHeed, Next, NEW w \in Workers,
                        At(w, "ready"), sync'[w].pc = "fetching", sync[w].asked
                 PROVE  FALSE
      BY DEF vars, At
    <2>1. sync[w].feed \in tokens
      BY DEF Heeds, AllHeed
    <2>2. /\ TypeOK /\ sync \in [Workers -> SyncFrame]
      BY DEF PlaceInv, TypeOK
    <2>3. ASSUME NEW x \in Workers, WorkerStep(x) \/ \E f \in Feeds : Trigger(x, f) PROVE FALSE
      <3>1. Remembers(x)
        BY <2>3, WorkersRemember DEF AllHeed
      <3>2. x = w
        BY <2>2, <3>1 DEF Remembers, At
      <3> QED
        BY <2>1, <3>1, <3>2 DEF Remembers, At
    <2>4. ASSUME NEW f \in Feeds, Cancel(f) PROVE FALSE
      BY <2>2, <2>4, GoneOn DEF Cancel, At, SyncFrame
    <2>5. CASE Restart
      BY <2>5 DEF Restart, NoSync
    <2>6. ASSUME NEW o \in Operators, OperatorStep(o) PROVE FALSE
      BY <2>6 DEF OperatorStep, MarkRolledBack, ActivateTarget, RollbackFails, At
    <2>7. ASSUME NEW o \in Operators, NEW f \in Feeds,
                 NEW requested, NEW current, NEW target, Rollback(o, f, requested, current, target)
          PROVE  FALSE
      BY <2>7 DEF Rollback, At
    <2> QED
      BY <2>3, <2>4, <2>5, <2>6, <2>7 DEF Next, Quiescent, vars, At
  <1> QED
    BY <1>1, <1>2, <1>3, Placement, PTL DEF Spec, CancelHeeded

-----------------------------------------------------------------------------
(* The version table implements the catalog of published datasets *)

\* What readers get of a feed with at most one ACTIVE version.
LEMMA ServedReads ==
  ASSUME TypeOK, NEW f \in Feeds
  PROVE  /\ ActiveOf(f) = {} => Served(f) = None
         /\ \A v : ActiveOf(f) = {v} => Served(f) = v
  <1>1. ASSUME NEW v, ActiveOf(f) = {v} PROVE Served(f) = v
    <2>1. v \in VersionIds /\ dsv[v].activated_at \in Nat
      BY <1>1 DEF ActiveOf, VersionsOf, TypeOK, DatasetVersion
    <2>2. \A u \in ActiveOf(f) : dsv[u].activated_at <= dsv[v].activated_at
      BY <1>1, <2>1
    <2> QED
      BY <1>1, <2>2 DEF Served
  <1> QED
    BY <1>1 DEF Served

LEMMA ServedReadsNext ==
  ASSUME TypeOK', NEW f \in Feeds
  PROVE  /\ ActiveOf(f)' = {} => Served(f)' = None
         /\ \A v : ActiveOf(f)' = {v} => Served(f)' = v
  <1>1. ASSUME NEW v, ActiveOf(f)' = {v} PROVE Served(f)' = v
    <2>1. v \in VersionIds /\ dsv'[v].activated_at \in Nat
      BY <1>1 DEF ActiveOf, VersionsOf, TypeOK, DatasetVersion
    <2>2. \A u \in ActiveOf(f)' : dsv'[u].activated_at <= dsv'[v].activated_at
      BY <1>1, <2>1
    <2> QED
      BY <1>1, <2>2 DEF Served
  <1> QED
    BY <1>1 DEF Served

Published == [f \in Feeds |-> Served(f)]
Replaced == {v \in VersionIds : dsv[v].status = "ARCHIVED"}

\* No sync has a version in hand that was replaced.
Current(w) ==
    Owner(w) => /\ dsv[sync[w].version].status # "ARCHIVED"
                /\ sync[w].copy.status # "ARCHIVED"

CatalogInv == \A w \in Workers : Current(w)

\* Steps that change no status publish nothing.
LEMMA SameCatalog ==
  ASSUME TypeOK, TypeOK', \A v \in VersionIds : dsv'[v] = dsv[v]
  PROVE  UNCHANGED <<Published, Replaced>>
  <1>1. \A f \in Feeds : Served(f)' = Served(f)
    <2> SUFFICES ASSUME NEW f \in Feeds PROVE Served(f)' = Served(f)
      OBVIOUS
    <2>1. dsv' = dsv
      BY DEF TypeOK
    <2> QED
      BY <2>1 DEF Served, ActiveOf, VersionsOf
  <1> QED
    BY <1>1 DEF Published, Replaced

\* Without rollbacks a feed serves its last activation, if that is ACTIVE.
LEMMA ServesLast ==
  ASSUME ConstantsAssumption, ServiceInv, NEW f \in Feeds
  PROVE  /\ Served(f) = IF lastActivated[f] \in ActiveOf(f) THEN lastActivated[f] ELSE None
         /\ ActiveOf(f) \subseteq {lastActivated[f]}
  <1>1. ActiveOf(f) \subseteq {lastActivated[f]}
    BY DEF ServiceInv, OnlyLastActive, ActiveOf, VersionsOf
  <1>2. ActiveOf(f) = {} \/ ActiveOf(f) = {lastActivated[f]}
    BY <1>1
  <1> QED
    BY <1>1, <1>2, ServedReads DEF ServiceInv

LEMMA ServesLastNext ==
  ASSUME ConstantsAssumption, ServiceInv', NEW f \in Feeds
  PROVE  /\ Served(f)' = IF lastActivated'[f] \in ActiveOf(f)' THEN lastActivated'[f] ELSE None
         /\ ActiveOf(f)' \subseteq {lastActivated'[f]}
  <1>1. ActiveOf(f)' \subseteq {lastActivated'[f]}
    BY DEF ServiceInv, OnlyLastActive, ActiveOf, VersionsOf
  <1>2. ActiveOf(f)' = {} \/ ActiveOf(f)' = {lastActivated'[f]}
    BY <1>1
  <1> QED
    BY <1>1, <1>2, ServedReadsNext DEF ServiceInv

\* A feed whose ACTIVE versions and last activation stay serves what it served.
LEMMA ServesOn ==
  ASSUME ConstantsAssumption, ServiceInv, ServiceInv', NEW f \in Feeds,
         ActiveOf(f)' = ActiveOf(f), lastActivated'[f] = lastActivated[f]
  PROVE  Served(f)' = Served(f)
  BY ServesLast, ServesLastNext

\* No version is published by two feeds.
LEMMA ServesOwn ==
  ASSUME ConstantsAssumption, ServiceInv, NEW f \in Feeds, NEW v \in VersionIds,
         Served(f) = v
  PROVE  dsv[v].feed = f
  <1>1. v \in ActiveOf(f)
    BY ServesLast DEF ConstantsAssumption
  <1> QED
    BY <1>1 DEF ActiveOf, VersionsOf

LEMMA RowSaved ==
  ASSUME ConstantsAssumption, ServiceInv, ServiceInv', NEW f \in Feeds,
         NEW v \in VersionIds, dsv[v].feed = f, dsv[v].status # "ARCHIVED",
         NEW row, dsv' = [dsv EXCEPT ![v] = row], row.feed = f, row.status # "ARCHIVED",
         UNCHANGED lastActivated
  PROVE  \/ Catalog!Withdraw(f)
         \/ Catalog!Publish(f, v)
         \/ UNCHANGED <<Published, Replaced>>
  <1>0. dsv \in [VersionIds -> DatasetVersion]
    BY DEF ServiceInv, TypeOK
  <1>1. \A u \in VersionIds : dsv'[u] = IF u = v THEN row ELSE dsv[u]
    BY <1>0
  <1>2. Replaced' = Replaced
    BY <1>1 DEF Replaced
  <1>3. ASSUME NEW g \in Feeds, g # f PROVE Served(g)' = Served(g)
    <2>1. ActiveOf(g)' = ActiveOf(g)
      BY <1>1, <1>3 DEF ActiveOf, VersionsOf
    <2> QED
      BY <2>1, ServesOn
  <1>4. /\ v \in ActiveOf(f) <=> dsv[v].status = "ACTIVE"
        /\ v \in ActiveOf(f)' <=> row.status = "ACTIVE"
    BY <1>1 DEF ActiveOf, VersionsOf
  <1>5. v # None
    BY DEF ConstantsAssumption
  <1>6. CASE row.status = "ACTIVE"
    <2>1. lastActivated[f] = v /\ Served(f)' = v /\ Served(f) \in {None, v}
      BY <1>4, <1>6, ServesLast, ServesLastNext
    <2>2. Published' = [Published EXCEPT ![f] = v]
      BY <1>3, <2>1 DEF Published
    <2>3. \A g \in Feeds \ {f} : Published[g] # v
      BY ServesOwn DEF Published
    <2>4. v \notin Replaced /\ Replaced' = Replaced \cup ({Published[f]} \ {None, v})
      BY <1>2, <2>1 DEF Replaced, Published
    <2>5. Catalog!Publish(f, v)
      BY <2>2, <2>3, <2>4 DEF Catalog!Publish, Published, Replaced
    <2> QED
      BY <2>5
  <1>7. CASE row.status # "ACTIVE" /\ dsv[v].status = "ACTIVE"
    <2>1. Served(f)' = None
      BY <1>4, <1>7, ServesLast, ServesLastNext
    <2>2. Published' = [Published EXCEPT ![f] = None]
      BY <1>3, <2>1 DEF Published
    <2>3. Catalog!Withdraw(f)
      BY <1>2, <2>2 DEF Catalog!Withdraw, Published, Replaced
    <2> QED
      BY <2>3
  <1>8. CASE row.status # "ACTIVE" /\ dsv[v].status # "ACTIVE"
    <2>1. ActiveOf(f)' = ActiveOf(f)
      BY <1>1, <1>8 DEF ActiveOf, VersionsOf
    <2>2. Served(f)' = Served(f)
      BY <2>1, ServesOn
    <2> QED
      BY <1>2, <1>3, <2>2 DEF Published
  <1> QED
    BY <1>6, <1>7, <1>8

LEMMA Activation ==
  ASSUME ConstantsAssumption, ServiceInv, ServiceInv', NEW f \in Feeds,
         NEW v \in VersionIds, dsv[v].feed = f, dsv[v].status # "ARCHIVED", SetActive(f, v)
  PROVE  Catalog!Publish(f, v)
  <1>1. /\ \A u \in VersionIds :
              /\ dsv'[u].feed = dsv[u].feed
              /\ dsv'[u].status = IF u = v THEN "ACTIVE"
                                  ELSE IF dsv[u].feed = f /\ dsv[u].status = "ACTIVE"
                                       THEN "ARCHIVED" ELSE dsv[u].status
        /\ ActiveOf(f)' = {v} /\ lastActivated'[f] = v
        /\ \A g \in Feeds \ {f} : lastActivated'[g] = lastActivated[g]
    BY ActivatedRows DEF ServiceInv
  <1>2. v # None
    BY DEF ConstantsAssumption
  <1>3. ASSUME NEW g \in Feeds, g # f PROVE Served(g)' = Served(g)
    <2>1. ActiveOf(g)' = ActiveOf(g)
      BY <1>1, <1>3 DEF ActiveOf, VersionsOf
    <2> QED
      BY <1>1, <1>3, <2>1, ServesOn
  <1>4. Served(f)' = v
    BY <1>1, ServesLastNext
  <1>5. Published' = [Published EXCEPT ![f] = v]
    BY <1>3, <1>4 DEF Published
  <1>6. \A g \in Feeds \ {f} : Published[g] # v
    BY ServesOwn DEF Published
  <1>7. ActiveOf(f) \ {v} = {Served(f)} \ {None, v}
    <2>1. None \notin ActiveOf(f)
      BY DEF ActiveOf, VersionsOf, ConstantsAssumption
    <2> QED
      BY <2>1, ServesLast
  <1>8. Replaced' = Replaced \cup (ActiveOf(f) \ {v})
    BY <1>1 DEF Replaced, ActiveOf, VersionsOf
  <1>9. v \notin Replaced /\ Replaced' = Replaced \cup ({Published[f]} \ {None, v})
    BY <1>7, <1>8 DEF Replaced, Published
  <1> QED
    BY <1>5, <1>6, <1>9 DEF Catalog!Publish, Published, Replaced

\* A step of a sync publishes its version, withdraws it, or does neither; it never
\* archives the version it has in hand.
LEMMA AdvanceRefines ==
  ASSUME ConstantsAssumption, PlaceInv, ServiceInv, TypeOK', ServiceInv', CatalogInv,
         NEW w \in Workers, Advances(w), Local(w)
  PROVE  /\ CatalogInv'
         /\ \/ Catalog!Next
            \/ UNCHANGED <<Published, Replaced>>
  <1> DEFINE s == sync[w]
             t == sync'[w]
             v == sync[w].version
  <1>0. /\ dsv \in [VersionIds -> DatasetVersion] /\ TypeOK
        /\ Placed(w) /\ VersionNamed(w) /\ Current(w) /\ RowsOwned
    BY DEF PlaceInv, TypeOK, CatalogInv
  <1>1. ASSUME Current(w)' PROVE CatalogInv'
    <2>1. ASSUME NEW x \in Workers, x # w PROVE Current(x)'
      BY <1>0, <2>1, Undisturbed DEF PlaceInv, CatalogInv, Current
    <2> QED
      BY <1>1, <2>1 DEF CatalogInv
  <1>2. s.pc \in Versioned => /\ v \in VersionIds /\ Owner(w) /\ dsv[v].feed = s.feed
                              /\ s.feed \in Feeds /\ s.copy.feed = s.feed
                              /\ dsv[v].status # "ARCHIVED" /\ s.copy.status # "ARCHIVED"
    <2>1. s.pc \in Versioned => v \in VersionIds /\ Owner(w) /\ s.pc # "idle"
      BY <1>0 DEF VersionNamed, Versioned, Owner, InRun, Executing, Handling, ConstantsAssumption
    <2> QED
      BY <1>0, <2>1 DEF Placed, Current
  <1>3. CASE Leaves(w)
    <2>1. Current(w)' /\ UNCHANGED dsv
      BY <1>3 DEF Leaves, Current, Owner
    <2> QED
      BY <1>0, <1>1, <2>1, SameCatalog
  <1>4. CASE Creates(w)
    <2> DEFINE n == t.version
               row == t.copy
    <2>1. /\ n \in VersionIds /\ dsv[n].status = "ABSENT" /\ s.pc = "fetching"
          /\ dsv' = [dsv EXCEPT ![n] = row] /\ row.status = "CREATED"
          /\ row.feed = s.feed /\ UNCHANGED lastActivated
      BY <1>4 DEF Creates
    <2>2. s.feed \in Feeds
      BY <1>0, <2>1 DEF Placed
    <2>3. \A u \in VersionIds : dsv'[u] = IF u = n THEN row ELSE dsv[u]
      BY <1>0, <2>1
    <2>4. Current(w)'
      BY <2>1, <2>3 DEF Current
    <2>5. Replaced' = Replaced
      BY <2>1, <2>3 DEF Replaced
    <2>6. ASSUME NEW f \in Feeds PROVE Served(f)' = Served(f)
      <3>1. ActiveOf(f)' = ActiveOf(f)
        BY <2>1, <2>3 DEF ActiveOf, VersionsOf
      <3> QED
        BY <2>1, <3>1, ServesOn
    <2> QED
      BY <1>1, <2>4, <2>5, <2>6 DEF Published
  <1>5. CASE Hops(w)
    <2>1. UNCHANGED dsv /\ Carries(w)
      BY <1>5 DEF Hops
    <2>2. Owner(w)' => Owner(w)
      BY <1>0, <1>5, <2>1 DEF Hops, Carries, Owner, InRun, Executing, Handling, Placed
    <2>3. Current(w)'
      BY <1>0, <2>1, <2>2 DEF Current, Carries
    <2> QED
      BY <1>0, <1>1, <2>1, <2>3, SameCatalog
  <1>6. CASE Saves(w)
    <2> DEFINE row == t.copy
    <2>1. /\ s.pc \in Versioned /\ t.version = v /\ row.feed = s.copy.feed
          /\ row.status \in {"FAILED", "STORED", s.copy.status}
          /\ dsv' = [dsv EXCEPT ![v] = row] /\ UNCHANGED lastActivated
      BY <1>6 DEF Saves, Versioned, Executing
    <2>2. /\ v \in VersionIds /\ dsv[v].feed = s.feed /\ s.feed \in Feeds /\ row.feed = s.feed
          /\ dsv[v].status # "ARCHIVED" /\ row.status # "ARCHIVED"
      BY <1>2, <2>1
    <2>3. Current(w)'
      BY <1>0, <2>1, <2>2 DEF Current
    <2> HIDE DEF s, t, v, row
    <2>4. PICK f \in Feeds, u \in VersionIds : f = s.feed /\ u = v
      BY <2>2
    <2>5. /\ dsv[u].feed = f /\ dsv[u].status # "ARCHIVED" /\ dsv' = [dsv EXCEPT ![u] = row]
          /\ row.feed = f /\ row.status # "ARCHIVED" /\ UNCHANGED lastActivated
      BY <2>1, <2>2, <2>4
    <2>6. \/ Catalog!Withdraw(f) \/ Catalog!Publish(f, u)
          \/ UNCHANGED <<Published, Replaced>>
      BY <2>5, RowSaved
    <2> QED
      BY <1>1, <2>3, <2>6 DEF Catalog!Next
  <1>7. CASE Activates(w)
    <2>1. /\ s.pc \in Versioned /\ t.version = v
          /\ SetActive(s.feed, v) \/ UNCHANGED <<dsv, clock, lastActivated>>
          /\ Carries(w) \/ (SetActive(s.feed, v) /\ t.copy = dsv'[v])
      BY <1>7 DEF Activates, Versioned, Executing, Carries
    <2>2. /\ v \in VersionIds /\ dsv[v].feed = s.feed /\ s.feed \in Feeds /\ Owner(w)
          /\ dsv[v].status # "ARCHIVED" /\ s.copy.status # "ARCHIVED"
      BY <1>2, <2>1
    <2>3. CASE SetActive(s.feed, v)
      <3>1. dsv'[v].status = "ACTIVE"
        <4> HIDE DEF s, v
        <4> QED
          BY <1>0, <2>2, <2>3, ActivatedRows
      <3>2. Current(w)'
        BY <2>1, <2>2, <3>1 DEF Current, Carries
      <3> HIDE DEF s, t, v
      <3>3. PICK f \in Feeds, u \in VersionIds : f = s.feed /\ u = v
        BY <2>2
      <3>4. dsv[u].feed = f /\ dsv[u].status # "ARCHIVED" /\ SetActive(f, u)
        BY <2>2, <2>3, <3>3 DEF SetActive, Activated
      <3>5. Catalog!Publish(f, u)
        BY <3>4, Activation
      <3> QED
        BY <1>1, <3>2, <3>5 DEF Catalog!Next
    <2>4. CASE UNCHANGED <<dsv, clock, lastActivated>> /\ ~ SetActive(s.feed, v)
      <3>1. Current(w)'
        BY <2>1, <2>2, <2>4 DEF Current, Carries
      <3> QED
        BY <1>0, <1>1, <2>4, <3>1, SameCatalog
    <2> QED
      BY <2>1, <2>3, <2>4
  <1> QED
    BY <1>3, <1>4, <1>5, <1>6, <1>7 DEF Advances

LEMMA CatalogStep ==
  ASSUME ConstantsAssumption, Operators = {}, PlaceInv, ServiceInv, TypeOK', ServiceInv',
         CatalogInv, Happens
  PROVE  /\ CatalogInv'
         /\ [Catalog!Next]_<<Published, Replaced>>
  <1>1. CASE \E w \in Workers : Advances(w) /\ Local(w)
    BY <1>1, AdvanceRefines
  <1>2. CASE Quiet
    <2>1. UNCHANGED dsv
      BY <1>2 DEF Quiet
    <2>2. ASSUME NEW x \in Workers PROVE Current(x)'
      <3>1. "idle" \notin InRun
        BY DEF InRun, Executing, Handling
      <3> QED
        BY <1>2, <2>1, <3>1 DEF Quiet, Current, Owner, CatalogInv
    <2> QED
      BY <2>1, <2>2, SameCatalog DEF CatalogInv, ServiceInv
  <1> QED
    BY <1>1, <1>2 DEF Happens

\* Where nobody rolls back, the version table with its thirteen-step syncs, retries,
\* plugins and restarts is an implementation of PublishedDatasets.
THEOREM CatalogImplemented == Operators = {} => (Spec => ImplementsCatalog)
  <1> SUFFICES ASSUME Operators = {} PROVE Spec => ImplementsCatalog
    OBVIOUS
  <1> USE ConstantsAssumption
  <1>1. Init => CatalogInv
    BY DEF Init, CatalogInv, Current, Owner, NoSync
  <1>2. Init => Catalog!Init
    <2> SUFFICES ASSUME Init PROVE Catalog!Init
      OBVIOUS
    <2>1. \A f \in Feeds : Served(f) = None
      BY DEF Init, Served, ActiveOf, VersionsOf, NoRow
    <2> QED
      BY <2>1 DEF Init, NoRow, Catalog!Init
  <1>3. /\ PlaceInv /\ ServiceInv /\ CatalogInv /\ TypeOK' /\ ServiceInv' /\ [Next]_vars
        => CatalogInv' /\ [Catalog!Next]_<<Published, Replaced>>
    BY StepsAre, CatalogStep
  <1>4. Spec => []ServiceInv
    BY ServiceKept
  <1> QED
    BY <1>1, <1>2, <1>3, <1>4, Placement, TypeCorrect, PTL
    DEF Spec, ImplementsCatalog, Catalog!Spec, Published, Replaced

-----------------------------------------------------------------------------
(* Datasets that failed validation *)

\* DatasetVersionManager._lock: one rollback at a time.
OneRollback == \A o \in Operators : rb[o].pc # "idle" => managerLock = o

LEMMA RollbacksExclude == Spec => []OneRollback
  <1>1. LocksHeld => OneRollback
    BY DEF LocksHeld, OneRollback
  <1> QED
    BY <1>1, LocksReturned, PTL

\* The version a sync has in hand is the newest of its feed, and the objects of syncs and
\* rollbacks know when their version was imported.
Dated(w) ==
    LET s == sync[w]
    IN  Owner(w) => /\ s.copy.imported_at = dsv[s.version].imported_at
                    /\ \A u \in VersionsOf(s.feed) \ {s.version} :
                          dsv[u].imported_at < dsv[s.version].imported_at

DatedRollback(o) ==
    rb[o].pc = "marking" => rb[o].copy.imported_at = dsv[rb[o].current].imported_at

DateInv == /\ \A v \in VersionIds : dsv[v].imported_at <= clock
           /\ \A w \in Workers : Dated(w)
           /\ \A o \in Operators : DatedRollback(o)

\* No row changes its feed or its date.
SameDates == \A u \in VersionIds : /\ dsv'[u].feed = dsv[u].feed
                                   /\ dsv'[u].imported_at = dsv[u].imported_at

LEMMA DatesStay ==
  ASSUME ConstantsAssumption, PlaceInv, DateInv, NEW w \in Workers, Advances(w)
  PROVE  Creates(w) \/ SameDates
  <1> DEFINE s == sync[w]
             v == sync[w].version
  <1>0. /\ dsv \in [VersionIds -> DatasetVersion] /\ TypeOK
        /\ Placed(w) /\ VersionNamed(w) /\ Dated(w)
    BY DEF PlaceInv, TypeOK, DateInv
  <1>1. s.pc \in Versioned => /\ v \in VersionIds /\ Owner(w) /\ dsv[v].feed = s.feed
                              /\ s.feed \in Feeds /\ s.copy.feed = s.feed
    <2>1. s.pc \in Versioned => v \in VersionIds /\ Owner(w) /\ s.pc # "idle"
      BY <1>0 DEF VersionNamed, Versioned, Owner, InRun, Executing, Handling, ConstantsAssumption
    <2> QED
      BY <1>0, <2>1 DEF Placed
  <1>2. CASE UNCHANGED dsv
    BY <1>2 DEF SameDates
  <1>3. CASE Saves(w)
    <2>1. /\ dsv' = [dsv EXCEPT ![v] = sync'[w].copy] /\ s.pc \in Versioned
          /\ sync'[w].copy.feed = s.copy.feed /\ sync'[w].copy.imported_at = s.copy.imported_at
      BY <1>3 DEF Saves, Versioned, Executing
    <2>2. v \in VersionIds /\ sync'[w].copy.feed = dsv[v].feed /\ s.copy.imported_at = dsv[v].imported_at
      BY <1>0, <1>1, <2>1 DEF Dated
    <2> QED
      BY <1>0, <2>1, <2>2 DEF SameDates
  <1>4. CASE Activates(w) /\ ~ UNCHANGED dsv
    <2>1. SetActive(s.feed, v) /\ s.pc \in Versioned
      BY <1>4 DEF Activates, Versioned, Executing
    <2>2. v \in VersionIds /\ dsv[v].feed = s.feed /\ s.feed \in Feeds
      BY <1>1, <2>1
    <2> HIDE DEF s, v
    <2> QED
      BY <1>0, <2>1, <2>2, ActivatedRows DEF SameDates
  <1> QED
    BY <1>2, <1>3, <1>4 DEF Advances, Leaves, Hops

LEMMA AdvanceKeepsDates ==
  ASSUME ConstantsAssumption, PlaceInv, PlaceInv', DateInv, NEW w \in Workers,
         Advances(w), Local(w), UNCHANGED rb
  PROVE  DateInv'
  <1> DEFINE s == sync[w]
             t == sync'[w]
  <1>0. /\ dsv \in [VersionIds -> DatasetVersion] /\ TypeOK /\ Placed(w) /\ VersionNamed(w)
        /\ Dated(w) /\ clock \in Nat /\ clock' \in Nat /\ clock <= clock'
        /\ \A u \in VersionIds : dsv[u].imported_at \in Nat
        /\ \A x \in Workers : Placed(x) /\ Placed(x)' /\ Dated(x)
        /\ \A o \in Operators : Aimed(o) /\ DatedRollback(o)
    BY DEF PlaceInv, TypeOK, DateInv, DatasetVersion, Local
  <1>1. CASE Creates(w)
    <2> DEFINE n == t.version
               row == t.copy
    <2>1. /\ n \in VersionIds /\ dsv[n].status = "ABSENT" /\ dsv[n].feed = None
          /\ dsv' = [dsv EXCEPT ![n] = row] /\ row.feed = s.feed /\ t.feed = s.feed
          /\ row.imported_at = clock + 1 /\ clock' = clock + 1 /\ s.pc = "fetching"
          /\ t.version = n /\ t.copy = row
      BY <1>1 DEF Creates, PlaceInv, RowsOwned
    <2>2. s.feed \in Feeds /\ feedLock[s.feed] = w
      BY <1>0, <2>1 DEF Placed, Holding, Executing
    <2> HIDE DEF n, row
    <2>3. \A u \in VersionIds : dsv'[u] = IF u = n THEN row ELSE dsv[u]
      BY <1>0, <2>1
    <2>4. \A u \in VersionIds : dsv'[u].imported_at <= clock'
      BY <1>0, <2>1, <2>3 DEF DateInv
    <2>5. Dated(w)'
      <3>1. \A u \in VersionIds \ {n} : dsv'[u].imported_at < dsv'[n].imported_at
        BY <1>0, <2>1, <2>3 DEF DateInv
      <3> QED
        BY <2>1, <2>3, <3>1 DEF Dated, VersionsOf
    <2>6. ASSUME NEW x \in Workers, x # w PROVE Dated(x)'
      <3>1. sync'[x] = sync[x] /\ (Owner(x)' <=> Owner(x))
        BY <1>0, <2>6, Undisturbed
      <3>2. ASSUME Owner(x)
            PROVE  /\ sync[x].version \in VersionIds /\ sync[x].version # n
                   /\ sync[x].feed # s.feed
        <4>1. /\ sync[x].version \in VersionIds /\ dsv[sync[x].version].status # "ABSENT"
              /\ sync[x].pc \in Holding
          BY <1>0, <3>2 DEF Placed, Owner, InRun, Holding
        <4>2. feedLock[sync[x].feed] = x
          BY <1>0, <4>1 DEF Placed
        <4> QED
          BY <2>1, <2>2, <2>6, <4>1, <4>2
      <3>3. ASSUME Owner(x)
            PROVE  \A u \in VersionIds : dsv'[u].feed = sync[x].feed => u \in VersionsOf(sync[x].feed) /\ u # n
        BY <2>1, <2>3, <3>2, <3>3 DEF VersionsOf
      <3>4. CASE Owner(x)
        <4>1. Dated(x)
          BY <1>0
        <4>2. /\ sync[x].copy.imported_at = dsv[sync[x].version].imported_at
              /\ \A u \in VersionsOf(sync[x].feed) \ {sync[x].version} :
                          dsv[u].imported_at < dsv[sync[x].version].imported_at
          BY <3>4, <4>1 DEF Dated
        <4>3. /\ sync[x].copy.imported_at = dsv'[sync[x].version].imported_at
              /\ \A u \in VersionIds \ {sync[x].version} :
                    dsv'[u].feed = sync[x].feed
                      => dsv'[u].imported_at < dsv'[sync[x].version].imported_at
          BY <2>3, <3>2, <3>3, <3>4, <4>2
        <4> QED
          BY <3>1, <4>3 DEF Dated, VersionsOf
      <3> QED
        BY <3>1, <3>4 DEF Dated
    <2>7. ASSUME NEW o \in Operators PROVE DatedRollback(o)'
      <3>1. rb[o].pc = "marking" => rb[o].current \in VersionIds /\ rb[o].current # n
        BY <1>0, <2>1 DEF Aimed, ConstantsAssumption
      <3> QED
        BY <1>0, <2>3, <3>1 DEF DatedRollback
    <2> QED
      BY <2>4, <2>5, <2>6, <2>7 DEF DateInv
  <1>2. CASE SameDates /\ ~ Creates(w)
    <2>1. \A u \in VersionIds : dsv'[u].imported_at <= clock'
      BY <1>0, <1>2 DEF DateInv, SameDates
    <2>2. ASSUME NEW x \in Workers, Owner(x), sync'[x].version = sync[x].version,
                 sync'[x].feed = sync[x].feed,
                 \/ sync'[x].copy.imported_at = sync[x].copy.imported_at
                 \/ sync'[x].copy.imported_at = dsv'[sync[x].version].imported_at
          PROVE  Dated(x)'
      <3>1. Dated(x) /\ sync[x].version \in VersionIds
        BY <1>0, <2>2 DEF Placed
      <3> QED
        BY <1>2, <2>2, <3>1 DEF Dated, SameDates, VersionsOf
    <2>3. ASSUME NEW x \in Workers, x # w PROVE Dated(x)'
      <3>1. sync'[x] = sync[x] /\ (Owner(x)' <=> Owner(x))
        BY <1>0, <2>3, Undisturbed
      <3> QED
        BY <2>2, <3>1 DEF Dated
    <2>4. Dated(w)'
      <3>1. Owner(w)' => /\ Owner(w) /\ t.version = s.version /\ t.feed = s.feed
                         /\ \/ t.copy.imported_at = s.copy.imported_at
                            \/ t.copy.imported_at = dsv'[s.version].imported_at
        <4>1. CASE Leaves(w)
          BY <4>1 DEF Leaves, Owner
        <4>2. CASE Hops(w)
          BY <1>0, <4>2 DEF Hops, Carries, Owner, InRun, Executing, Handling, Placed
        <4>3. CASE Saves(w) \/ Activates(w)
          <5>1. /\ s.pc \in InRun /\ t.version = s.version /\ t.feed = s.feed
                /\ \/ t.copy.imported_at = s.copy.imported_at
                   \/ t.copy.imported_at = dsv'[s.version].imported_at
            BY <4>3 DEF Saves, Activates, Carries, InRun, Executing, Handling
          <5> QED
            BY <5>1 DEF Owner
        <4> QED
          BY <1>2, <4>1, <4>2, <4>3 DEF Advances
      <3> QED
        BY <2>2, <3>1 DEF Dated
    <2>5. ASSUME NEW o \in Operators PROVE DatedRollback(o)'
      BY <1>0, <1>2 DEF DatedRollback, SameDates, Aimed
    <2> QED
      BY <2>1, <2>3, <2>4, <2>5 DEF DateInv
  <1> QED
    BY <1>1, <1>2, DatesStay

LEMMA DatesKept ==
  ASSUME ConstantsAssumption, PlaceInv, PlaceInv', DateInv, Happens
  PROVE  DateInv'
  <1>0. /\ dsv \in [VersionIds -> DatasetVersion] /\ rb \in [Operators -> RollbackFrame]
        /\ TypeOK /\ clock \in Nat /\ clock' \in Nat
        /\ \A u \in VersionIds : dsv[u].imported_at \in Nat
        /\ \A x \in Workers : Placed(x) /\ Dated(x)
        /\ \A o \in Operators : Aimed(o) /\ Aimed(o)' /\ DatedRollback(o)
    BY DEF PlaceInv, TypeOK, DateInv, DatasetVersion
  <1>1. CASE \E w \in Workers : Advances(w) /\ Local(w) /\ UNCHANGED rb
    BY <1>1, AdvanceKeepsDates
  <1>2. ASSUME NEW o \in Operators, Intrudes(o) PROVE DateInv'
    <2>1. SameDates /\ clock <= clock'
      <3>1. CASE Marks(o)
        <4> DEFINE c == rb[o].current
        <4>1. PICK row : /\ dsv' = [dsv EXCEPT ![c] = row] /\ row.feed = rb[o].copy.feed
                         /\ row.imported_at = rb[o].copy.imported_at
          BY <3>1 DEF Marks
        <4>2. /\ c \in VersionIds /\ rb[o].copy.feed = dsv[c].feed
              /\ rb[o].copy.imported_at = dsv[c].imported_at /\ UNCHANGED clock
          BY <1>0, <3>1 DEF Marks, Aimed, DatedRollback
        <4> HIDE DEF c
        <4> QED
          BY <1>0, <4>1, <4>2 DEF SameDates
      <3>2. CASE Restores(o)
        <4> DEFINE f == rb[o].feed
                   v == rb[o].target
        <4>1. f \in Feeds /\ v \in VersionIds /\ dsv[v].feed = f /\ SetActive(f, v)
          BY <1>0, <3>2 DEF Restores, Aimed
        <4> HIDE DEF f, v
        <4>2. SameDates /\ clock' = clock + 1
          BY <1>0, <4>1, ActivatedRows DEF SameDates
        <4> QED
          BY <1>0, <4>2
      <3> QED
        BY <1>2, <3>1, <3>2 DEF Intrudes
    <2>2. ASSUME NEW x \in Workers PROVE Dated(x)'
      <3>1. (Owner(x)' <=> Owner(x)) /\ sync'[x] = sync[x]
        BY <1>2 DEF Intrudes, Owner
      <3>2. Owner(x) => sync[x].version \in VersionIds
        BY <1>0 DEF Placed
      <3> QED
        BY <1>0, <2>1, <3>1, <3>2 DEF Dated, SameDates, VersionsOf
    <2>3. ASSUME NEW p \in Operators PROVE DatedRollback(p)'
      <3>1. rb'[p].pc = "marking" => rb'[p] = rb[p]
        BY <1>0, <1>2 DEF Intrudes, Marks, Restores
      <3> QED
        BY <1>0, <2>1, <3>1 DEF DatedRollback, SameDates, Aimed
    <2> QED
      BY <1>0, <2>1, <2>2, <2>3 DEF DateInv, SameDates
  <1>3. CASE Quiet
    <2>1. ASSUME NEW x \in Workers PROVE Dated(x)'
      <3>1. "idle" \notin InRun
        BY DEF InRun, Executing, Handling
      <3> QED
        BY <1>0, <1>3, <3>1 DEF Quiet, Dated, Owner, VersionsOf
    <2>2. ASSUME NEW o \in Operators PROVE DatedRollback(o)'
      BY <1>0, <1>3 DEF Quiet, Requested, DatedRollback
    <2> QED
      BY <1>3, <2>1, <2>2 DEF Quiet, DateInv
  <1> QED
    BY <1>1, <1>2, <1>3 DEF Happens

LEMMA DatesAgree == Spec => []DateInv
  <1> USE ConstantsAssumption
  <1>1. Init => DateInv
    BY DEF Init, DateInv, Dated, DatedRollback, Owner, InRun, NoSync, NoRow,
       NoRollback, Executing, Handling
  <1>2. PlaceInv /\ PlaceInv' /\ DateInv /\ [Next]_vars => DateInv'
    BY StepsAre, DatesKept
  <1> QED
    BY <1>1, <1>2, Placement, PTL DEF Spec

\* The sync knows that its dataset has failed validation, or has yet to find out.
Guarded(w) == Owner(w) /\ \/ sync[w].pc \in {"created", "verified"}
                          \/ sync[w].copy.validation = "FAILED"

\* A sync goes through its thirteen steps with a dataset that has not failed, and while
\* its object says so the row says so, and will if a rollback saves its own object.
Vouched(w) ==
    LET s == sync[w]
    IN  Owner(w) =>
          /\ s.pc \in Executing => s.copy.validation # "FAILED"
          /\ s.copy.validation # "FAILED" =>
                /\ dsv[s.version].validation # "FAILED"
                /\ \A o \in Operators :
                      rb[o].pc = "marking" /\ rb[o].current = s.version
                        => rb[o].copy.validation # "FAILED"

\* Such a dataset is none that a rollback chooses by itself, and it is not archived: the
\* rollback that replaces it marks it first.
Withheld(w) ==
    LET s == sync[w]
        v == s.version
    IN  Guarded(w) =>
          /\ dsv[v].status \in {"CREATED", "FAILED", "ACTIVE", "ROLLED_BACK"}
          /\ \A o \in Operators : rb[o].pc # "idle" /\ rb[o].feed = s.feed =>
                /\ rb[o].target = v => rb[o].explicit
                /\ rb[o].target # v /\ dsv[v].status = "ACTIVE"
                     => rb[o].pc = "marking" /\ rb[o].current = v

\* What a rollback chose by itself has not failed validation.
Eligible(o) ==
    LET r == rb[o]
    IN  r.pc # "idle" /\ ~ r.explicit =>
          /\ dsv[r.target].validation # "FAILED"
          /\ r.pc = "marking" => r.current # r.target

ValidInv == /\ \A w \in Workers : Vouched(w) /\ Withheld(w)
            /\ \A o \in Operators : Eligible(o)

\* Rows, frames and rollbacks that matter to a sync are untouched.
LEMMA SyncWithheld ==
  ASSUME NEW x \in Workers, Vouched(x), Withheld(x), Owner(x)' => Owner(x),
         sync'[x].pc = sync[x].pc, sync'[x].feed = sync[x].feed,
         sync'[x].version = sync[x].version, sync'[x].copy = sync[x].copy,
         Owner(x) => dsv'[sync[x].version] = dsv[sync[x].version],
         \A o \in Operators : rb'[o] = rb[o] \/ rb'[o].pc = "idle"
  PROVE  Vouched(x)' /\ Withheld(x)'
  <1>1. Vouched(x)'
    BY DEF Vouched
  <1>2. Withheld(x)'
    BY DEF Withheld, Guarded
  <1> QED
    BY <1>1, <1>2

LEMMA AdvanceKeepsValid ==
  ASSUME ConstantsAssumption, ActivatingPlugins = {}, PlaceInv, PlaceInv', ValidInv,
         NEW w \in Workers, Advances(w), Local(w), UNCHANGED rb
  PROVE  ValidInv'
  <1> DEFINE s == sync[w]
             t == sync'[w]
             v == sync[w].version
  <1>0. /\ dsv \in [VersionIds -> DatasetVersion] /\ TypeOK /\ Placed(w) /\ VersionNamed(w)
        /\ Placed(w)'
        /\ Vouched(w) /\ Withheld(w)
        /\ \A x \in Workers : Placed(x) /\ Vouched(x) /\ Withheld(x)
        /\ \A o \in Operators : Aimed(o) /\ Eligible(o)
        /\ \A o \in Operators : rb'[o] = rb[o]
    BY DEF PlaceInv, TypeOK, ValidInv
  <1>1. ASSUME NEW x \in Workers, x # w PROVE Vouched(x)' /\ Withheld(x)'
    <2>1. /\ sync'[x] = sync[x] /\ (Owner(x)' <=> Owner(x))
          /\ Owner(x) => dsv'[sync[x].version] = dsv[sync[x].version]
      BY <1>0, <1>1, Undisturbed
    <2> QED
      BY <1>0, <2>1, SyncWithheld
  <1>2. s.pc \in Versioned => /\ v \in VersionIds /\ Owner(w) /\ dsv[v].feed = s.feed
                              /\ s.feed \in Feeds
    <2>1. s.pc \in Versioned => v \in VersionIds /\ Owner(w) /\ s.pc # "idle"
      BY <1>0 DEF VersionNamed, Versioned, Owner, InRun, Executing, Handling, ConstantsAssumption
    <2> QED
      BY <1>0, <2>1 DEF Placed
  <1>3. CASE Leaves(w)
    BY <1>0, <1>1, <1>3 DEF Leaves, Owner, Guarded, Vouched, Withheld, Eligible, ValidInv
  <1>4. CASE Creates(w)
    <2> DEFINE n == t.version
               row == t.copy
    <2>1. /\ n \in VersionIds /\ dsv[n].feed = None /\ dsv' = [dsv EXCEPT ![n] = row]
          /\ row.status = "CREATED" /\ row.validation = "PENDING" /\ t.pc = "created"
      BY <1>4 DEF Creates, PlaceInv, RowsOwned
    <2> HIDE DEF n, row
    <2>2. \A u \in VersionIds : dsv'[u] = IF u = n THEN row ELSE dsv[u]
      BY <1>0, <2>1
    <2>3. \A o \in Operators : /\ rb[o].pc # "idle" => rb[o].target \in VersionIds /\ rb[o].target # n
                               /\ rb[o].pc = "marking" => rb[o].current # n
      BY <1>0, <2>1 DEF Aimed, ConstantsAssumption
    <2>4. \A o \in Operators : Eligible(o)'
      BY <1>0, <2>1, <2>2, <2>3 DEF Eligible
    <2>5. Vouched(w)'
      BY <1>0, <2>1, <2>2, <2>3 DEF Vouched, n, row
    <2>6. Withheld(w)'
      BY <1>0, <2>1, <2>2, <2>3 DEF Withheld, n, row
    <2> QED
      BY <1>1, <2>4, <2>5, <2>6 DEF ValidInv
  <1>5. CASE Hops(w)
    <2>1. UNCHANGED dsv /\ Carries(w)
      BY <1>5 DEF Hops
    <2>2. \A o \in Operators : Eligible(o)'
      BY <1>0, <2>1 DEF Eligible
    <2>3. ASSUME Owner(w)' PROVE Owner(w) /\ (t.pc \in Executing => s.pc \in Executing)
      BY <1>0, <1>5, <2>3 DEF Hops, Carries, Owner, InRun, Executing, Handling, Placed
    <2>4. Vouched(w)'
      <3> SUFFICES ASSUME Owner(w)' PROVE Vouched(w)'
        BY DEF Vouched
      <3>1. /\ Owner(w) /\ t.version = v
            /\ s.copy.validation = "FAILED" => t.copy.validation = "FAILED"
        <4>1. s.pc = "verified" => s.copy.validation # "FAILED"
          BY <1>0, <2>3 DEF Vouched, Executing
        <4> QED
          BY <2>1, <2>3, <4>1 DEF Carries
      <3>2. t.pc \in Executing => t.copy.validation # "FAILED"
        <4>1. "failing" \notin Executing
          BY DEF Executing
        <4> QED
          BY <1>0, <2>1, <2>3, <4>1 DEF Vouched, Carries
      <3> QED
        BY <1>0, <2>1, <3>1, <3>2 DEF Vouched
    <2>5. ASSUME Guarded(w)' PROVE Guarded(w)
      <3>1. Owner(w)' /\ Owner(w)
        BY <2>3, <2>5 DEF Guarded
      <3>2. t.pc \in {"created", "verified"} => s.pc = "created"
        BY <1>5 DEF Hops, Executing
      <3> QED
        BY <2>1, <2>5, <3>1, <3>2 DEF Guarded, Carries
    <2>6. Withheld(w)'
      BY <1>0, <2>1, <2>5 DEF Withheld, Carries
    <2> QED
      BY <1>1, <2>2, <2>4, <2>6 DEF ValidInv
  <1>6. CASE Saves(w)
    <2> DEFINE row == t.copy
    <2>1. /\ t.feed = s.feed /\ t.version = v /\ s.pc \in Versioned /\ dsv' = [dsv EXCEPT ![v] = row]
          /\ row.validation = IF s.pc = "verified" THEN "FAILED" ELSE s.copy.validation
          /\ \/ s.pc = "verified" /\ t.pc = "failing" /\ row.status = "FAILED"
             \/ s.pc = "validated" /\ t.pc = "stored"
             \/ s.pc = "notified" /\ t.pc = "saved"
             \/ s.pc = "import_failed" /\ t.pc = "marked" /\ row.status = "FAILED"
      BY <1>6 DEF Saves, Versioned, Executing
    <2>2. /\ v \in VersionIds /\ Owner(w) /\ dsv[v].feed = s.feed
          /\ \A u \in VersionIds : dsv'[u] = IF u = v THEN row ELSE dsv[u]
      BY <1>0, <1>2, <2>1
    <2>3. s.pc \in Executing <=> s.pc # "import_failed"
      BY <2>1 DEF Executing
    <2>4. row.validation = "FAILED" => Guarded(w) /\ row.status = "FAILED"
      BY <1>0, <2>1, <2>2, <2>3 DEF Guarded, Vouched
    <2>5. t.pc \in Executing => row.validation # "FAILED"
      BY <1>0, <2>1, <2>2, <2>3 DEF Vouched, Executing
    <2>6. Vouched(w)'
      BY <1>0, <2>1, <2>2, <2>5 DEF Vouched
    <2>7. Withheld(w)'
      <3>1. Guarded(w)' => row.validation = "FAILED"
        BY <2>1 DEF Guarded
      <3> QED
        BY <1>0, <2>1, <2>2, <2>4, <3>1 DEF Withheld
    <2>8. ASSUME NEW o \in Operators PROVE Eligible(o)'
      <3>1. CASE rb[o].target = v /\ row.validation = "FAILED" /\ rb[o].pc # "idle"
        <4>1. rb[o].feed = s.feed
          BY <1>0, <2>2, <3>1 DEF Aimed
        <4> QED
          BY <1>0, <2>4, <3>1, <4>1 DEF Withheld, Eligible
      <3> QED
        BY <1>0, <2>2, <3>1 DEF Eligible, Aimed
    <2> QED
      BY <1>1, <2>6, <2>7, <2>8 DEF ValidInv
  <1>7. CASE Activates(w)
    <2>1. /\ t.feed = s.feed /\ t.version = v /\ s.pc \in Versioned
          /\ s.pc \in {"built", "activated", "marked"}
          /\ t.pc \in {"activated", "failing", "notified", "undone"}
          /\ t.pc \in Executing => s.pc \in Executing
      BY <1>7 DEF Activates, Carries, Versioned, Executing
    <2>2. v \in VersionIds /\ Owner(w) /\ dsv[v].feed = s.feed /\ s.feed \in Feeds
      BY <1>2, <2>1
    <2>3. \/ UNCHANGED dsv
          \/ SetActive(s.feed, v) /\ s.pc = "built"
      BY <1>7 DEF Activates
    <2>4. \A u \in VersionIds : dsv'[u].validation = dsv[u].validation
      <3> HIDE DEF s, v
      <3> QED
        BY <1>0, <2>2, <2>3, ActivatedRows
    <2>5. t.copy.validation = s.copy.validation \/ t.copy.validation = dsv'[v].validation
      BY <1>7 DEF Activates, Carries
    <2>6. Vouched(w)'
      <3>1. s.pc = "built" => s.copy.validation # "FAILED"
        BY <1>0, <2>2 DEF Vouched, Executing
      <3>2. \/ t.copy.validation = s.copy.validation
            \/ s.copy.validation # "FAILED" /\ dsv[v].validation # "FAILED"
        BY <1>0, <1>7, <2>2, <2>4, <3>1 DEF Activates, Carries, Vouched
      <3>3. \/ s.copy.validation = t.copy.validation
            \/ t.copy.validation # "FAILED"
        BY <2>2, <2>4, <2>5, <3>2
      <3>4. t.copy.validation # "FAILED" => s.copy.validation # "FAILED"
        BY <3>2
      <3> QED
        BY <1>0, <2>1, <2>2, <2>4, <3>3, <3>4 DEF Vouched
    <2>7. Withheld(w)'
      <3>1. s.pc = "built" => s.copy.validation # "FAILED"
        BY <1>0, <2>2 DEF Vouched, Executing
      <3>2. Guarded(w)' => t.copy.validation = "FAILED"
        BY <2>1 DEF Guarded
      <3>3. t.copy.validation = "FAILED" => s.copy.validation = "FAILED" /\ s.pc # "built"
        BY <1>0, <1>7, <2>2, <2>4, <2>5, <3>1 DEF Activates, Carries, Vouched
      <3> QED
        BY <1>0, <2>1, <2>2, <2>3, <3>2, <3>3 DEF Withheld, Guarded
    <2>8. \A o \in Operators : Eligible(o)'
      BY <1>0, <2>4 DEF Eligible, Aimed
    <2> QED
      BY <1>1, <2>6, <2>7, <2>8 DEF ValidInv
  <1> QED
    BY <1>3, <1>4, <1>5, <1>6, <1>7 DEF Advances

LEMMA IntrusionKeepsValid ==
  ASSUME ConstantsAssumption, PlaceInv, OneRollback, ValidInv,
         NEW o \in Operators, Intrudes(o)
  PROVE  ValidInv'
  <1>0. /\ dsv \in [VersionIds -> DatasetVersion] /\ rb \in [Operators -> RollbackFrame]
        /\ TypeOK /\ UNCHANGED sync /\ Aimed(o) /\ Eligible(o)
        /\ \A x \in Workers : Placed(x) /\ Vouched(x) /\ Withheld(x)
        /\ \A p \in Operators \ {o} : rb[p].pc = "idle" /\ rb'[p].pc = "idle"
    BY DEF PlaceInv, TypeOK, ValidInv, Intrudes, Marks, Restores, OneRollback
  <1>1. \A x \in Workers : /\ Owner(x)' <=> Owner(x)
                           /\ Guarded(x)' <=> Guarded(x)
                           /\ Owner(x) => sync[x].version \in VersionIds
                                          /\ dsv[sync[x].version].feed = sync[x].feed
    BY <1>0 DEF Owner, Guarded, Placed
  <1>3. CASE Marks(o)
    <2> DEFINE c == rb[o].current
    <2>1. /\ rb[o].pc = "marking" /\ rb'[o].pc = "activating" /\ rb'[o].feed = rb[o].feed
          /\ rb'[o].target = rb[o].target /\ rb'[o].explicit = rb[o].explicit
      BY <1>3 DEF Marks
    <2>2. PICK row : /\ dsv' = [dsv EXCEPT ![c] = row] /\ row.status = "ROLLED_BACK"
                     /\ row.validation = rb[o].copy.validation
      BY <1>3 DEF Marks
    <2>3. /\ c \in VersionIds /\ rb[o].target \in VersionIds
          /\ \A u \in VersionIds : dsv'[u] = IF u = c THEN row ELSE dsv[u]
      BY <1>0, <2>1, <2>2 DEF Aimed
    <2>4. ASSUME NEW x \in Workers PROVE Vouched(x)'
      <3>1. ASSUME Owner(x), sync[x].copy.validation # "FAILED"
            PROVE  dsv'[sync[x].version].validation # "FAILED"
        BY <1>0, <1>1, <2>1, <2>2, <2>3, <3>1 DEF Vouched
      <3> QED
        BY <1>0, <1>1, <2>1, <3>1 DEF Vouched
    <2>5. ASSUME NEW x \in Workers PROVE Withheld(x)'
      <3> SUFFICES ASSUME Guarded(x)
                   PROVE  LET v == sync[x].version
                          IN  /\ dsv'[v].status \in {"CREATED", "FAILED", "ACTIVE", "ROLLED_BACK"}
                              /\ rb[o].feed = sync[x].feed =>
                                   /\ rb[o].target = v => rb[o].explicit
                                   /\ rb[o].target # v => dsv'[v].status # "ACTIVE"
        BY <1>0, <1>1, <2>1 DEF Withheld
      <3>1. Owner(x)
        BY DEF Guarded
      <3> QED
        BY <1>0, <1>1, <2>1, <2>2, <2>3, <3>1 DEF Withheld
    <2>6. Eligible(o)'
      BY <1>0, <2>1, <2>3 DEF Eligible
    <2> QED
      BY <1>0, <2>4, <2>5, <2>6 DEF ValidInv, Eligible
  <1>4. CASE Restores(o)
    <2> DEFINE f == rb[o].feed
               d == rb[o].target
    <2>1. /\ f \in Feeds /\ d \in VersionIds /\ dsv[d].feed = f /\ SetActive(f, d)
          /\ rb[o].pc = "activating" /\ rb'[o].pc = "idle"
      BY <1>0, <1>4 DEF Restores, Aimed
    <2>2. \A u \in VersionIds :
             /\ dsv'[u].validation = dsv[u].validation
             /\ dsv'[u].status = IF u = d THEN "ACTIVE"
                                 ELSE IF dsv[u].feed = f /\ dsv[u].status = "ACTIVE"
                                      THEN "ARCHIVED" ELSE dsv[u].status
      <3> HIDE DEF f, d
      <3> QED
        BY <1>0, <2>1, ActivatedRows
    <2>3. \A p \in Operators : rb'[p].pc = "idle"
      BY <1>0, <2>1
    <2>4. ASSUME NEW x \in Workers PROVE Vouched(x)' /\ Withheld(x)'
      <3>1. Vouched(x)'
        BY <1>0, <1>1, <2>2, <2>3 DEF Vouched
      <3>2. ASSUME Guarded(x)
            PROVE  dsv'[sync[x].version].status \in {"CREATED", "FAILED", "ACTIVE", "ROLLED_BACK"}
        <4>1. Owner(x)
          BY <3>2 DEF Guarded
        <4> QED
          BY <1>0, <1>1, <2>1, <2>2, <3>2, <4>1 DEF Withheld
      <3> QED
        BY <1>0, <1>1, <2>3, <3>1, <3>2 DEF Withheld
    <2> QED
      BY <2>3, <2>4 DEF ValidInv, Eligible
  <1> QED
    BY <1>3, <1>4 DEF Intrudes

LEMMA QuietKeepsValid ==
  ASSUME ConstantsAssumption, PlaceInv, OneRollback, DateInv, ValidInv, Quiet
  PROVE  ValidInv'
  <1>0. /\ \A x \in Workers : Placed(x) /\ Vouched(x) /\ Withheld(x) /\ Dated(x)
        /\ \A o \in Operators : Eligible(o)
        /\ \A u \in VersionIds : dsv[u].imported_at \in Nat
        /\ UNCHANGED dsv
    BY DEF PlaceInv, TypeOK, ValidInv, DateInv, DatasetVersion, Quiet
  <1>1. ASSUME NEW x \in Workers, Owner(x)'
        PROVE  /\ Owner(x) /\ sync'[x].pc = sync[x].pc /\ sync'[x].feed = sync[x].feed
               /\ sync'[x].version = sync[x].version /\ sync'[x].copy = sync[x].copy
    <2>1. "idle" \notin InRun
      BY DEF InRun, Executing, Handling
    <2> QED
      BY <1>1, <2>1 DEF Quiet, Owner
  <1>2. ASSUME NEW o \in Operators, rb'[o] # rb[o], rb'[o].pc # "idle"
        PROVE  Requested(o) /\ Aimed(o)'
    BY <1>2 DEF Quiet
  <1>3. ASSUME NEW x \in Workers PROVE Vouched(x)' /\ Withheld(x)'
    <2>1. Vouched(x)'
      <3> SUFFICES ASSUME Owner(x)' PROVE Vouched(x)'
        BY DEF Vouched
      <3>1. ASSUME NEW o \in Operators, rb'[o].pc = "marking", rb'[o].current = sync[x].version,
                   sync[x].copy.validation # "FAILED"
            PROVE  rb'[o].copy.validation # "FAILED"
        BY <1>0, <1>1, <1>2, <3>1 DEF Vouched, Requested
      <3> QED
        BY <1>0, <1>1, <3>1 DEF Vouched
    <2>2. Withheld(x)'
      <3> DEFINE v == sync[x].version
      <3> SUFFICES ASSUME Guarded(x)' PROVE Withheld(x)'
        BY DEF Withheld
      <3>1. /\ Owner(x) /\ Guarded(x) /\ v \in VersionIds /\ dsv[v].feed = sync[x].feed
            /\ sync'[x].feed = sync[x].feed /\ sync'[x].version = v
        BY <1>0, <1>1 DEF Guarded, Placed
      <3>2. ASSUME NEW o \in Operators, rb'[o].pc # "idle", rb'[o].feed = sync[x].feed
            PROVE  /\ rb'[o].target = v => rb'[o].explicit
                   /\ rb'[o].target # v /\ dsv[v].status = "ACTIVE"
                        => rb'[o].pc = "marking" /\ rb'[o].current = v
        <4>1. CASE rb'[o] = rb[o]
          BY <1>0, <3>1, <3>2, <4>1 DEF Withheld
        <4>2. CASE rb'[o] # rb[o]
          <5>1. Requested(o) /\ dsv[v].status \notin {"ARCHIVED", "STORED"}
            BY <1>0, <1>2, <3>1, <3>2, <4>2 DEF Withheld
          <5>2. rb'[o].target = v => rb'[o].explicit
            BY <5>1 DEF Requested, Candidates
          <5>3. ASSUME dsv[v].status = "ACTIVE" PROVE rb'[o].pc = "marking" /\ rb'[o].current = v
            <6>1. v \in VersionsOf(sync[x].feed) /\ v \in ActiveOf(sync[x].feed)
              BY <3>1, <5>3 DEF ActiveOf, VersionsOf
            <6>2. /\ rb'[o].pc = "marking" /\ rb'[o].current \in ActiveOf(sync[x].feed)
                  /\ dsv[v].imported_at <= dsv[rb'[o].current].imported_at
              BY <3>2, <5>1, <6>1 DEF Requested, Newest
            <6>3. rb'[o].current \in VersionsOf(sync[x].feed) /\ rb'[o].current \in VersionIds
              BY <6>2 DEF ActiveOf, VersionsOf
            <6>4. rb'[o].current # v => dsv[rb'[o].current].imported_at < dsv[v].imported_at
              BY <1>0, <3>1, <6>3 DEF Dated
            <6> QED
              BY <1>0, <3>1, <6>2, <6>3, <6>4
          <5> QED
            BY <5>2, <5>3
        <4> QED
          BY <4>1, <4>2
      <3> QED
        BY <1>0, <3>1, <3>2 DEF Withheld
    <2> QED
      BY <2>1, <2>2
  <1>4. ASSUME NEW o \in Operators PROVE Eligible(o)'
    <2>1. CASE rb'[o] = rb[o]
      BY <1>0, <2>1 DEF Eligible
    <2>2. CASE rb'[o] # rb[o]
      BY <1>0, <1>2, <2>2 DEF Eligible, Requested, Candidates
    <2> QED
      BY <2>1, <2>2
  <1> QED
    BY <1>3, <1>4 DEF ValidInv

LEMMA ValidationKnown == ActivatingPlugins = {} => (Spec => []ValidInv)
  <1> SUFFICES ASSUME ActivatingPlugins = {} PROVE Spec => []ValidInv
    OBVIOUS
  <1> USE ConstantsAssumption
  <1>1. Init => ValidInv
    BY DEF Init, ValidInv, Vouched, Withheld, Guarded, Eligible, Owner, NoSync, NoRollback
  <1>2. PlaceInv /\ PlaceInv' /\ OneRollback /\ DateInv /\ ValidInv /\ [Next]_vars => ValidInv'
    BY StepsAre, AdvanceKeepsValid, IntrusionKeepsValid, QuietKeepsValid DEF Happens
  <1> QED
    BY <1>1, <1>2, Placement, RollbacksExclude, DatesAgree, PTL DEF Spec

\* DatasetVersionManager.activate_version and rollback: where no plugin writes the version
\* table itself, a dataset that failed validation becomes ACTIVE only because an operator
\* names it in a rollback, at whatever step of a sync the rollback comes in between.
THEOREM InvalidNeverChosen == ActivatingPlugins = {} => (Spec => InvalidOnlyByExplicitRollback)
  <1> SUFFICES ASSUME ActivatingPlugins = {} PROVE Spec => InvalidOnlyByExplicitRollback
    OBVIOUS
  <1> USE ConstantsAssumption
  <1>1. PlaceInv /\ ValidInv /\ [Next]_vars
        => [\A v \in VersionIds :
              (/\ dsv'[v].status = "ACTIVE" /\ dsv[v].status # "ACTIVE"
               /\ dsv[v].validation = "FAILED")
              => \E o \in Operators : rb[o].explicit /\ rb[o].target = v]_vars
    <2> SUFFICES ASSUME PlaceInv, ValidInv, Next, NEW v \in VersionIds,
                        dsv'[v].status = "ACTIVE", dsv[v].status # "ACTIVE",
                        dsv[v].validation = "FAILED"
                 PROVE  \E o \in Operators : rb[o].explicit /\ rb[o].target = v
      OBVIOUS
    <2>0. /\ dsv \in [VersionIds -> DatasetVersion] /\ TypeOK /\ Happens
      BY StepsAre DEF PlaceInv, TypeOK
    <2>1. ASSUME NEW w \in Workers, Advances(w) PROVE FALSE
      <3> DEFINE s == sync[w]
                 t == sync'[w]
      <3>0. /\ VersionNamed(w) /\ Placed(w) /\ Vouched(w)
        BY DEF PlaceInv, ValidInv
      <3>1. s.pc \in Versioned => /\ s.version \in VersionIds /\ Owner(w)
                                  /\ dsv[s.version].feed = s.feed /\ s.feed \in Feeds
        <4>1. s.pc \in Versioned => s.version \in VersionIds /\ Owner(w) /\ s.pc # "idle"
          BY <3>0 DEF VersionNamed, Versioned, Owner, InRun, Executing, Handling, ConstantsAssumption
        <4> QED
          BY <3>0, <4>1 DEF Placed
      <3>2. CASE Leaves(w) \/ Hops(w)
        BY <3>2 DEF Leaves, Hops
      <3>3. CASE Creates(w)
        BY <2>0, <3>3 DEF Creates
      <3>4. CASE Saves(w)
        <4>1. /\ s.version = v /\ t.copy.status = "ACTIVE" /\ s.pc \in Versioned
              /\ s.pc \in Executing
          BY <2>0, <3>4 DEF Saves, Versioned, Executing
        <4> QED
          BY <3>0, <3>1, <4>1 DEF Vouched
      <3>5. CASE Activates(w)
        <4>1. /\ SetActive(s.feed, s.version) /\ s.pc = "built"
          BY <3>5 DEF Activates
        <4>2. s.pc \in Versioned /\ s.pc \in Executing
          BY <4>1 DEF Versioned, Executing
        <4>3. s.version = v
          <5> HIDE DEF s
          <5> QED
            BY <2>0, <3>1, <4>1, <4>2, ActivatedRows
        <4> QED
          BY <3>0, <3>1, <4>2, <4>3 DEF Vouched
      <3> QED
        BY <2>1, <3>2, <3>3, <3>4, <3>5 DEF Advances
    <2>2. ASSUME NEW o \in Operators, Intrudes(o)
          PROVE  rb[o].explicit /\ rb[o].target = v
      <3>1. CASE Marks(o)
        BY <2>0, <3>1 DEF Marks
      <3>2. CASE Restores(o)
        <4> DEFINE f == rb[o].feed
                   d == rb[o].target
        <4>1. /\ f \in Feeds /\ d \in VersionIds /\ dsv[d].feed = f /\ SetActive(f, d)
              /\ rb[o].pc # "idle" /\ Eligible(o) /\ rb[o] \in RollbackFrame
          BY <3>2 DEF Restores, Aimed, PlaceInv, ValidInv, TypeOK
        <4>2. d = v
          <5> HIDE DEF f, d
          <5> QED
            BY <2>0, <4>1, ActivatedRows
        <4> QED
          BY <4>1, <4>2 DEF Eligible
      <3> QED
        BY <2>2, <3>1, <3>2 DEF Intrudes
    <2> QED
      BY <2>0, <2>1, <2>2 DEF Happens, Quiet
  <1> QED
    BY <1>1, Placement, ValidationKnown, PTL DEF Spec, InvalidOnlyByExplicitRollback

=============================================================================
