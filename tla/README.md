# Verification of the NetFusion backend

TLA+ models of the parts of NetFusion whose correctness depends on the order of
events: threads that synchronise intelligence feeds while operators roll them back,
the scheduler that starts those threads, the execution of playbooks whose records
live behind HTTP, the investigations that requests change in memory and in a file,
the collection of Sysmon events behind a bookmark, the live packet capture that
requests and playbooks share without a lock, and the circuit breaker in front of
third-party providers. TLC checks small instances; TLAPS proves the listed theorems
for every value of the constants.

## 1. Inventory

NetFusion is a cyber-investigation platform: collectors produce events, a
canonical engine normalises them, a workflow service keeps cases and evidence,
an intelligence framework ingests threat feeds, and AI services explain and
report. The Python packages below carry the logic; `src/src` is a TypeScript
server over a generated Prisma client, and `dist`, `src/src/generated`,
`prisma/migrations`, `scratch` and the `verify_*`/`smoke_test_*` scripts are
generated code or tooling.

| Component | State it keeps | Operations | What is hard | What must hold |
|---|---|---|---|---|
| Feed scheduling (`netfusion_intelligence/core/scheduler.py`, `sync_all` of `core/engine.py`, `core/dependency.py`) | per-feed locks, cancellation tokens, running flag, polling thread | `trigger_sync`, `cancel_sync`, `start`, `stop`, polling loop, `sync_all`, topological order | callers and loops race; a lock is looked at by one thread and taken by another; restarts of the loop; cancellation against acquisition | one sync per feed, prerequisites first, the lock always comes back, what was stopped ends |
| Feed lifecycle (`core/lifecycle.py`, plugins in `feeds/*/feed.py`) | the `DatasetVersion` and `ImportResult` objects of a run | thirteen steps, exception handler, plugin callbacks | saves of a stale object, failure after success, callbacks that write the repository | version, import and health agree; no unrecorded outage |
| Dataset versions (`core/version.py`) | manager lock | `create_version`, `activate_version`, `rollback` | two transactions per rollback, races with syncs | one published version, only validated data, rollback restores |
| Feed health (`core/health.py`) | health rows | three records, prerequisite check | read-modify-write, names a version it does not own | gates dependent feeds |
| Intelligence repository (`repository/sqlalchemy_repository.py`) | SQL tables | upserts, `set_active_dataset_version`, queries | each call is one transaction, sequences of calls are not | activation is atomic per feed |
| Circuit breaker (`netfusion_platform/resiliency/circuit_breaker.py`) | state, failure counter, time of the last failure | `call`, `state`, `reset` | calls run outside the lock, late outcomes | OPEN fails fast until its timeout |
| Playbook execution (`services/workflow_execution_service.py`, `api/workflow/playbook_router.py`, `api/persistence.py`) | execution contexts in the thread, records and playbooks in the repository | create, run in background, state machine, edit and delete the playbook | every report is an HTTP request that may be refused, or time out and be served later; the record hangs on a row that edits delete; restarts | a record claims nothing that was not done, and goes forward; the execution ends |
| Packet capture (`services/capture_service.py`, `PacketCaptureExecutor`) | module globals: process and files | start, stop, reset, analyse; the executor's start, sleep, stop, analyse | no lock, globals read again at every statement, swallowed exceptions | one tshark process, a stop ends it, the file belongs to the capture |
| Case management (`netfusion_workflow/`) | cases, investigations, tasks, evidence, audit | create, transition, assign, custody | multi-step updates that raise midway | allowed transitions, audit complete |
| Investigation lifecycle (`netfusion_investigation/lifecycle/`) | `Investigation` objects, the dictionary that holds them, one file each, snapshots | create, update, link, delete, snapshot, restore | two locks, taken by some operations only; objects shared with readers; writes that fail half-way; crashes while a file is open | memory and file agree, a closed investigation is not edited |
| Other platform services (`netfusion_platform/`) | configuration, registries | start-up, shut-down, backup | sequential | not planned |
| Sysmon collector (`netfusion_collectors/sysmon/`) | bookmark file, the bookmark and the events in hand of a run | configure, fetch, save the bookmark, emit, clean up | the bookmark is saved before the events are handed on; the file is emptied before it is written; runs that share it | an event is lost or handed on twice only for a known cause |
| Other collectors, canonical engine, AI, rules, reports, routers | mostly per-call | parse, normalise, assemble, render | data, not control | not planned |

How they interact: routes and the scheduler's threads call `trigger_sync`, which
runs the lifecycle under the feed's lock; the lifecycle calls the version manager
(one lock for all feeds), the plugins and the repository; operators reach the
version manager directly through `rollback_dataset`. Its durable state is in the
repository, where each call is a transaction of its own. Events are published
for audit only: no modelled component reacts to one. The playbook executors share
the capture globals with the capture routes.

`PROJECT.json` lists every component with its status, and the hazards at their
lines.

## 2. Modules

| Module | Models |
|---|---|
| `FeedSync` | `trigger_sync`, lifecycle, versions, rollback, health and the repository tables they share, composed: the hazards are in their interaction |
| `PublishedDatasets` | the abstract catalog that readers of a feed rely on |
| `MCFeedSync` | instances of `FeedSync`: dependency functions and symmetry |
| `FeedScheduler` | polling loops, the threads they start, `sync_all` and the order it computes |
| `MCFeedScheduler` | the dependency graph of its instance |
| `PlaybookExecution` | executions of a playbook, their records, and the requests that change the playbook |
| `InvestigationLifecycle` | one investigation in memory and on disk, and the requests that change it |
| `SysmonCollector` | collectors that share a bookmark file, and the event log |
| `PacketCapture` | the capture globals, the tshark processes, and the requests and executors that use them |
| `CircuitBreaker`, `MCCircuitBreaker` | the breaker with concurrent callers and a clock; symmetry |
| `FeedSyncProofs`, `FeedRecordsProofs`, `FeedSchedulerProofs`, `PlaybookExecutionProofs`, `InvestigationLifecycleProofs`, `SysmonCollectorProofs`, `PacketCaptureProofs`, `CircuitBreakerProofs` | theorems about the module they extend |

The modules meet where the code does: `FeedScheduler` ends in the `trigger_sync`
whose inside is `FeedSync`, so its `Finish` stands for all that `FeedSync` does
between the acquisition of the feed lock and its release; the packet-capture step of
a playbook is an executor in `PacketCapture` and a `CarryOut` or `StepFails` in
`PlaybookExecution`. The others share no state.

### FeedSync

Variables and the state they stand for: `dsv` (table `DatasetVersionModel`),
`imports` (the final status of the import that made a version), `health`
(`FeedHealthModel`), `feedLock` and `tokens` (`_feed_locks`,
`_cancellation_tokens`), `managerLock` (`DatasetVersionManager._lock`), `sync` (a
thread inside `trigger_sync`: where it stands, its attempt and its in-memory
`DatasetVersion`, the field `copy`), `rb` (a thread inside `rollback`), and
`clock`, from which `imported_at` and `activated_at` are drawn. `lastActivated`,
`sync[w].asked` and `rb[o].explicit` are history: they state properties and guard
no action (`asked` says that a cancellation reached a sync after it had discarded the
token of earlier ones). `used` counts calls against the bounds.

A step is one repository transaction, or one critical section of the scheduler,
with the thread-local code before it. Threads interleave between steps. The
object a sync saves is its own copy of the row, so a stale write is possible where
the code makes it possible. Decisions worth knowing:

* A call that is refused at once (prerequisite unhealthy, unknown rollback
  target) changes nothing and is a stutter.
* `activate_version` is one step guarded by the manager lock: every rollback needs
  the same lock, and no other thread writes the version being activated while its
  sync holds the feed lock, so its three repository calls cannot be told apart.
  `rollback` is three steps, because the last saves and the plugin callbacks of a
  sync do not take that lock.
* Any call of the thirteen steps may raise before it takes effect (`Raise`,
  `ActivationFails`, `HandlerRaises`, `RollbackFails`); `ActivationFails` may also
  raise after the activation was committed, in the read that follows. What was set in
  the object before the call stays set: when the save of an invalid dataset raises,
  the handler saves it with `validation` FAILED.
* Plugins whose callbacks write the repository (KEV, MITRE, CAPEC, NVD, CWE, IOC)
  are `ActivatingPlugins`; the others (EPSS, whose repository call does not exist,
  and feeds built without a repository) do nothing in them.
* `Restart` empties locks, tokens and threads and keeps the tables.
* Left out: the statuses `PARSED` and `VALIDATED`, which nothing writes; feed
  registration (static); durations, messages, logs, events; the entity tables of
  the feeds; clocks that step backwards.

### CircuitBreaker

`state`, `failure_count` and `last_failure_time` are the object's fields; `call[c]`
says whether thread `c` is executing the protected function and in which state it
was admitted; `now` is `time.time()`. `Admit`, `OnSuccess` and `OnFailure` are
separate critical sections, as in the code, so outcomes reach the breaker late.
`_success_count_half_open` is written and never read, and is left out. The clock
does not step backwards.

### PacketCapture

`process`, `captureFile` and `lastFile` are the module globals (0 is `None`),
`tshark` the processes spawned so far, with the file each writes and whether it
runs, has been asked to stop, or is gone, and `th[t]` the call thread `t` is in.
The routes are plain `def` functions, which FastAPI runs in a thread pool, and
playbooks run in background threads, so every statement that reads or writes a
global is a step of its own; an assignment from one global to another is one step.
Decisions worth knowing:

* `terminate()`, `wait()`, `kill()` and the second `wait()` each read the global
  again. A `None` among them is an `AttributeError` that the code swallows: the
  step falls through to the next, as in the code. `waits` is the object a `wait()`
  that has begun blocks on.
* A tshark that got SIGTERM may ignore it for ever, and may exit by itself at any
  time (`Exit`); SIGKILL ends it.
* Files are named after the second of the start (`now`), so two captures of one
  second share a file.
* `target` is history, in that it guards no step: the process a stop found at its
  check. `own` is the object `Popen` returned, which the code holds until `Bind`, and
  after that history.
* An executor's sleep has no lower bound: a duration of 0 is accepted from a string,
  and a negative one makes the step fail and the capture go on (`CaptureFails`).
* Refused calls ("Capture already running", "No capture running") are stutters for
  requests; for an executor the second is `CaptureFails`.
* Left out: the state that only the analysis writes, and routes that only read.

### FeedScheduler

`running` is `_running`; `loop` holds the polling threads, which `stop` does not wait
for longer than two seconds, so that after a `start` an overtaken one sees `_running`
True again; `feedLocks` is `_feed_locks`, `holder` who has acquired a `Lock`,
`frame[t]` a call of `trigger_sync`, `all[c]` a call of `sync_all` with the in-degrees
and the queue of Kahn's algorithm, and `unhealthy` the feeds that fail the check of
prerequisites. Decisions worth knowing:

* The attempts of a sync are one stage, `syncing`: what happens in it is `FeedSync`.
  Which feeds become UNHEALTHY is open: a success heals, and after a failure a feed is
  UNHEALTHY or DEGRADED, whatever it was.
* A polling round goes through the enabled feeds in any order, since the dictionary's
  order is that of registration, which is arbitrary; the same holds for the queue.
* `Jobs` bounds the threads of `_run_feed_async` alive at once: a loop that finds none
  waits for one, and each ends by itself.
* A round of the loop polls every enabled feed: the intervals of the configuration are
  read by no scheduler. Left out: events, and the exception that ends a job, which
  nobody logs.

### PlaybookExecution

`ctx[e]` is the `WorkflowExecutionContext` of an execution and where its thread is,
`record[e]` its row, `playbook` whether the playbook has a row, `late` the requests
that have timed out and are still to be served, `edit[o]` a request that changes the
playbook, `ran[e]` (history) the steps carried out. Decisions worth knowing:

* Every report to the record may succeed, be refused, or time out; `call_repository`
  gives a request up after five seconds, and the server may serve it at any later
  time. Each of these is a branch of `Post` or `Publish`.
* `Publish` stands for several updates in a row with the same status and count (each
  entry of the log sends one), some served and some late.
* The table of `StateMachine.transition` guards nothing in the code, and guards
  nothing here: an invalid transition is logged and made.
* Editing a playbook deletes its row and stores it again under the same id; the
  foreign key of the executions cascades (`prisma/schema.prisma`). A deletion, and a
  creation of the row, may be served late too (`Removal`, `Saving`).
* After a restart no thread is resumed and no record corrected (`lost`).
* What a step does is carried out or failed; variables, artifacts and logs are left
  out, for no control of the engine reads them.

### InvestigationLifecycle

One investigation: ids are unique, so investigations meet in the locks only. `heap`
are the `Investigation` objects, `repo` the one in the repository's dictionary, `file`
its JSON file, which opening empties (`Torn`), `snapshots` the state dumps, `service`
and `disk` the two locks, `pc[t]` and `local[t]` a request in a thread. `behind`
(history) says that the last change failed on its way to the file. Decisions worth
knowing:

* `update_investigation` changes the object that every reader sees, field by field,
  under the service's lock, and stores it under the repository's. `title` stands for
  the fields set before the enumerations, `status` for what comes after: a value that
  is none of its enumeration raises between them. What follows the status, the event of
  a closure among it, may raise as well, before anything is stored (`SetStatus`).
* Deleting, snapshots and restoring do not take the service's lock.
* A restored snapshot is a new object; objects nobody refers to are collected, so
  that three addresses do for two threads.
* `Restart` loads the file, or nothing if it cannot be read; snapshots are not kept.
* Left out: the other dictionaries of the package (sessions, bookmarks, artifacts,
  attachments, activities, replays), each behind one lock and read by no modelled
  step; `closed_at`; events.

### SysmonCollector

The live log is external: `log` is the number of its newest record, and records are
numbered from 1 without gaps, in the order in which the log or its file holds them. `bookmark` is `last_record_id` in the file, `Torn` while
the file is empty or cut off; `run[c]` a collector between `on_configure` and the end
of `on_cleanup`, with its `BookmarkManager`'s number and the events it has in hand;
`sent` and `dropped` what became of the records; `unreadable` the records of whose text
the parser makes no event, any of the `Suspects`. `given_up`, `queried`, `lost_saves`
and `overlaps` are history. Decisions worth knowing:

* INCREMENTAL mode with a bookmark file, reading the live log or an exported one. The
  live query asks for the newest `max_events`, newest first; from a file everything is
  parsed, in order (`Window`). Of what is parsed the first `max_events` behind the
  bookmark are taken (`Batch`).
* The parser returns nothing for a text that is no XML, and does not raise. The records
  of a file are parsed one by one, so that an unreadable one is left out and the next
  takes its place. The output of the query is one text, and so is a file that its
  library gives up on: there a bad record may leave no event at all (`Parsings`).
* Opening the file and writing it are two steps, so that another run, or a crash, can
  come between; a longer text of another run may show behind a shorter one.
* `Interrupt` stands for every exception that leaves `execute_collection` while events
  are in hand (a KeyboardInterrupt, in the middle of the save too, or one raised outside
  the handler of a single event); the host still calls `on_cleanup`.
* The objects of one event go out in one step. The mapping of an event, validation and
  the dead-letter queue decide between `sent` and `dropped`, and nothing else here.
* Left out: `last_timestamp` and `total_processed`, which nothing reads, metrics,
  progress, the modes without a bookmark; events without an `EventRecordID`, which pass
  the filter of every run and move no bookmark; a log that is cleared, and starts to
  number from 1 again, or a file whose records are not in the order of their numbers.

## 3. Runs

Liveness is checked under fairness of threads that run, and of nothing else: a thread
that the operating system has started keeps being scheduled, the calls it makes return
or raise, and nobody is forced to call. Per module:

* `FeedSync`: weak fairness of each worker and operator. Waiting for the manager lock
  is the only blocking wait, and its holder is a running thread.
* `FeedScheduler`: weak fairness of the loops, of the calls of `trigger_sync` and of
  `sync_all`; none of `start`, `stop` or a new call. No call waits for a feed lock.
* `PlaybookExecution`: weak fairness of an execution's thread, except while the tool
  of a step is at work, for which the code has no time limit of its own. Requests that
  are late need never be served.
* `InvestigationLifecycle`: weak fairness of each thread, strong fairness of `Store`,
  which waits for the repository's lock while others take and release it: a
  `threading.Lock` is handed to a waiter in time. Nothing is assumed of requests that
  have not begun.
* `SysmonCollector`: weak fairness of each collector's run; its query has a timeout,
  and nothing else waits.
* `PacketCapture`: weak fairness of threads in a call, timers included; no tshark is
  assumed to exit.

| Run | Question | Bounds, and why they are enough |
|---|---|---|
| `feed_sync` | Do syncs alone keep one published version, agree with the import and health records, and implement the catalog? | one feed, two threads, three versions, two syncs of up to two attempts, a restart: a new version over an old one, a failed retry between them, a crash at every point |
| `feed_rollback` | What survives concurrent rollbacks, and does one feed disturb another? | two feeds, one the prerequisite of the other, two threads, two versions, two syncs, one operator with two rollbacks, a restart: explicit, implicit and repeated rollbacks at every point of a sync. A second operator adds nothing: a rollback is under the manager lock from beginning to end |
| `feed_liveness` | Does every sync end, and does one that was asked to stop; does each step bring a call nearer to its end, and do the locks come back? | two threads, an operator, retry, cancellation; no symmetry, which is unsound with liveness |
| `feed_two_active` | A statement of the repository that the code breaks (section 5) | one thread, one operator, two versions |
| `scheduler` | Are the syncs of a feed kept apart, do prerequisites come first, does what is stopped end? | three feeds in a chain with a shortcut, one of them disabled; two polling loops, as two quick restarts leave them, one job and one caller of `sync_all`: a loop, a job and a caller meet on one feed |
| `playbook` | Does the record tell the truth, go forward, and does the execution end? | one execution (executions share only the playbook) of up to three steps, two editors with three changes, two late requests, a restart: a late creation and a late update, a playbook that is removed and stored again under a running execution |
| `lifecycle` | Do memory and file agree, is a closed investigation left alone, does the lock come back? | two threads, three objects, two values, one link, one snapshot, a restart: every pair of operations overlaps, and a snapshot from before a change is restored after it |
| `sysmon` | Is a record lost or handed on twice only for a known cause, and does every run end? | two collectors, three records of which one may be unreadable, two per query, three runs, one fault: a log that outgrows the query, a run that overtakes another, a fault at every point |
| `sysmon_restart` | A statement of the repository that the code breaks (section 5) | one collector, two records, a crash |
| `capture_single` | Do a start and a stop, without a lock, keep one tshark, and does a stop always end it and return? | one starting thread, one stopping, three captures, three seconds: starts at every point of a stop, captures that share a second, tsharks that die or hang |
| `capture_executor` | Does a packet-capture step report its own capture? | one executor, a stopping and a resetting thread, two captures, two seconds: what the first capture left behind meets the second |
| `breaker` | Does a tripped breaker hold, whatever outcomes are late? | three callers, threshold two, four timeouts of time: a third call is still running when the breaker trips, and outlives the trial |

Deadlock is checked in every run but `lifecycle`, where a system whose investigation is
deleted and whose bounds are used up may stop; that no request waits for ever is
`LockReturned` there. In `FeedSync`, `PlaybookExecution` and `SysmonCollector` a step of
its own (`Quiescent`, `Idle`) stands for a system in which nobody calls, so a thread
that waits for ever is reported. In `FeedScheduler` and `CircuitBreaker` a call is
always possible, so the check says nothing there; that calls end is `StopsPolling` and
`SyncAllReturns`, and no operation of the breaker waits for another thread's call. In
`PacketCapture` tsharks can nearly always exit; that a stop returns is `StopReturns`.

What the passing runs show of `FeedSync`:

* `AtMostOneActive` (without rollbacks): a feed never has two ACTIVE versions.
* `NoSilentOutage` (without rollbacks): a feed that activated a version and serves none
  has the failed import of that version on record. The handler's order, import first,
  is what makes it true across restarts.
* `OutageHasCause`: with rollbacks as well, the version activated last of a feed that
  serves none is ROLLED_BACK, FAILED or STORED (a late save), never ARCHIVED, as if
  another had replaced it.
* `CompletedImportKeepsDataset`: an import on record as COMPLETED has no FAILED
  dataset, although a failure may come after the completion.
* `HealthNamesActivated`: health never names a version that was not activated
  (auto-activated feeds).
* `LastActivatedIsServed`: with rollbacks two versions can be ACTIVE, but the one
  activated last wins in `get_active_dataset_version`.
* `InvalidOnlyByExplicitRollback`: for plugins that do not activate by themselves,
  a dataset that failed validation only becomes ACTIVE when an operator names it.
* `ImplementsCatalog`: refinement of `PublishedDatasets`, in which a replaced
  version never comes back.
* `SyncEnds` and `CancelHeeded`: every thread leaves `trigger_sync`, and one that was
  asked to stop after it had discarded the token of earlier requests starts no
  further attempt.
* `SyncsShorten`: the reason for `SyncEnds`. The steps that a call has left (`Distance`)
  become fewer with each of its own and never more by those of another thread, retries
  and failures included.
* `LocksHeld`: a feed lock is taken exactly while a sync is between its acquisition and
  its release, the manager lock exactly while a rollback runs, whatever raises.

Of `FeedScheduler`:

* `OneSyncPerFeed`: the lock that a loop looks at and a thread takes later keeps the
  syncs of a feed apart, also with two loops.
* `PrerequisitesFirst` and `OrderComplete`: `sync_all` comes to a feed after all its
  enabled prerequisites, and the sort never runs out of feeds on an acyclic graph.
* `StopsPolling`: after the last `stop` every loop and every job ends, also a loop
  that an earlier `start` has revived. `SyncAllReturns`: `sync_all` returns or raises.

Of `PlaybookExecution`:

* `NoFalseClaim`: the record counts no step that was not carried out, and is COMPLETED
  only after all of them.
* `RecordAdvances`: while it exists a record goes forward only; the one thing that takes
  it back is a request of the same execution that had timed out.
* `ExecutionEnds`: neither refused reports nor a deleted playbook stop an execution.

Of `InvestigationLifecycle`:

* `DiskMatchesMemory`: at rest, and unless the last change failed half-way, readers see
  what a restart would load, although deletions and restorations take one of the two
  locks only.
* `ClosedNotEdited`: the fields of a closed investigation change only in a request
  that reopens it; the check at the beginning of an update holds to its end.
* `LockReturned`: a request that raises gives the service's lock back.

Of `SysmonCollector`:

* `LossHasCause`: a record behind the bookmark was handed on or dropped, is in the hands
  of a run, or was lost with a run that stopped, to a live query that came
  `max_events` records too late, or to the parser, which made no event of its text. The
  watermark moves over nothing else, whatever crashes and overlaps there were: the good
  records of a text that a bad one has spoilt stay ahead of it, until a live query no
  longer reaches back to them.
* `DuplicateHasCause`: a record is handed on at most once more than bookmarks were lost
  and runs overlapped. Crashes and interruptions outside a save duplicate nothing: that
  is what the save before the emission buys.
* `RunEnds`: every run ends, though saves fail and the file is torn by others.

Of `PacketCapture`, where one thread starts and one stops captures:

* `OneTshark` and `StoppedIsGone`: the unlocked check is as good as a lock, and a
  stop that reports success has ended the capture it found. Both fail with a second
  starting or stopping thread: two starts pass the check together, and a stop that
  lags behind clears the global for the next capture, whose own stop then has
  nothing to terminate. Two clients are enough for that.
* `StopReturns`: a tshark that ignores SIGTERM is killed.

And of a step executor that is the only one to start captures:

* `ReportsOwnCapture`: when its step succeeds, the file it has analysed is that of
  the capture it started, and so is the file it names unless a reset has erased the
  name, whatever stops and resets come in between. It fails when a request may start
  a capture as well, between the clearing of the process and the promotion.

Every property of a passing run has a mutant in `PROJECT.json`: a changed operator
beside the original in the module, under which TLC finds the property violated.

## 4. Proofs

`CircuitBreakerProofs` proves for any set of callers, threshold and timeout:
`TypeCorrect`; `CountInvariant`, that the failure counter is at the threshold
exactly when the breaker is not CLOSED; `OpenUntilTimeout`, that nothing but the
timeout or a reset takes the breaker out of OPEN, whose argument needs the counter
invariant, since a late failure leaves OPEN alone only because it finds the
counter at the threshold; and `OpenFailsFast`. They assume what the module states
of its constants: a positive threshold and natural times (the constructor is given
such values at `orchestrator.py:89-90`).

`FeedSyncProofs` proves for any feeds, threads, operators, versions, prerequisites
and bounds:

* `TypeCorrect`, over an invariant that adds `VersionNamed`: a sync past the creation
  of its version, or in the part of the handler that writes it, has one. Without it
  the handler could save a row under `None`.
* `OneActiveWithoutRollback`: with no operators, a feed never has two ACTIVE
  versions. `AtMostOneActive` is not inductive, because the last save of a sync
  writes a stale object. `ServiceInv` adds, per worker, `Sound`: it holds the lock
  of its feed, owns its version, and an object it still has as ACTIVE is the last
  activation of that feed; and for the tables `RowsOwned` and `OnlyLastActive`. A
  step of a worker is `Respectful`: it leaves the frames, the locks, the versions
  and the activations of the others alone, so `Sound` of the others survives it.
* `LocksReturned`: `LocksHeld`, with any operators.
* `CallsComeToAnEnd`: `SyncsShorten`, with any operators. Every stage has a distance from
  the end of its attempt, an attempt that is left is worth more than any distance, and a
  retry uses one up. Together with `LocksReturned` it leaves little of `SyncEnds` to the
  runs: the manager lock is the only one that is waited for, its holder is a rollback
  under way, and that a thread which can go on does so is the assumption of fairness.

`FeedRecordsProofs` proves, with rollbacks at any time unless said otherwise,
`CompletedKeepsDataset`, `HealthNames` (where every feed is activated automatically),
`LastServed`, `OutageExplained`, `NoOutageSilent` (no operators),
`CancellationHeeded`, `InvalidNeverChosen` (where no plugin writes the version table)
and `CatalogImplemented` (no operators), the refinement of `PublishedDatasets`: the
initial states map to initial states, and each kind of step publishes, withdraws or
leaves alone what a feed serves. The steps of a sync are first sorted by what they do to the
tables (`Leaves`, `Creates`, `Hops`, `Saves`, `Activates`), those of a rollback into
`Marks` and `Restores`, and all that remains is `Quiet`; the invariants then build on
each other, and each has to look at these few kinds of step only:

1. `PlaceInv`: a sync holds the lock of its feed and writes a row of that feed, a
   rollback replaces a version of its feed by another of that feed, health names a
   version of its own.
2. `ImportInv`: until it completes a sync has neither a final record of its import nor
   a failed object, and the handler fails the import before the dataset.
3. `TimeInv`: when the object of a sync was activated, and that its own copy knows.
4. `LatestInv`: of the versions of a feed that are ACTIVE the one activated last is the
   youngest, which a stale save of an older object cannot change.
5. `OutageInv`, and its weaker form with rollbacks: the version a feed activated last
   is in service or shows why not.
6. `CatalogInv` (no operators): the version that a sync is about to publish is not among
   those replaced, which is why the catalog never sees one come back.
7. `DateInv`: the version a sync has in hand is the newest import of its feed, and copies
   in memory agree with the rows on the date.
8. `ValidInv`: which version may fail its validation still, or has. Such a one is never
   ARCHIVED, from where a rollback would choose it as the previous one: a rollback that
   would archive it marks it ROLLED_BACK first, since it is the newest (`DateInv`). And
   what a rollback has chosen by itself has not failed (`Eligible`).

For `FeedSync`, `ConstantsAssumption` is the only assumption: `None` is not an
identifier, and the configuration has its types.

`FeedSchedulerProofs` proves, for any graph of dependencies and any number of loops,
jobs and callers: `TypeCorrect`, so that no in-degree falls below zero;
`SyncsExclusive`; `OrderRespected`; and `SortNeverFails`, that after `detect_cycles` the
second check of the sort never fails. `Kahn` relates the three variables of the sort:
the order has no feed twice and each after its prerequisites, `indegree` counts those
not in it, and the queue has the feeds that lack none. A set of feeds that is left over
when the queue is empty would be a cycle. It assumes finitely many feeds and enough
`Lock` objects. Three theorems are the safety part of the liveness the run checks:
`SyncAllEnds`, that the steps left of a `sync_all` (`Ahead`: while it sorts, six for each
feed and two, less what is in the order) shrink with each of its own and are not raised
by anyone else; `LoopsEnd`, that a loop of a stopped scheduler has at most three steps
left; and `JobsEnd`, that a thread which a loop has started has at most four.

`PlaybookExecutionProofs` proves for any executions, editors and bounds: `TypeCorrect`,
which includes that no step is carried out beyond the last; `ClaimsAreTrue`; and
`RecordsAdvance`. The truth is in the context, so the invariant says that a context
agrees with what was carried out (`Sound`) and that every row and every late update was
at some time the context's (`Follows`): it is behind it, and finished only if it is
the context's own. Late requests are part of it because they become rows.
`ExecutionsEnd` bounds an execution whatever its requests run into: three steps for each
step of the playbook, and seven.

`InvestigationLifecycleProofs` proves for any threads, values and snapshots:
`TypeCorrect`; `DiskIsMemory`; and `ClosedStaysAsItIs`. The invariant `Relies` says what
a request may count on between its steps: that it holds the lock it thinks it holds,
that its object exists, and that while it edits the investigation is not closed or is to
be reopened by it. `DiskIsMemory` needs that at most one request writes, since the
repository's lock is held from the change of the dictionary to the end of the file.
`NoCircularWait` says who holds a lock: the service's a request under way, the
repository's one that writes. A request that waits for the repository's lock, with or
without the service's, thus waits for one that waits for nobody. `RequestsEnd` adds that
every request has at most four steps, besides waiting.

`SysmonCollectorProofs` proves for any collectors, records, runs, faults and limit:
`TypeCorrect`; `NoUnexplainedLoss`, over `HandSound`, that the events a run has in hand
are behind the bookmark it will save; and `NoUnexplainedDuplicate` by a credit argument.
For a record `r`, `sent[r]`, the number of runs that may still hand `r` on, and one more
if a run that begins alone might find a bookmark before `r` (`Exposed`), never exceed one
more than what was paid for by lost saves and overlaps. A step of a collector changes
one run, so each action has to balance the terms of that run only (`Books`).
`RunsEnd` bounds a run by six steps and one for each event in hand, of which there are
never more than `max_events` (`BatchBounded`), however long the log is.

`PacketCaptureProofs` proves for any threads, number of captures and length of time:

* `TypeCorrect`: with it, that no thread enters `wait()` without a process.
* `NoTwoTsharks` and `StopEndsCapture`, under `OneAtATime`: no two threads start,
  no two stop, no session is deleted; that is what `capture_single` instantiates, or
  an executor alone. `CaptureInv` adds per thread `Orderly`, that a start past its
  check still finds no process and a stop that has not cleared the global still
  finds its target there, and `Accounted`, that every running tshark is in the
  global or in the hands of the start that spawned it. Without the assumption
  both statements are false, as section 3 says.
* `StopNeverHangs`, under `OneAtATime`: the second `wait()`, which has no timeout, is
  entered only for a process that is gone. It is another conjunct of `Orderly`: what was
  killed stays the process in the global. With two threads that stop, or an executor
  beside them, that is false: a capture started in the meantime takes its place, and the
  stop waits for as long as that one runs.
* `CallsEnd`, for any roles: no handler has a loop, so a start, stop, reset or playbook
  capture has at most seventeen steps, whatever others do to the globals and processes.
* `OwnCaptureReported`, under `SoleCapturer`: one executor, no other thread that
  starts captures, any number of stops and resets. `Owns` follows the file from
  the spawn to the report: the globals hold the executor's file or `None`, because
  nobody else names a file and no step renames one.

They rest on `RolesAssumption`, that a thread serves one role, and
`BoundsAssumption`. `Effects` states once what each action makes of its frame.

Only model-checked are the properties that need fairness, which is outside the prover's
reach: `SyncEnds`, `StopsPolling`, `SyncAllReturns`, `ExecutionEnds`, `LockReturned`,
`RunEnds` and `StopReturns`. What they say beyond the theorems is that a thread which can
go on does: that each of its steps brings it nearer to the end, and that nobody takes it
further away, is proved for all of them (`CallsComeToAnEnd`, `LoopsEnd`,
`JobsEnd`, `SyncAllEnds`, `ExecutionsEnd`, `RequestsEnd`, `RunsEnd`, `CallsEnd`).

## 5. Disagreements between the code and its statements

Two runs show statements of the repository that the code breaks:

* `SingleActiveRow` (`feed_two_active`): the last save of a sync writes a stale row; a
  rolled-back version becomes ACTIVE beside the restored one.
* `SeamlessRestart` (`sysmon_restart`): a collector that dies after it has saved its
  bookmark takes the events it holds with it; the next run starts behind them.

`PROJECT.json` quotes the statements. Other observations made while modelling, which the
models contain or which are outside them:

* Ingestion. The failure handler calls `on_rollback` with the failed version, and six
  plugins make the version they are given the active one. A rollback without a target
  can choose a STORED version that was never active. A cancellation between the
  acquisition of the feed lock and the discarding of the token is lost. `start`
  publishes an event while it holds a lock that is not reentrant (`scheduler.py:112`): a
  subscriber that calls the scheduler back would wait for ever.
* Playbooks. An edit deletes the playbook's row and with it the records of its
  executions (`playbook_router.py:442`); if the second request of the edit fails, the
  playbook is gone.
* Investigations. `link_entities` does not look whether the investigation is closed
  (`service.py:262`), although line 137 calls closed investigations immutable.
  `closed_at` is not cleared on reopening (`service.py:158`). `list_all` of the
  repository lacks its `self` (`repository.py:58`). The package can be imported by
  Python 3.14 only (an annotation uses `Union`, which is not imported, and an f-string
  has a backslash); the same annotation is in `sysmon/runner.py:22`.
* Capture. A capture that is started while another is being stopped has its own,
  unfinished file promoted to the last completed one.
* Sysmon. A run that overlaps another takes the bookmark back when it ends, so that
  records are handed on again; a live query passes over records when more than
  `max_events` have come since the last one. A record that cannot be parsed is passed over
  for good without an error, a log line or a count (`parsers/xml_parser.py:54`).
* Case management. `create_investigation` stores the investigation before it looks for
  its case (`netfusion_workflow/service.py:150`), and `close_investigation` sets the
  verdict before a transition that may be refused.
* Threat-intelligence cache. A negative answer taken from the second level is kept in
  the first for another full lifetime, and an expired row is deleted by key after it was
  read, which can delete a fresh one that another process has written meanwhile.

## 6. Plan

1. Sessions and replays of the investigation lifecycle, if they come to share state
   with the investigation; the threat-intelligence cache with two processes.
2. Case management: cases and investigations with the transition table and the audit
   trail, against an abstract audit log.
3. The capture with several clients that stop: what a lock would have to cover for
   `OneTshark`, `StoppedIsGone` and `StopReturns` to hold.

## 7. Not modelled

See the components marked `not_modelled` in `PROJECT.json`, each with its reason:
pure data transformation and text assembly (other collectors, canonical engine, AI,
rules, reports), request conversion (routers), generated or forwarding code (the
TypeScript server), and the parts the plan leaves for later. Most of the repository's
lines are of these kinds or are `verify_*` and `smoke_test_*` scripts; the models cover
the code in which several threads, requests or processes share state.
