-------------------------- MODULE SysmonCollector --------------------------
(***************************************************************************)
(* Incremental collection of Sysmon events. A run of a collector reads the *)
(* bookmark, fetches the records behind it, saves the bookmark, hands the  *)
(* events on one by one, and saves the bookmark again on its way out. Runs *)
(* crash, are interrupted and fail; several may share one bookmark file.   *)
(* The records of the log are numbered from 1 in the order in which it or  *)
(* its file holds them, so that the log is its length and a bookmark is an *)
(* index into it.                                                          *)
(***************************************************************************)
EXTENDS Integers, FiniteSets

CONSTANTS
    Collectors,     \* collector instances configured with the same bookmark_path
    Limit,          \* max_events
    Suspects,       \* bound: records whose text may be unreadable
    MaxRecords,     \* bound: records ever written to the log
    MaxRuns,        \* bound: runs started
    MaxFaults       \* bound: crashes, interruptions and failures

ASSUME SysmonAssumption ==
    /\ IsFiniteSet(Collectors)
    /\ {MaxRecords, MaxRuns, MaxFaults} \subseteq Nat
    /\ Limit \in Nat \ {0}
    /\ Suspects \subseteq 1..MaxRecords

\* The content of a bookmark file that is empty or cut off.
Torn == -1

Records == 1..MaxRecords

VARIABLES
    source,     \* "LOG": the live event log; "FILE": an exported one (evtx_file_path)
    unreadable, \* records of whose text the parser makes no event
    log,        \* EventRecordID of the newest record
    bookmark,   \* last_record_id in the bookmark file, 0 also if there is none
    run,        \* per collector: where it stands, last_record_id, events in hand
    sent,       \* how often the objects of a record were published
    dropped,    \* records whose event was filtered out, not mapped, or sent to the DLQ
    given_up,   \* history: events that a run had in hand when it stopped
    queried,    \* history: the length of the log at the last query of the live log
    lost_saves, \* history: saves of the bookmark that failed or were cut off
    overlaps,   \* history: runs that began while another one was going on
    used        \* bounds used up

vars == <<source, unreadable, log, bookmark, run, sent, dropped, given_up, queried,
          lost_saves, overlaps, used>>

-----------------------------------------------------------------------------

\* "saving" and "leaving" are before open() of the two saves, "writing" and
\* "closing" between open() and the end of the write.
Stages == {"idle", "fetching", "saving", "writing", "emitting", "leaving", "closing"}
RunStates == [at : Stages, last : 0..MaxRecords, todo : SUBSET Records]
NoRun == [at |-> "idle", last |-> 0, todo |-> {}]

TypeOK ==
    /\ source \in {"LOG", "FILE"} /\ unreadable \subseteq Records
    /\ log \in 0..MaxRecords
    /\ bookmark \in 0..MaxRecords \cup {Torn}
    /\ run \in [Collectors -> RunStates]
    /\ sent \in [Records -> Nat]
    /\ dropped \subseteq Records /\ given_up \subseteq Records
    /\ queried \in 0..MaxRecords
    /\ lost_saves \in Nat /\ overlaps \in Nat
    /\ used \in [runs : Nat, faults : Nat]

Init ==
    /\ source \in {"LOG", "FILE"} /\ unreadable \in SUBSET Suspects
    /\ log = 0 /\ bookmark = 0
    /\ run = [c \in Collectors |-> NoRun]
    /\ sent = [r \in Records |-> 0]
    /\ dropped = {} /\ given_up = {}
    /\ queried = 0 /\ lost_saves = 0 /\ overlaps = 0
    /\ used = [runs |-> 0, faults |-> 0]

-----------------------------------------------------------------------------

At(c, stage) == run[c].at = stage
Goto(c, stage) == run' = [run EXCEPT ![c].at = stage]

Fault ==
    /\ used.faults < MaxFaults
    /\ used' = [used EXCEPT !.faults = @ + 1]

\* Mutant of Loaded: the number is used as it was read.
LoadedAnyway == bookmark

\* BookmarkManager.load: a file that cannot be parsed counts as none.
Loaded == IF bookmark = Torn THEN 0 ELSE bookmark

\* The records whose text reaches the parser: the Limit newest of the log, all of a file.
Window == IF source = "LOG" THEN {r \in 1..log : r > log - Limit} ELSE 1..log

\* XmlSysmonParser: a text that is no XML, or an Event without children, gives no event
\* and no error. The texts of a file are parsed one by one. The output of the query is
\* one text, and a file that its library cannot read is another: there, one bad record
\* may take all the others with it.
Parsings == {Window \ unreadable} \cup (IF Window \cap unreadable = {} THEN {} ELSE {{}})

\* The live query returns the newest record first.
Precedes(e, r) == IF source = "LOG" THEN e > r ELSE e < r
Prefix(events, r) == {e \in events : ~ Precedes(r, e)}

\* Of the events parsed, the first Limit behind the bookmark are taken.
Batch(last, parsed) ==
    LET new == {r \in parsed : r > last}
    IN  {r \in new : Cardinality(Prefix(new, r)) <= Limit}

\* BookmarkManager.update, once per event.
IsWatermark(w, last, events) ==
    w \in {last} \cup events /\ \A r \in {last} \cup events : r <= w

-----------------------------------------------------------------------------

\* Sysmon, outside the program: a record is appended.
Append ==
    /\ log < MaxRecords
    /\ log' = log + 1
    /\ UNCHANGED <<source, unreadable, bookmark, run, sent, dropped, given_up, queried,
                   lost_saves, overlaps, used>>

Configure(c) ==
    /\ At(c, "idle")
    /\ used.runs < MaxRuns
    /\ used' = [used EXCEPT !.runs = @ + 1]
    /\ run' = [run EXCEPT ![c] = [at |-> "fetching", last |-> Loaded, todo |-> {}]]
    /\ overlaps' = IF \E d \in Collectors : ~ At(d, "idle") THEN overlaps + 1 ELSE overlaps
    /\ UNCHANGED <<source, unreadable, log, bookmark, sent, dropped, given_up, queried,
                   lost_saves>>

Queried == queried' = IF source = "LOG" THEN log ELSE queried

\* Mutant of Fetch: the bookmark moves over all that is there, taken or not.
FetchMarksAll(c) ==
    /\ At(c, "fetching")
    /\ \E parsed \in Parsings : \E w \in 0..MaxRecords :
          /\ IsWatermark(w, run[c].last, 1..log)
          /\ run' = [run EXCEPT ![c] = [at |-> "saving", last |-> w,
                                        todo |-> Batch(run[c].last, parsed)]]
    /\ Queried
    /\ UNCHANGED <<source, unreadable, log, bookmark, sent, dropped, given_up,
                   lost_saves, overlaps, used>>

\* Mutant of Fetch: the bookmark is saved in on_cleanup only.
FetchUnsaved(c) ==
    /\ At(c, "fetching")
    /\ \E parsed \in Parsings : \E w \in 0..MaxRecords :
          /\ IsWatermark(w, run[c].last, Batch(run[c].last, parsed))
          /\ run' = [run EXCEPT ![c] = [at |-> "emitting", last |-> w,
                                        todo |-> Batch(run[c].last, parsed)]]
    /\ Queried
    /\ UNCHANGED <<source, unreadable, log, bookmark, sent, dropped, given_up,
                   lost_saves, overlaps, used>>
Fetch(c) ==
    /\ At(c, "fetching")
    /\ \E parsed \in Parsings : \E w \in 0..MaxRecords :
          /\ IsWatermark(w, run[c].last, Batch(run[c].last, parsed))
          /\ run' = [run EXCEPT ![c] = [at |-> "saving", last |-> w,
                                        todo |-> Batch(run[c].last, parsed)]]
    /\ Queried
    /\ UNCHANGED <<source, unreadable, log, bookmark, sent, dropped, given_up,
                   lost_saves, overlaps, used>>

\* The query or its parser raises, and execute_collection with it.
FetchFails(c) ==
    /\ At(c, "fetching")
    /\ Fault
    /\ Goto(c, "leaving")
    /\ UNCHANGED <<source, unreadable, log, bookmark, sent, dropped, given_up, queried,
                   lost_saves, overlaps>>

\* A record without a usable number makes the filter raise. The events before it have
\* moved the watermark and are returned to nobody.
FetchBreaks(c) ==
    /\ At(c, "fetching")
    /\ Fault
    /\ \E parsed \in Parsings :
         LET events == Batch(run[c].last, parsed)
         IN  \E r \in events : \E w \in 0..MaxRecords :
                /\ IsWatermark(w, run[c].last, Prefix(events, r))
                /\ run' = [run EXCEPT ![c] = [at |-> "leaving", last |-> w, todo |-> {}]]
                /\ given_up' = given_up \cup {e \in events : e <= w}
    /\ Queried
    /\ UNCHANGED <<source, unreadable, log, bookmark, sent, dropped, lost_saves,
                   overlaps>>

-----------------------------------------------------------------------------
(* BookmarkManager.save, in the runner and again in on_cleanup *)

BeforeSave == {"saving", "leaving"}
InSave == {"writing", "closing"}
Opened(stage) == IF stage = "saving" THEN "writing" ELSE "closing"

\* What follows the save that a collector is in.
AfterSave(c) ==
    run' = [run EXCEPT ![c] = IF @.at \in {"saving", "writing"}
                              THEN [@ EXCEPT !.at = "emitting"] ELSE NoRun]

\* open(path, "w") empties the file.
SaveOpens(c) ==
    /\ run[c].at \in BeforeSave
    /\ bookmark' = Torn
    /\ Goto(c, Opened(run[c].at))
    /\ UNCHANGED <<source, unreadable, log, sent, dropped, given_up, queried,
                   lost_saves, overlaps, used>>

\* makedirs or open raises; save returns False, which nobody looks at.
SaveRefused(c) ==
    /\ run[c].at \in BeforeSave
    /\ Fault
    /\ AfterSave(c)
    /\ lost_saves' = lost_saves + 1
    /\ UNCHANGED <<source, unreadable, log, bookmark, sent, dropped, given_up, queried,
                   overlaps>>

\* If another run has written the file meanwhile, the end of a longer text may stay
\* behind this one.
SaveWrites(c) ==
    /\ run[c].at \in InSave
    /\ \/ bookmark' = run[c].last /\ UNCHANGED lost_saves
       \/ /\ bookmark # Torn
          /\ bookmark' = Torn /\ lost_saves' = lost_saves + 1
    /\ AfterSave(c)
    /\ UNCHANGED <<source, unreadable, log, sent, dropped, given_up, queried, overlaps,
                   used>>

\* The write raises.
SaveBreaks(c) ==
    /\ run[c].at \in InSave
    /\ Fault
    /\ bookmark' \in {bookmark, Torn}
    /\ AfterSave(c)
    /\ lost_saves' = lost_saves + 1
    /\ UNCHANGED <<source, unreadable, log, sent, dropped, given_up, queried, overlaps>>

-----------------------------------------------------------------------------

\* The next event is mapped, and its objects are validated and published.
Emit(c) ==
    /\ At(c, "emitting")
    /\ \E r \in run[c].todo :
          /\ \A e \in run[c].todo : ~ Precedes(e, r)
          /\ run' = [run EXCEPT ![c].todo = @ \ {r}]
          /\ \/ sent' = [sent EXCEPT ![r] = @ + 1] /\ UNCHANGED dropped
             \/ dropped' = dropped \cup {r} /\ UNCHANGED sent
    /\ UNCHANGED <<source, unreadable, log, bookmark, given_up, queried, lost_saves,
                   overlaps, used>>

\* Mutant of Complete: a run whose bookmark is not the one in the file saves it again.
CompleteIfKept(c) ==
    /\ At(c, "emitting") /\ run[c].todo = {}
    /\ Goto(c, IF bookmark = run[c].last THEN "leaving" ELSE "saving")
    /\ UNCHANGED <<source, unreadable, log, bookmark, sent, dropped, given_up, queried,
                   lost_saves, overlaps, used>>
Complete(c) ==
    /\ At(c, "emitting") /\ run[c].todo = {}
    /\ Goto(c, "leaving")
    /\ UNCHANGED <<source, unreadable, log, bookmark, sent, dropped, given_up, queried,
                   lost_saves, overlaps, used>>

\* A KeyboardInterrupt or SystemExit passes the handlers; the host still cleans up. In
\* the middle of a save it cuts the bookmark off.
Interrupt(c) ==
    /\ run[c].at \in {"saving", "writing", "emitting"}
    /\ Fault
    /\ run' = [run EXCEPT ![c].at = "leaving", ![c].todo = {}]
    /\ given_up' = given_up \cup run[c].todo
    /\ IF At(c, "writing")
       THEN bookmark' \in {bookmark, Torn} /\ lost_saves' = lost_saves + 1
       ELSE UNCHANGED <<bookmark, lost_saves>>
    /\ UNCHANGED <<source, unreadable, log, sent, dropped, queried, overlaps>>

\* The process dies; the next run reads the bookmark file as it was left.
Crash(c) ==
    /\ ~ At(c, "idle")
    /\ Fault
    /\ run' = [run EXCEPT ![c] = NoRun]
    /\ given_up' = given_up \cup run[c].todo
    /\ lost_saves' = IF run[c].at \in InSave THEN lost_saves + 1 ELSE lost_saves
    /\ UNCHANGED <<source, unreadable, log, bookmark, sent, dropped, queried, overlaps>>

-----------------------------------------------------------------------------

Step(c) ==
    \/ Fetch(c) \/ SaveOpens(c) \/ SaveWrites(c) \/ Emit(c) \/ Complete(c)

Fail(c) ==
    \/ FetchFails(c) \/ FetchBreaks(c) \/ SaveRefused(c) \/ SaveBreaks(c)
    \/ Interrupt(c) \/ Crash(c)

\* Between runs a collector may stay idle for ever.
Quiescent ==
    /\ \A c \in Collectors : At(c, "idle")
    /\ UNCHANGED vars

Next ==
    \/ Append
    \/ \E c \in Collectors : Configure(c) \/ Step(c) \/ Fail(c)
    \/ Quiescent

Spec == Init /\ [][Next]_vars

\* A run that has begun goes on: the query has a timeout, and nothing else waits.
FairSpec == Spec /\ \A c \in Collectors : WF_vars(Step(c))

-----------------------------------------------------------------------------
(* Properties *)

InHand == UNION {run[c].todo : c \in Collectors}

\* What became of a record: it was handed on, or dropped by the mapping; or a run that
\* stopped had it; or its text gives no event; or the live query that passed it over came
\* Limit records too late.
Explained(r) ==
    \/ sent[r] > 0 \/ r \in dropped
    \/ r \in InHand \/ r \in given_up
    \/ r \in unreadable
    \/ source = "LOG" /\ r + Limit <= queried

\* The bookmark never moves over a record for no reason: whatever crashes, torn files
\* and overlapping runs there were, a record that later runs will skip was handed on or
\* dropped, is in the hands of a run, or was lost in one of three ways: a run stopped with
\* it, the live query came too late for it, or the parser silently passed over its text.
\* The good records of a text that a bad one has spoilt stay ahead of the bookmark, until
\* a live query no longer reaches back to them.
LossHasCause == \A r \in 1..Loaded : Explained(r)

\* A record is handed on twice only if a bookmark was lost or runs overlapped, and no
\* more often than that: crashes, interruptions outside a save and unreadable texts
\* duplicate nothing. (Events without an EventRecordID pass the filter of every run.)
DuplicateHasCause == \A r \in Records : sent[r] <= 1 + lost_saves + overlaps

\* Every run that was begun ends, and gives its bookmark file back.
RunEnds == \A c \in Collectors : ~ At(c, "idle") ~> At(c, "idle")

-----------------------------------------------------------------------------
(* A statement of the repository that the code does not keep *)

\* sysmon/README.md: "Stateful bookmarking ensures seamless incremental collection
\* across system restarts." A run that dies with events in hand leaves them to the next.
SeamlessRestart ==
    [][\A c \in Collectors : run'[c].at = "idle" => \A r \in run[c].todo : r > Loaded']_vars

=============================================================================
