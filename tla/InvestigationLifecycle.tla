----------------------- MODULE InvestigationLifecycle -----------------------
(***************************************************************************)
(* The lifecycle manager of one investigation (ids are unique, so that     *)
(* investigations meet in the locks only). Requests run in threads. An     *)
(* update changes the object that the repository holds, field by field and *)
(* under the lock of the service, and then has the repository store it,    *)
(* in memory and in a file. Restoring a snapshot, taking one and deleting  *)
(* do without the lock of the service.                                     *)
(***************************************************************************)
EXTENDS Naturals, FiniteSets

CONSTANTS
    Threads,        \* threads that serve requests
    Objects,        \* addresses of Investigation objects
    Statuses,       \* InvestigationStatus
    Titles,         \* values of the fields that an update sets without a check
    Items,          \* entities that may be linked
    Nobody,         \* no thread, no object, no value
    Absent,         \* no object, no file
    Torn,           \* a file that is empty or cut off
    MaxSnapshots,   \* bound: snapshots taken
    MaxRestarts     \* bound: restarts of the process

Content == [title : Titles, status : Statuses, links : SUBSET Items]

ASSUME LifecycleAssumption ==
    /\ {MaxSnapshots, MaxRestarts} \subseteq Nat
    /\ {"OPEN", "CLOSED"} \subseteq Statuses
    /\ Nobody \notin Threads \cup Objects \cup Titles \cup Statuses
    /\ {Absent, Torn} \cap Content = {} /\ Absent # Torn

VARIABLES
    heap,       \* the Investigation objects
    repo,       \* the object in _investigations
    file,       \* <id>.json
    snapshots,  \* state dumps in the snapshot engine
    pc, local,  \* where a thread is, and its variables
    service,    \* holder of the lock of the service
    disk,       \* holder of the lock of the repository, while it writes
    behind,     \* history: the last change of the object failed to reach the file
    used        \* bounds used up

vars == <<heap, repo, file, snapshots, pc, local, service, disk, behind, used>>

-----------------------------------------------------------------------------

\* What an update asks for (Nobody: the field is not in the request).
Asked == [title : Titles \cup {Nobody}, status : Statuses \cup {Nobody}]
NoRequest == [title |-> Nobody, status |-> Nobody]

Stages == {"idle", "editing", "applying", "linking", "storing", "writing", "copying"}
Locals == [obj : Objects \cup {Nobody}, ask : Asked, copy : Content \cup {Absent}]
NoLocals == [obj |-> Nobody, ask |-> NoRequest, copy |-> Absent]

TypeOK ==
    /\ heap \in [Objects -> Content \cup {Absent}]
    /\ repo \in Objects \cup {Nobody}
    /\ file \in Content \cup {Absent, Torn}
    /\ snapshots \subseteq Content
    /\ pc \in [Threads -> Stages]
    /\ local \in [Threads -> Locals]
    /\ service \in Threads \cup {Nobody}
    /\ disk \in Threads \cup {Nobody}
    /\ behind \in BOOLEAN
    /\ used \in [snapshots : Nat, restarts : Nat, created : BOOLEAN]

Init ==
    /\ heap = [o \in Objects |-> Absent]
    /\ repo = Nobody
    /\ file = Absent
    /\ snapshots = {}
    /\ pc = [t \in Threads |-> "idle"]
    /\ local = [t \in Threads |-> NoLocals]
    /\ service = Nobody
    /\ disk = Nobody
    /\ behind = FALSE
    /\ used = [snapshots |-> 0, restarts |-> 0, created |-> FALSE]

-----------------------------------------------------------------------------

Goto(t, stage) == pc' = [pc EXCEPT ![t] = stage]
Hold(t, o, ask) == local' = [local EXCEPT ![t].obj = o, ![t].ask = ask]

\* Objects that nothing refers to are collected; which address a new one gets does
\* not matter.
Collect(h) ==
    heap' = [o \in Objects |->
               IF o = repo' \/ \E t \in Threads : local'[t].obj = o THEN h[o] ELSE Absent]
Fresh == CHOOSE o \in Objects : heap[o] = Absent
New(t, content) ==
    /\ \E o \in Objects : heap[o] = Absent
    /\ heap' = [heap EXCEPT ![Fresh] = content]
    /\ Hold(t, Fresh, NoRequest)

View == IF repo = Nobody THEN Absent ELSE heap[repo]

\* Mutant of Loaded: what was read is returned, whole or not.
LoadedAnyway(f) == f

\* load returns None for a file it cannot read.
Loaded(f) == IF f = Torn THEN Absent ELSE f

\* A request that takes the lock of the service and finds the investigation.
Enter(t, ask, stage) ==
    /\ pc[t] = "idle" /\ service = Nobody /\ disk = Nobody
    /\ repo # Nobody
    /\ service' = t
    /\ Hold(t, repo, ask)
    /\ Goto(t, stage)
    /\ UNCHANGED <<heap, repo, file, snapshots, disk, behind, used>>

\* The request ends, and gives back what locks it holds.
Leave(t) ==
    /\ pc' = [pc EXCEPT ![t] = "idle"]
    /\ local' = [local EXCEPT ![t] = NoLocals]
    /\ service' = IF service = t THEN Nobody ELSE service

-----------------------------------------------------------------------------
(* create_investigation, update_investigation and link_entities *)

Create(t, title) ==
    /\ pc[t] = "idle" /\ service = Nobody
    /\ ~ used.created
    /\ New(t, [title |-> title, status |-> "OPEN", links |-> {}])
    /\ service' = t
    /\ Goto(t, "storing")
    /\ used' = [used EXCEPT !.created = TRUE]
    /\ UNCHANGED <<repo, file, snapshots, disk, behind>>

\* Mutant of Update: status was meant to be compared with the present one.
UpdateUnless(t, ask) ==
    /\ repo # Nobody /\ (heap[repo].status = "CLOSED" => ask.status # "CLOSED")
    /\ Enter(t, ask, "editing")

\* A closed investigation is not edited, unless the request reopens it.
Update(t, ask) ==
    /\ repo # Nobody /\ (heap[repo].status = "CLOSED" => ask.status = "OPEN")
    /\ Enter(t, ask, "editing")

\* The fields before the enumerations are set. If priority, severity or status is not
\* a value of its enumeration, the update raises, and what was set stays set.
SetFields(t) ==
    LET o == local[t].obj
        title == IF local[t].ask.title = Nobody THEN heap[o].title ELSE local[t].ask.title
        set == [heap EXCEPT ![o].title = title]
    IN  /\ pc[t] = "editing"
        /\ UNCHANGED <<repo, file, snapshots, disk, used>>
        /\ \/ /\ Goto(t, "applying")
              /\ local' = [local EXCEPT ![t].ask.title = Nobody]
              /\ heap' = set
              /\ UNCHANGED <<service, behind>>
           \/ /\ Leave(t)
              /\ behind' = (behind \/ (o = repo /\ title # heap[o].title))
              /\ Collect(set)

\* The status is set, and the fields after it. If that raises, or the event that tells
\* of a closure does, the object stays as it is and is not stored.
SetStatus(t) ==
    LET o == local[t].obj
        set == [heap EXCEPT ![o].status =
                  IF local[t].ask.status = Nobody THEN @ ELSE local[t].ask.status]
    IN  /\ pc[t] = "applying"
        /\ UNCHANGED <<repo, file, snapshots, disk, used>>
        /\ \/ /\ Goto(t, "storing")
              /\ Hold(t, o, NoRequest)
              /\ heap' = set
              /\ UNCHANGED <<service, behind>>
           \/ /\ Leave(t)
              /\ behind' = (behind \/ o = repo)
              /\ Collect(set)

Link(t) == Enter(t, NoRequest, "linking")

AddLink(t, item) ==
    /\ pc[t] = "linking"
    /\ heap' = [heap EXCEPT ![local[t].obj].links = @ \cup {item}]
    /\ Goto(t, "storing")
    /\ UNCHANGED <<repo, file, snapshots, local, service, disk, behind, used>>

-----------------------------------------------------------------------------
(* InvestigationRepository and FilePersistence *)

\* The object is put into the dictionary, and its file is opened, which empties it.
Store(t) ==
    /\ pc[t] = "storing" /\ disk = Nobody
    /\ repo' = local[t].obj
    /\ file' \in {file, Torn}
    /\ disk' = t
    /\ Goto(t, "writing")
    /\ UNCHANGED <<snapshots, local, service, behind, used>>
    /\ Collect(heap)

\* Mutant of Write: the lock of the service is kept.
WriteKeepsLock(t) ==
    /\ pc[t] = "writing"
    /\ file' = heap[local[t].obj]
    /\ disk' = Nobody
    /\ behind' = FALSE
    /\ pc' = [pc EXCEPT ![t] = "idle"]
    /\ local' = [local EXCEPT ![t] = NoLocals]
    /\ UNCHANGED <<repo, snapshots, service, used>>
    /\ Collect(heap)
Write(t) ==
    /\ pc[t] = "writing"
    /\ file' = heap[local[t].obj]
    /\ disk' = Nobody
    /\ behind' = FALSE
    /\ Leave(t)
    /\ UNCHANGED <<repo, snapshots, used>>
    /\ Collect(heap)

\* open, json.dump or the file system raises; the file stays as far as it was written.
WriteFails(t) ==
    /\ pc[t] = "writing"
    /\ disk' = Nobody
    /\ behind' = TRUE
    /\ Leave(t)
    /\ UNCHANGED <<repo, file, snapshots, used>>
    /\ Collect(heap)

\* Mutant of Delete: without the lock of the repository.
DeleteUnlocked(t) ==
    /\ pc[t] = "idle" /\ repo # Nobody
    /\ repo' = Nobody
    /\ file' = Absent /\ behind' = FALSE
    /\ UNCHANGED <<snapshots, pc, local, service, disk, used>>
    /\ Collect(heap)

\* delete: an error of os.remove is passed over.
Delete(t) ==
    /\ pc[t] = "idle" /\ disk = Nobody
    /\ repo # Nobody
    /\ repo' = Nobody
    /\ \/ file' = Absent /\ behind' = FALSE
       \/ file' = file /\ behind' = TRUE
    /\ UNCHANGED <<snapshots, pc, local, service, disk, used>>
    /\ Collect(heap)

-----------------------------------------------------------------------------
(* create_snapshot and restore_snapshot *)

\* to_dict reads field by field the object that was found; the links come last.
Snapshot(t) ==
    /\ pc[t] = "idle" /\ disk = Nobody
    /\ repo # Nobody
    /\ used.snapshots < MaxSnapshots
    /\ used' = [used EXCEPT !.snapshots = @ + 1]
    /\ local' = [local EXCEPT ![t].obj = repo, ![t].copy = heap[repo]]
    /\ Goto(t, "copying")
    /\ UNCHANGED <<heap, repo, file, snapshots, service, disk, behind>>

CopyLinks(t) ==
    /\ pc[t] = "copying"
    /\ snapshots' = snapshots \cup
          {[local[t].copy EXCEPT !.links = heap[local[t].obj].links]}
    /\ Leave(t)
    /\ UNCHANGED <<repo, file, disk, behind, used>>
    /\ Collect(heap)

\* A new object, which repository.update puts in the place of the one there, or of
\* the one that was deleted.
Restore(t, state) ==
    /\ pc[t] = "idle"
    /\ state \in snapshots
    /\ New(t, state)
    /\ Goto(t, "storing")
    /\ UNCHANGED <<repo, file, snapshots, service, disk, behind, used>>

-----------------------------------------------------------------------------

\* The process dies, and the repository loads the file again if it can be read.
\* Snapshots are kept in memory only.
Restart ==
    /\ used.restarts < MaxRestarts
    /\ used' = [used EXCEPT !.restarts = @ + 1]
    /\ \E o \in Objects \ {repo} :
          /\ heap' = [p \in Objects |-> IF p = o THEN Loaded(file) ELSE Absent]
          /\ repo' = IF Loaded(file) = Absent THEN Nobody ELSE o
    /\ snapshots' = {}
    /\ pc' = [t \in Threads |-> "idle"]
    /\ local' = [t \in Threads |-> NoLocals]
    /\ service' = Nobody /\ disk' = Nobody
    /\ behind' = FALSE
    /\ UNCHANGED file

Step(t) ==
    \/ SetFields(t) \/ SetStatus(t) \/ \E item \in Items : AddLink(t, item)
    \/ Write(t) \/ WriteFails(t) \/ CopyLinks(t)

Next ==
    \/ \E t \in Threads :
          \/ \E title \in Titles : Create(t, title)
          \/ \E ask \in Asked : Update(t, ask)
          \/ Link(t) \/ Delete(t) \/ Snapshot(t)
          \/ \E state \in snapshots : Restore(t, state)
          \/ Store(t) \/ Step(t)
    \/ Restart

Spec == Init /\ [][Next]_vars

\* A thread goes on; one that waits for the repository's lock gets it in time.
FairSpec == Spec /\ \A t \in Threads : WF_vars(Step(t)) /\ SF_vars(Store(t))

-----------------------------------------------------------------------------
(* Properties *)

\* A thread that has changed its object, and not had it stored yet.
Unsaved(t) == pc[t] \in {"applying", "storing"} /\ local[t].obj = repo

\* FilePersistence: what clients read is what a restart brings back, whatever
\* updates, deletions and restorations overlapped, unless a change is under way or
\* the last one failed half-way.
DiskMatchesMemory ==
    (~ behind /\ disk = Nobody /\ \A t \in Threads : ~ Unsaved(t)) => View = Loaded(file)

\* A request that is to reopen the investigation has it.
Reopening == \E t \in Threads : local[t].obj = repo /\ local[t].ask.status = "OPEN"

\* update_investigation: between the check and the change no other request closes
\* the investigation, so that its fields change while it is closed only in a request
\* that reopens it.
ClosedNotEdited ==
    [][(repo # Nobody /\ repo' = repo /\ heap[repo].status = "CLOSED"
          /\ heap'[repo].title # heap[repo].title)
       => Reopening]_vars

\* Whatever a request runs into, it gives the lock of the service back.
LockReturned == (service # Nobody) ~> (service = Nobody)

=============================================================================
