------------------------- MODULE PlaybookExecution -------------------------
(***************************************************************************)
(* Execution of a playbook: a route creates the execution and its record,  *)
(* a background thread runs the steps and reports to the record, and other *)
(* requests edit, delete and create the playbook the record hangs on. The  *)
(* thread keeps the truth in its context; clients only see the record, in  *)
(* a repository behind HTTP whose requests may be refused, or time out and *)
(* be served later.                                                        *)
(***************************************************************************)
EXTENDS Naturals, FiniteSets

CONSTANTS
    Executions,     \* execution ids (uuid4, never reused)
    Editors,        \* requests that change the playbook
    MaxSteps,       \* bound: steps of the playbook
    MaxEdits,       \* bound: changes of the playbook
    MaxLate,        \* bound: requests served after they have timed out
    MaxRestarts     \* bound: restarts of the Python process

ASSUME BoundsAssumption == {MaxSteps, MaxEdits, MaxLate, MaxRestarts} \subseteq Nat

VARIABLES
    playbook,   \* whether the playbook's row exists
    record,     \* rows of workflowExecution, by execution
    late,       \* requests the repository server has yet to serve
    ctx,        \* the WorkflowExecutionContext of an execution, and where its thread is
    ran,        \* history: the steps of an execution that were carried out
    edit,       \* where an editor's request is
    used        \* bounds used up

vars == <<playbook, record, late, ctx, ran, edit, used>>

-----------------------------------------------------------------------------

Statuses == {"QUEUED", "RUNNING", "COMPLETED", "FAILED"}
Snapshot == [status : Statuses \cup {"ABSENT"}, completed : 0..MaxSteps]
NoRecord == [status |-> "ABSENT", completed |-> 0]
Queued == [status |-> "QUEUED", completed |-> 0]

Exists(row) == row # NoRecord
Finished(row) == row.status \in {"COMPLETED", "FAILED"}

\* A thread is in one of these stages from the request to its end; "lost" is an
\* execution whose thread a restart has taken.
Starting == {"creating", "created", "accepted", "begun"}
Running == {"ready", "stepping", "stepped", "failing", "finishing"}
Stages == {"none", "rejected", "ended", "lost"} \cup Starting \cup Running
Context == [pc : Stages, total : 0..MaxSteps, status : Statuses, completed : 0..MaxSteps]
NoContext == [pc |-> "none", total |-> 0, status |-> "QUEUED", completed |-> 0]

\* The part of a context that update_execution_record sends.
Told(c) == [status |-> c.status, completed |-> c.completed]

EditStages == {"idle", "editing", "deleting", "saving"}
Request == [kind : {"create", "update"}, exec : Executions, row : Snapshot]
Removal == [kind |-> "delete"]
Saving == [kind |-> "save"]

TypeOK ==
    /\ playbook \in BOOLEAN
    /\ record \in [Executions -> Snapshot]
    /\ late \subseteq Request \cup {Removal, Saving}
    /\ ctx \in [Executions -> Context]
    /\ ran \in [Executions -> 0..MaxSteps]
    /\ edit \in [Editors -> EditStages]
    /\ used \in [edits : Nat, late : Nat, restarts : Nat]

Init ==
    /\ playbook = TRUE
    /\ record = [e \in Executions |-> NoRecord]
    /\ late = {}
    /\ ctx = [e \in Executions |-> NoContext]
    /\ ran = [e \in Executions |-> 0]
    /\ edit = [o \in Editors |-> "idle"]
    /\ used = [edits |-> 0, late |-> 0, restarts |-> 0]

-----------------------------------------------------------------------------
(* The repository: a request is served, refused, or times out and is served    *)
(* later; the caller is told of a failure in the last two cases.               *)

\* The rows after a request is served: an update needs the row, a creation the
\* playbook and no row, and a deletion of the playbook cascades.
Updated(e, row) == IF Exists(record[e]) THEN [record EXCEPT ![e] = row] ELSE record
Created(e) ==
    IF playbook /\ ~ Exists(record[e]) THEN [record EXCEPT ![e] = Queued] ELSE record
Cascaded == [e \in Executions |-> NoRecord]

TimesOut(request) ==
    /\ used.late < MaxLate
    /\ late' = late \cup {request}
    /\ used' = [used EXCEPT !.late = @ + 1]

OnTime == UNCHANGED <<late, used>>

\* update_execution_record called once, and called several times in a row with the
\* same status and count (each entry of the log is a call): nothing is reported to
\* the caller, and some of the calls may be served while others are late.
Post(e, row) ==
    \/ record' \in {record, Updated(e, row)} /\ OnTime
    \/ TimesOut([kind |-> "update", exec |-> e, row |-> row]) /\ UNCHANGED record

Publish(e, row) ==
    /\ record' \in {record, Updated(e, row)}
    /\ OnTime \/ TimesOut([kind |-> "update", exec |-> e, row |-> row])

ServeLate(request) ==
    /\ request \in late
    /\ late' = late \ {request}
    /\ CASE request.kind = "update" ->
              record' = Updated(request.exec, request.row) /\ UNCHANGED playbook
         [] request.kind = "create" -> record' = Created(request.exec) /\ UNCHANGED playbook
         [] request.kind = "save" -> playbook' = TRUE /\ UNCHANGED record
         [] OTHER -> record' = Cascaded /\ playbook' = FALSE
    /\ UNCHANGED <<ctx, ran, edit, used>>

-----------------------------------------------------------------------------
(* execute_playbook and create_execution *)

At(e, pc) == ctx[e].pc = pc
Goto(e, pc) == ctx' = [ctx EXCEPT ![e].pc = pc]
Same == UNCHANGED <<playbook, ran, edit>>

\* The playbook is looked up, and its steps with it. A caller that finds none is
\* told so and leaves no trace.
Execute(e, n) ==
    /\ At(e, "none")
    /\ playbook
    /\ ctx' = [ctx EXCEPT ![e].pc = "creating", ![e].total = n]
    /\ UNCHANGED <<record, late, used>> /\ Same

CreateRecord(e) ==
    /\ At(e, "creating")
    /\ playbook
    /\ record' = Created(e)
    /\ Goto(e, "created")
    /\ OnTime /\ Same

\* The creation raises: there will be no background task, whatever the server
\* makes of the request.
CreateRaises(e) ==
    /\ At(e, "creating")
    /\ OnTime \/ TimesOut([kind |-> "create", exec |-> e, row |-> Queued])
    /\ Goto(e, "rejected")
    /\ UNCHANGED record /\ Same

LogQueued(e) ==
    /\ At(e, "created")
    /\ Post(e, Told(ctx[e]))
    /\ Goto(e, "accepted")
    /\ Same

-----------------------------------------------------------------------------
(* run_execution_background *)

\* The store is a dict without entries, so the record is always created again. It
\* fails where the row still exists; an exception is passed over.
Begin(e) ==
    /\ At(e, "accepted")
    /\ \/ record' \in {record, Created(e)} /\ OnTime
       \/ TimesOut([kind |-> "create", exec |-> e, row |-> Queued]) /\ UNCHANGED record
    /\ Goto(e, "begun")
    /\ Same

\* StateMachine.transition: the context first, then the log and the record.
Transition(e, to, pc) ==
    /\ ctx' = [ctx EXCEPT ![e].status = to, ![e].pc = pc]
    /\ Publish(e, [status |-> to, completed |-> ctx[e].completed])

Run(e) ==
    /\ At(e, "begun")
    /\ Transition(e, "RUNNING", "ready")
    /\ Same

\* run_step: the current step is set and logged, the executor resolved.
StartStep(e) ==
    /\ At(e, "ready")
    /\ ctx[e].completed < ctx[e].total
    /\ Publish(e, Told(ctx[e]))
    /\ Goto(e, "stepping")
    /\ Same

\* Mutant of CarryOut: a tool that is slow to answer is started again.
CarryOutAgain(e) ==
    /\ At(e, "stepping")
    /\ ran' = [ran EXCEPT ![e] = @ + 1]
    /\ Publish(e, Told(ctx[e]))
    /\ UNCHANGED <<playbook, ctx, edit>>

\* The executor carries the step out, telling of what it does as it goes.
CarryOut(e) ==
    /\ At(e, "stepping")
    /\ ran' = [ran EXCEPT ![e] = @ + 1]
    /\ Publish(e, Told(ctx[e]))
    /\ Goto(e, "stepped")
    /\ UNCHANGED <<playbook, edit>>

CountStep(e) ==
    /\ At(e, "stepped")
    /\ ctx' = [ctx EXCEPT ![e].completed = @ + 1, ![e].pc = "ready"]
    /\ Publish(e, Told(ctx'[e]))
    /\ Same

\* The executor fails, there is none, or run_step raises.
StepFails(e) ==
    /\ At(e, "stepping")
    /\ Post(e, Told(ctx[e]))
    /\ Goto(e, "failing")
    /\ Same

\* Mutants of Fail: a failed execution is run again; a failed step is retried.
FailRunAgain(e) ==
    /\ At(e, "failing")
    /\ Transition(e, "FAILED", "begun")
    /\ Same
FailRetried(e) ==
    /\ At(e, "failing")
    /\ Transition(e, "RUNNING", "ready")
    /\ Same

Fail(e) ==
    /\ At(e, "failing")
    /\ Transition(e, "FAILED", "ended")
    /\ Same

\* Mutant of LastStep: the loop stops one step early.
LastStepEarly(e) ==
    /\ At(e, "ready")
    /\ ctx[e].completed + 1 >= ctx[e].total
    /\ Post(e, Told(ctx[e]))
    /\ Goto(e, "finishing")
    /\ Same

\* Nothing is left to do: the current step is cleared.
LastStep(e) ==
    /\ At(e, "ready")
    /\ ctx[e].completed = ctx[e].total
    /\ Post(e, Told(ctx[e]))
    /\ Goto(e, "finishing")
    /\ Same

Complete(e) ==
    /\ At(e, "finishing")
    /\ Transition(e, "COMPLETED", "ended")
    /\ Same

-----------------------------------------------------------------------------
(* playbook_router: an update and the changes of steps delete the row, then    *)
(* store it again under its id; exceptions of the deletion are passed over     *)

MayEdit(o) ==
    /\ edit[o] = "idle"
    /\ used.edits < MaxEdits
    /\ used' = [used EXCEPT !.edits = @ + 1]
    /\ UNCHANGED <<playbook, record, late, ctx, ran>>

Edit(o) == playbook /\ edit' = [edit EXCEPT ![o] = "editing"] /\ MayEdit(o)
Delete(o) == playbook /\ edit' = [edit EXCEPT ![o] = "deleting"] /\ MayEdit(o)
CreatePlaybook(o) == ~ playbook /\ edit' = [edit EXCEPT ![o] = "saving"] /\ MayEdit(o)

\* del _PLAYBOOK_STORE[id], of an edit and of a deletion
Remove(o) ==
    /\ edit[o] \in {"editing", "deleting"}
    /\ \/ playbook' = FALSE /\ record' = Cascaded /\ OnTime
       \/ UNCHANGED <<playbook, record>> /\ (OnTime \/ TimesOut(Removal))
    /\ edit' = [edit EXCEPT ![o] = IF @ = "editing" THEN "saving" ELSE "idle"]
    /\ UNCHANGED <<ctx, ran>>

\* _PLAYBOOK_STORE[id] = updated: created, or updated in place; or it raises, and
\* the playbook stays as the deletion has left it. A creation is tried twice, and either
\* may be served late.
Save(o) ==
    /\ edit[o] = "saving"
    /\ playbook' \in {playbook, TRUE}
    /\ OnTime \/ TimesOut(Saving)
    /\ edit' = [edit EXCEPT ![o] = "idle"]
    /\ UNCHANGED <<record, ctx, ran>>

-----------------------------------------------------------------------------

\* The Python process restarts: no thread is resumed and no record corrected.
Restart ==
    /\ used.restarts < MaxRestarts
    /\ used' = [used EXCEPT !.restarts = @ + 1]
    /\ ctx' = [e \in Executions |->
                 IF ctx[e].pc \in Starting \cup Running THEN [ctx[e] EXCEPT !.pc = "lost"]
                                                        ELSE ctx[e]]
    /\ edit' = [o \in Editors |-> "idle"]
    /\ UNCHANGED <<playbook, record, late, ran>>

Step(e) ==
    \/ CreateRecord(e) \/ CreateRaises(e) \/ LogQueued(e) \/ Begin(e) \/ Run(e)
    \/ StartStep(e) \/ CarryOut(e) \/ CountStep(e) \/ StepFails(e) \/ Fail(e)
    \/ LastStep(e) \/ Complete(e)

Idle ==
    /\ \A e \in Executions : ctx[e].pc \notin Starting \cup Running
    /\ \A o \in Editors : edit[o] = "idle"
    /\ UNCHANGED vars

Next ==
    \/ \E e \in Executions, n \in 0..MaxSteps : Execute(e, n)
    \/ \E e \in Executions : Step(e)
    \/ \E request \in late : ServeLate(request)
    \/ \E o \in Editors : Edit(o) \/ Delete(o) \/ CreatePlaybook(o) \/ Remove(o) \/ Save(o)
    \/ Restart
    \/ Idle

Spec == Init /\ [][Next]_vars

\* A thread that runs keeps running, but for the tool of a step: nothing bounds the
\* time an executor takes.
FairSpec == Spec /\ \A e \in Executions : WF_vars(~ At(e, "stepping") /\ Step(e))

-----------------------------------------------------------------------------
(* Properties *)

\* A record never claims more than was done: no step that was not carried out is
\* counted, and an execution shown as COMPLETED has carried out every step, whatever
\* requests were refused, late or repeated, and across deletions and restarts.
NoFalseClaim ==
    \A e \in Executions :
        /\ record[e].completed <= ran[e]
        /\ record[e].status = "COMPLETED" => ran[e] = ctx[e].total

Rank(row) == IF Finished(row) THEN 2 ELSE IF row.status = "RUNNING" THEN 1 ELSE 0

\* StateMachine's table ("COMPLETED": [], "FAILED": []). While it exists a record
\* moves forward only, in status and in count, and a finished one stays as it is.
\* What can take it back is a request of the same execution that had timed out.
RecordAdvances ==
    [][\A e \in Executions :
          \/ ~ Exists(record[e]) \/ ~ Exists(record'[e]) \/ record'[e] = record[e]
          \/ /\ Rank(record[e]) <= Rank(record'[e])
             /\ record[e].completed <= record'[e].completed
             /\ ~ Finished(record[e])
          \/ \E request \in late \ late' : request.kind = "update" /\ request.exec = e]_vars

\* An execution that was requested ends, is lost in a restart or waits for the tool
\* of a step for good: no loss of its record, of its playbook or of a report stops it.
ExecutionEnds ==
    \A e \in Executions : At(e, "creating") ~>
        (ctx[e].pc \in {"rejected", "ended", "lost"} \/ []At(e, "stepping"))

=============================================================================
