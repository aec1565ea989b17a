---------------------- MODULE PlaybookExecutionProofs ----------------------
(***************************************************************************)
(* The record of an execution follows its context, for every number of     *)
(* executions, editors, steps, late requests and restarts.                 *)
(***************************************************************************)
EXTENDS PlaybookExecution, TLAPS

-----------------------------------------------------------------------------
(* The inductive invariant *)

\* A context c and the number r of steps really carried out agree, at every stage.
Sound(c, r) ==
  /\ c.completed <= r /\ r <= c.total
  /\ c.pc \in {"none", "rejected"} \cup Starting => c.status = "QUEUED" /\ r = 0
  /\ c.pc \in Running => c.status = "RUNNING"
  /\ c.pc \in Running \ {"stepped"} => r = c.completed
  /\ c.pc = "stepping" => c.completed < c.total
  /\ c.pc = "stepped" => r = c.completed + 1
  /\ c.pc = "finishing" => c.completed = c.total
  /\ c.status = "COMPLETED" => c.completed = c.total
  /\ c.pc \in {"none", "rejected", "lost"} => c.status \in {"QUEUED", "RUNNING"}

\* A row that was sent is behind the context c; a finished row is c's own.
Follows(c, row) ==
  /\ row.status # "ABSENT"
  /\ row.completed <= c.completed
  /\ Rank(row) <= Rank(Told(c))
  /\ Finished(row) => row = Told(c)

RecordsFollow == \A e \in Executions : Exists(record[e]) => Follows(ctx[e], record[e])
LateFollows == \A m \in late : m.kind = "update" => Follows(ctx[m.exec], m.row)

Inv ==
  /\ TypeOK
  /\ \A e \in Executions : Sound(ctx[e], ran[e])
  /\ RecordsFollow
  /\ LateFollows

-----------------------------------------------------------------------------
(* What the steps do to the context *)

LEMMA Moved ==
  ASSUME TypeOK, NEW e \in Executions, NEW pc \in Stages, Goto(e, pc)
  PROVE  /\ ctx' \in [Executions -> Context]
         /\ ctx'[e] = [ctx[e] EXCEPT !.pc = pc]
         /\ \A d \in Executions \ {e} : ctx'[d] = ctx[d]
  <1> DEFINE c == [ctx[e] EXCEPT !.pc = pc]
  <1>1. c \in Context
    BY DEF TypeOK, Context
  <1>2. ctx' = [ctx EXCEPT ![e] = c]
    BY DEF Goto
  <1> HIDE DEF c
  <1>3. ctx' \in [Executions -> Context] /\ ctx'[e] = c /\ \A d \in Executions \ {e} : ctx'[d] = ctx[d]
    BY <1>1, <1>2 DEF TypeOK
  <1> QED
    BY <1>3 DEF c

LEMMA Transitioned ==
  ASSUME TypeOK, NEW e \in Executions, NEW pc \in Stages, NEW to \in Statuses,
         ctx' = [ctx EXCEPT ![e].status = to, ![e].pc = pc]
  PROVE  /\ ctx' \in [Executions -> Context]
         /\ ctx'[e] = [ctx[e] EXCEPT !.status = to, !.pc = pc]
         /\ \A d \in Executions \ {e} : ctx'[d] = ctx[d]
  <1> DEFINE c == [ctx[e] EXCEPT !.status = to, !.pc = pc]
  <1>1. c \in Context
    BY DEF TypeOK, Context
  <1>2. ctx' = [ctx EXCEPT ![e] = c]
    BY DEF TypeOK
  <1> HIDE DEF c
  <1>3. ctx' \in [Executions -> Context] /\ ctx'[e] = c /\ \A d \in Executions \ {e} : ctx'[d] = ctx[d]
    BY <1>1, <1>2 DEF TypeOK
  <1> QED
    BY <1>3 DEF c

LEMMA Counted ==
  ASSUME TypeOK, BoundsAssumption, NEW e \in Executions, ctx[e].completed < MaxSteps,
         ctx' = [ctx EXCEPT ![e].completed = @ + 1, ![e].pc = "ready"]
  PROVE  /\ ctx' \in [Executions -> Context]
         /\ ctx'[e] = [ctx[e] EXCEPT !.completed = @ + 1, !.pc = "ready"]
         /\ \A d \in Executions \ {e} : ctx'[d] = ctx[d]
  <1> DEFINE c == [ctx[e] EXCEPT !.completed = @ + 1, !.pc = "ready"]
  <1>0. ctx[e] \in Context /\ ctx[e].completed \in 0..MaxSteps
    BY DEF TypeOK, Context
  <1>a. ctx[e].completed + 1 \in 0..MaxSteps /\ "ready" \in Stages
    BY <1>0, BoundsAssumption DEF Stages, Running
  <1>1. c \in Context
    BY <1>0, <1>a DEF Context
  <1>2. ctx' = [ctx EXCEPT ![e] = c]
    BY DEF TypeOK
  <1> HIDE DEF c
  <1>3. ctx' \in [Executions -> Context] /\ ctx'[e] = c /\ \A d \in Executions \ {e} : ctx'[d] = ctx[d]
    BY <1>1, <1>2 DEF TypeOK
  <1> QED
    BY <1>3 DEF c

-----------------------------------------------------------------------------
(* What the steps do to the repository *)

RepositoryTyped ==
  /\ record' \in [Executions -> Snapshot]
  /\ late' \subseteq Request \cup {Removal, Saving}
  /\ used' \in [edits : Nat, late : Nat, restarts : Nat]

\* At most the row of e changes, and to the given one; what is late is of that row.
Reports(e, row) ==
  /\ RepositoryTyped
  /\ \A d \in Executions \ {e} : record'[d] = record[d]
  /\ record'[e] = record[e] \/ (Exists(record[e]) /\ record'[e] = row)
  /\ \A m \in late' : m \in late \/ (m.kind = "update" /\ m.exec = e /\ m.row = row)

\* At most a row of e appears, and a creation becomes late.
Creates(e) ==
  /\ RepositoryTyped
  /\ \A d \in Executions \ {e} : record'[d] = record[d]
  /\ record'[e] = record[e] \/ (~ Exists(record[e]) /\ record'[e] = Queued)
  /\ \A m \in late' : m \in late \/ m.kind = "create"

LEMMA OnTimeTyped ==
  ASSUME TypeOK, OnTime
  PROVE  late' = late /\ used' = used /\ late' \subseteq Request \cup {Removal, Saving}
         /\ used' \in [edits : Nat, late : Nat, restarts : Nat]
  BY DEF TypeOK, OnTime

LEMMA TimesOutTyped ==
  ASSUME TypeOK, NEW m \in Request \cup {Removal, Saving}, TimesOut(m)
  PROVE  late' = late \cup {m} /\ late' \subseteq Request \cup {Removal, Saving}
         /\ used' \in [edits : Nat, late : Nat, restarts : Nat]
  BY DEF TypeOK, TimesOut

LEMMA UpdatedTyped ==
  ASSUME TypeOK, NEW e \in Executions, NEW row \in Snapshot, record' \in {record, Updated(e, row)}
  PROVE  /\ record' \in [Executions -> Snapshot]
         /\ \A d \in Executions \ {e} : record'[d] = record[d]
         /\ record'[e] = record[e] \/ (Exists(record[e]) /\ record'[e] = row)
  BY DEF TypeOK, Updated

LEMMA CreatedTyped ==
  ASSUME TypeOK, BoundsAssumption, NEW e \in Executions, record' \in {record, Created(e)}
  PROVE  /\ record' \in [Executions -> Snapshot]
         /\ \A d \in Executions \ {e} : record'[d] = record[d]
         /\ record'[e] = record[e] \/ (~ Exists(record[e]) /\ record'[e] = Queued)
  <1>1. Queued \in Snapshot
    BY BoundsAssumption DEF Queued, Snapshot, Statuses
  <1> QED
    BY <1>1 DEF TypeOK, Created

LEMMA UpdateRequest ==
  ASSUME NEW e \in Executions, NEW row \in Snapshot, NEW k \in {"create", "update"}
  PROVE  LET m == [kind |-> k, exec |-> e, row |-> row]
         IN  m \in Request /\ m.kind = k /\ m.exec = e /\ m.row = row
  BY DEF Request

LEMMA PublishReports ==
  ASSUME TypeOK, NEW e \in Executions, NEW row \in Snapshot, Publish(e, row) \/ Post(e, row)
  PROVE  Reports(e, row)
  <1> DEFINE m == [kind |-> "update", exec |-> e, row |-> row]
  <1>1. m \in Request /\ m.kind = "update" /\ m.exec = e /\ m.row = row
    BY UpdateRequest
  <1>2. record' \in {record, Updated(e, row)} /\ (OnTime \/ TimesOut(m))
    BY DEF Publish, Post
  <1> HIDE DEF m
  <1>3. /\ late' \subseteq Request \cup {Removal, Saving}
        /\ used' \in [edits : Nat, late : Nat, restarts : Nat]
        /\ late' = late \/ late' = late \cup {m}
    BY <1>1, <1>2, OnTimeTyped, TimesOutTyped
  <1> QED
    BY <1>1, <1>2, <1>3, UpdatedTyped DEF Reports, RepositoryTyped

LEMMA CreationCreates ==
  ASSUME TypeOK, BoundsAssumption, NEW e \in Executions,
         record' \in {record, Created(e)},
         OnTime \/ TimesOut([kind |-> "create", exec |-> e, row |-> Queued])
  PROVE  Creates(e)
  <1> DEFINE m == [kind |-> "create", exec |-> e, row |-> Queued]
  <1>0. Queued \in Snapshot
    BY BoundsAssumption DEF Queued, Snapshot, Statuses
  <1>1. m \in Request /\ m.kind = "create"
    BY <1>0, UpdateRequest
  <1>2. OnTime \/ TimesOut(m)
    OBVIOUS
  <1> HIDE DEF m
  <1>3. /\ late' \subseteq Request \cup {Removal, Saving}
        /\ used' \in [edits : Nat, late : Nat, restarts : Nat]
        /\ late' = late \/ late' = late \cup {m}
    BY <1>1, <1>2, OnTimeTyped, TimesOutTyped
  <1> QED
    BY <1>1, <1>3, CreatedTyped DEF Creates, RepositoryTyped

-----------------------------------------------------------------------------
(* What a step of the thread does, as a whole *)

\* The context of e is not finished before, and only moves forward.
Grows(e) ==
  /\ ctx' \in [Executions -> Context]
  /\ \A d \in Executions \ {e} : ctx'[d] = ctx[d]
  /\ ~ Finished(Told(ctx[e]))
  /\ ctx[e].completed <= ctx'[e].completed
  /\ Rank(Told(ctx[e])) <= Rank(Told(ctx'[e]))

Counts(e) ==
  /\ ran' \in [Executions -> 0..MaxSteps]
  /\ \A d \in Executions \ {e} : ran'[d] = ran[d]
  /\ ran[e] <= ran'[e]
  /\ Sound(ctx'[e], ran'[e])

Tells(e) ==
  \/ Reports(e, Told(ctx'[e]))
  \/ Creates(e)
  \/ RepositoryTyped /\ record' = record /\ late' = late

Advances(e) == Grows(e) /\ Counts(e) /\ Tells(e)

LEMMA ToldTyped ==
  ASSUME NEW c \in Context
  PROVE  /\ Told(c) \in Snapshot
         /\ Told(c).status = c.status /\ Told(c).completed = c.completed
  BY DEF Told, Context, Snapshot

\* A move of the thread that keeps status and count, and the steps carried out.
LEMMA Moves ==
  ASSUME Inv, BoundsAssumption, NEW e \in Executions, NEW pc \in Stages, Goto(e, pc), ran' = ran,
         ctx[e].status \in {"QUEUED", "RUNNING"},
         Sound([ctx[e] EXCEPT !.pc = pc], ran[e])
  PROVE  Grows(e) /\ Counts(e) /\ Told(ctx'[e]) = Told(ctx[e])
  <1>1. /\ ctx' \in [Executions -> Context]
        /\ ctx'[e] = [ctx[e] EXCEPT !.pc = pc]
        /\ \A d \in Executions \ {e} : ctx'[d] = ctx[d]
    BY Moved DEF Inv
  <1>2. ctx[e] \in Context /\ ran \in [Executions -> 0..MaxSteps] /\ ran[e] \in Nat
    BY BoundsAssumption DEF Inv, TypeOK
  <1>3. Told(ctx'[e]) = Told(ctx[e]) /\ ctx'[e].completed = ctx[e].completed
    BY <1>1, <1>2 DEF Told, Context
  <1>4. ~ Finished(Told(ctx[e]))
    BY <1>2, ToldTyped DEF Finished
  <1>5. Grows(e)
    BY <1>1, <1>2, <1>3, <1>4 DEF Grows, Rank, Context
  <1>6. Counts(e)
    BY <1>1, <1>2 DEF Counts
  <1> QED
    BY <1>3, <1>5, <1>6

LEMMA CreationAdvances ==
  ASSUME Inv, BoundsAssumption, NEW e \in Executions,
         CreateRecord(e) \/ CreateRaises(e) \/ LogQueued(e) \/ Begin(e)
  PROVE  Advances(e) /\ UNCHANGED <<playbook, edit>>
  <1>0. TypeOK /\ ctx[e] \in Context /\ Sound(ctx[e], ran[e]) /\ UNCHANGED <<playbook, edit, ran>>
    BY DEF Inv, TypeOK, CreateRecord, CreateRaises, LogQueued, Begin, Same
  <1>1. CASE LogQueued(e)
    <2>1. Goto(e, "accepted") /\ "accepted" \in Stages /\ ctx[e].status \in {"QUEUED", "RUNNING"}
          /\ Sound([ctx[e] EXCEPT !.pc = "accepted"], ran[e])
      BY <1>0, <1>1 DEF LogQueued, At, Sound, Starting, Running, Stages, Context
    <2>2. Grows(e) /\ Counts(e) /\ Told(ctx'[e]) = Told(ctx[e])
      BY <1>0, <2>1, Moves
    <2>3. Reports(e, Told(ctx[e]))
      BY <1>0, <1>1, ToldTyped, PublishReports DEF LogQueued
    <2> QED
      BY <1>0, <2>2, <2>3 DEF Advances, Tells
  <1>2. CASE CreateRecord(e) \/ CreateRaises(e) \/ Begin(e)
    <2>1. PICK pc \in {"created", "rejected", "begun"} : Goto(e, pc)
      BY <1>2 DEF CreateRecord, CreateRaises, Begin
    <2>2. pc \in Stages /\ ctx[e].status \in {"QUEUED", "RUNNING"}
          /\ Sound([ctx[e] EXCEPT !.pc = pc], ran[e])
      BY <1>0, <1>2, <2>1
      DEF CreateRecord, CreateRaises, Begin, At, Sound, Starting, Running, Stages, Context
    <2>3. Grows(e) /\ Counts(e)
      BY <1>0, <2>1, <2>2, Moves
    <2>4. /\ record' \in {record, Created(e)}
          /\ OnTime \/ TimesOut([kind |-> "create", exec |-> e, row |-> Queued])
      BY <1>2 DEF CreateRecord, CreateRaises, Begin
    <2>5. Creates(e)
      BY <1>0, <2>4, CreationCreates
    <2> QED
      BY <1>0, <2>3, <2>5 DEF Advances, Tells
  <1> QED
    BY <1>1, <1>2

LEMMA TransitionAdvances ==
  ASSUME Inv, BoundsAssumption, NEW e \in Executions, Run(e) \/ Fail(e) \/ Complete(e)
  PROVE  Advances(e) /\ UNCHANGED <<playbook, edit>>
  <1>0. TypeOK /\ ctx[e] \in Context /\ Sound(ctx[e], ran[e]) /\ UNCHANGED <<playbook, edit, ran>>
        /\ ran \in [Executions -> 0..MaxSteps] /\ ran[e] \in Nat
    BY BoundsAssumption DEF Inv, TypeOK, Run, Fail, Complete, Same
  <1>1. PICK to \in Statuses, pc \in Stages :
          /\ Transition(e, to, pc)
          /\ \/ to = "RUNNING" /\ pc = "ready" /\ At(e, "begun")
             \/ to = "FAILED" /\ pc = "ended" /\ At(e, "failing")
             \/ to = "COMPLETED" /\ pc = "ended" /\ At(e, "finishing")
    BY DEF Run, Fail, Complete, Statuses, Stages, Running
  <1> DEFINE c == [ctx[e] EXCEPT !.status = to, !.pc = pc]
  <1>2. ctx' \in [Executions -> Context] /\ ctx'[e] = c /\ \A d \in Executions \ {e} : ctx'[d] = ctx[d]
    BY <1>0, <1>1, Transitioned DEF Transition
  <1>3. c.status = to /\ c.pc = pc /\ c.completed = ctx[e].completed /\ c.total = ctx[e].total
    BY <1>0 DEF Context
  <1>4. Told(c) \in Snapshot /\ Told(c) = [status |-> to, completed |-> ctx[e].completed]
    BY <1>2, <1>3, ToldTyped DEF Told
  <1> HIDE DEF c
  <1>5. Reports(e, Told(c))
    BY <1>0, <1>1, <1>4, PublishReports DEF Transition
  <1>6. ctx[e].status \in {"QUEUED", "RUNNING"} /\ (to = "RUNNING" => ctx[e].status = "QUEUED")
    BY <1>0, <1>1 DEF Sound, At, Starting, Running
  <1>7. Grows(e)
    <2>1. ~ Finished(Told(ctx[e])) /\ Rank(Told(ctx[e])) <= Rank(Told(c))
      BY <1>0, <1>1, <1>2, <1>3, <1>6, ToldTyped DEF Finished, Rank
    <2>2. ctx[e].completed <= c.completed
      BY <1>0, <1>3, BoundsAssumption DEF Context
    <2> QED
      BY <1>2, <2>1, <2>2 DEF Grows
  <1>8. Sound(c, ran[e])
    BY <1>0, <1>1, <1>3 DEF Sound, At, Starting, Running, Context
  <1> QED
    BY <1>0, <1>2, <1>5, <1>7, <1>8 DEF Advances, Tells, Counts

LEMMA StepAdvances ==
  ASSUME Inv, BoundsAssumption, NEW e \in Executions,
         StartStep(e) \/ StepFails(e) \/ LastStep(e) \/ CarryOut(e)
  PROVE  Advances(e) /\ UNCHANGED <<playbook, edit>>
  <1>0. TypeOK /\ ctx[e] \in Context /\ Sound(ctx[e], ran[e]) /\ UNCHANGED <<playbook, edit>>
        /\ ran \in [Executions -> 0..MaxSteps] /\ ran[e] \in 0..MaxSteps
    BY DEF Inv, TypeOK, StartStep, StepFails, LastStep, CarryOut, Same
  <1>1. Reports(e, Told(ctx[e]))
    BY <1>0, ToldTyped, PublishReports DEF StartStep, StepFails, LastStep, CarryOut
  <1>2. ctx[e].status \in {"QUEUED", "RUNNING"}
    BY <1>0 DEF StartStep, StepFails, LastStep, CarryOut, Sound, At, Running
  <1>3. CASE StartStep(e) \/ StepFails(e) \/ LastStep(e)
    <2>1. PICK pc \in {"stepping", "failing", "finishing"} : Goto(e, pc)
      BY <1>3 DEF StartStep, StepFails, LastStep
    <2>a. /\ ctx[e].pc \in {"ready", "stepping"} /\ ran' = ran
          /\ pc = "stepping" => ctx[e].completed < ctx[e].total
          /\ pc = "finishing" => ctx[e].completed = ctx[e].total
      <3>1. Goto(e, "stepping") => pc = "stepping"
        BY <1>0, <2>1 DEF Goto, TypeOK, Context
      <3>2. Goto(e, "finishing") => pc = "finishing"
        BY <1>0, <2>1 DEF Goto, TypeOK, Context
      <3>3. Goto(e, "failing") => pc = "failing"
        BY <1>0, <2>1 DEF Goto, TypeOK, Context
      <3> QED
        BY <1>3, <3>1, <3>2, <3>3 DEF StartStep, StepFails, LastStep, Same, At
    <2>2. pc \in Stages /\ ran' = ran /\ Sound([ctx[e] EXCEPT !.pc = pc], ran[e])
      BY <1>0, <2>1, <2>a DEF Sound, Starting, Running, Stages, Context
    <2>3. Grows(e) /\ Counts(e) /\ Told(ctx'[e]) = Told(ctx[e])
      BY <1>2, <2>1, <2>2, Moves
    <2> QED
      BY <1>0, <1>1, <2>3 DEF Advances, Tells
  <1>4. CASE CarryOut(e)
    <2> DEFINE c == [ctx[e] EXCEPT !.pc = "stepped"]
    <2>1. ctx' \in [Executions -> Context] /\ ctx'[e] = c /\ \A d \in Executions \ {e} : ctx'[d] = ctx[d]
      BY <1>0, <1>4, Moved DEF CarryOut, Stages, Running
    <2>2. c.status = ctx[e].status /\ c.pc = "stepped" /\ c.completed = ctx[e].completed
          /\ c.total = ctx[e].total
      BY <1>0 DEF Context
    <2> HIDE DEF c
    <2>3. Told(c) = Told(ctx[e])
      BY <2>2 DEF Told
    <2>4. At(e, "stepping") /\ ran' = [ran EXCEPT ![e] = @ + 1]
      BY <1>4 DEF CarryOut
    <2>5. ran[e] + 1 \in 0..MaxSteps /\ ran[e] = ctx[e].completed /\ ran[e] < ctx[e].total
      BY <1>0, <2>4, BoundsAssumption DEF Sound, At, Running, Context
    <2>6. /\ ran' \in [Executions -> 0..MaxSteps] /\ ran'[e] = ran[e] + 1
          /\ \A d \in Executions \ {e} : ran'[d] = ran[d]
      BY <1>0, <2>4, <2>5
    <2>7. Sound(c, ran[e] + 1)
      BY <1>0, <1>2, <2>2, <2>4, <2>5, BoundsAssumption DEF Sound, At, Starting, Running, Context
    <2>8. Counts(e)
      BY <1>0, <2>1, <2>6, <2>7 DEF Counts
    <2>9. Grows(e)
      <3>1. ~ Finished(Told(ctx[e])) /\ Rank(Told(ctx[e])) \in Nat
        BY <1>0, <1>2, ToldTyped DEF Finished, Rank
      <3>2. ctx[e].completed \in Nat
        BY <1>0, BoundsAssumption DEF Context
      <3> QED
        BY <2>1, <2>2, <2>3, <3>1, <3>2 DEF Grows
    <2> QED
      BY <1>0, <1>1, <2>1, <2>3, <2>8, <2>9 DEF Advances, Tells
  <1> QED
    BY <1>3, <1>4

LEMMA CountAdvances ==
  ASSUME Inv, BoundsAssumption, NEW e \in Executions, CountStep(e)
  PROVE  Advances(e) /\ UNCHANGED <<playbook, edit>>
  <1>0. TypeOK /\ ctx[e] \in Context /\ Sound(ctx[e], ran[e]) /\ UNCHANGED <<playbook, edit, ran>>
        /\ ran \in [Executions -> 0..MaxSteps] /\ ran[e] \in 0..MaxSteps
    BY DEF Inv, TypeOK, CountStep, Same
  <1> DEFINE c == [ctx[e] EXCEPT !.completed = @ + 1, !.pc = "ready"]
  <1>1. /\ ctx[e].status = "RUNNING" /\ ran[e] = ctx[e].completed + 1
        /\ ctx[e].completed + 1 <= ctx[e].total /\ ctx[e].completed \in Nat
        /\ ctx[e].completed < MaxSteps
    BY <1>0, BoundsAssumption DEF CountStep, Sound, At, Running, Context
  <1>2. ctx' \in [Executions -> Context] /\ ctx'[e] = c /\ \A d \in Executions \ {e} : ctx'[d] = ctx[d]
    BY <1>0, <1>1, Counted DEF CountStep
  <1>3. c.status = "RUNNING" /\ c.pc = "ready" /\ c.completed = ctx[e].completed + 1
        /\ c.total = ctx[e].total
    BY <1>0, <1>1 DEF Context
  <1> HIDE DEF c
  <1>4. Reports(e, Told(c))
    BY <1>0, <1>2, ToldTyped, PublishReports DEF CountStep
  <1>5. Sound(c, ran[e])
    BY <1>0, <1>1, <1>3 DEF Sound, Starting, Running
  <1>6. ~ Finished(Told(ctx[e])) /\ Rank(Told(ctx[e])) <= Rank(Told(c))
    BY <1>0, <1>1, <1>2, <1>3, ToldTyped DEF Finished, Rank
  <1>7. Grows(e)
    BY <1>1, <1>2, <1>3, <1>6 DEF Grows
  <1> QED
    BY <1>0, <1>2, <1>4, <1>5, <1>7 DEF Advances, Tells, Counts

LEMMA ThreadAdvances ==
  ASSUME Inv, BoundsAssumption, NEW e \in Executions, Step(e)
  PROVE  Advances(e) /\ UNCHANGED <<playbook, edit>>
  BY CreationAdvances, TransitionAdvances, StepAdvances, CountAdvances DEF Step

-----------------------------------------------------------------------------
(* The invariant is inductive *)

\* A row stays behind a context that moves forward.
LEMMA StaysBehind ==
  ASSUME Inv, BoundsAssumption, NEW e \in Executions, Grows(e),
         NEW d \in Executions, NEW row \in Snapshot, Follows(ctx[d], row)
  PROVE  Follows(ctx'[d], row)
  <1>1. CASE d # e
    BY <1>1 DEF Grows
  <1>2. CASE d = e
    <2>1. ~ Finished(row)
      BY <1>2 DEF Follows, Grows
    <2>2. ctx[e] \in Context /\ ctx'[e] \in Context
      BY DEF Grows, Inv, TypeOK
    <2>3. row.completed <= ctx'[e].completed
      BY <1>2, <2>2, BoundsAssumption DEF Follows, Grows, Context, Snapshot
    <2>4. Rank(row) <= Rank(Told(ctx'[e]))
      BY <1>2 DEF Follows, Grows, Rank
    <2> QED
      BY <1>2, <2>1, <2>3, <2>4 DEF Follows
  <1> QED
    BY <1>1, <1>2

LEMMA FollowsItself ==
  ASSUME BoundsAssumption, NEW c \in Context
  PROVE  Follows(c, Told(c)) /\ Follows(c, Queued)
  <1>1. c.completed \in Nat /\ c.status # "ABSENT" /\ Told(c).status = c.status
        /\ Told(c).completed = c.completed
    BY BoundsAssumption, ToldTyped DEF Context, Statuses
  <1>2. Queued.status = "QUEUED" /\ Queued.completed = 0 /\ Rank(Queued) = 0 /\ ~ Finished(Queued)
    BY DEF Queued, Rank, Finished
  <1>3. Rank(Told(c)) \in Nat
    BY DEF Rank
  <1> QED
    BY <1>1, <1>2, <1>3 DEF Follows

LEMMA RecordsFollowOn ==
  ASSUME Inv, BoundsAssumption, NEW e \in Executions, Advances(e)
  PROVE  RecordsFollow'
  <1>0. ctx' \in [Executions -> Context] /\ record \in [Executions -> Snapshot]
    BY DEF Advances, Grows, Inv, TypeOK
  <1> SUFFICES ASSUME NEW d \in Executions, Exists(record'[d])
               PROVE  Follows(ctx'[d], record'[d])
    BY DEF RecordsFollow
  <1>1. CASE record'[d] = record[d]
    <2>1. Follows(ctx[d], record[d])
      BY <1>1 DEF Inv, RecordsFollow
    <2> QED
      BY <1>0, <1>1, <2>1, StaysBehind DEF Advances
  <1>2. CASE record'[d] # record[d]
    <2>1. d = e /\ record'[d] \in {Told(ctx'[e]), Queued}
      BY <1>2 DEF Advances, Tells, Reports, Creates
    <2> QED
      BY <1>0, <2>1, FollowsItself
  <1> QED
    BY <1>1, <1>2

LEMMA LateFollowsOn ==
  ASSUME Inv, BoundsAssumption, NEW e \in Executions, Advances(e)
  PROVE  LateFollows'
  <1>0. ctx' \in [Executions -> Context] /\ late' \subseteq Request \cup {Removal, Saving}
    BY DEF Advances, Grows, Tells, Reports, Creates, RepositoryTyped
  <1> SUFFICES ASSUME NEW m \in late', m.kind = "update"
               PROVE  Follows(ctx'[m.exec], m.row)
    BY DEF LateFollows
  <1>1. m.exec \in Executions /\ m.row \in Snapshot
    BY <1>0 DEF Request, Removal, Saving
  <1>2. CASE m \in late
    <2>1. Follows(ctx[m.exec], m.row)
      BY <1>2 DEF Inv, LateFollows
    <2> QED
      BY <1>1, <2>1, StaysBehind DEF Advances
  <1>3. CASE m \notin late
    <2>1. m.exec = e /\ m.row = Told(ctx'[e])
      BY <1>3 DEF Advances, Tells, Reports, Creates
    <2> QED
      BY <1>0, <2>1, FollowsItself
  <1> QED
    BY <1>2, <1>3

LEMMA ThreadKeepsInv ==
  ASSUME Inv, BoundsAssumption, NEW e \in Executions, Step(e)
  PROVE  Inv'
  <1>1. Advances(e) /\ UNCHANGED <<playbook, edit>>
    BY ThreadAdvances
  <1>2. TypeOK'
    BY <1>1 DEF Advances, Grows, Counts, Tells, Reports, Creates, RepositoryTyped, Inv, TypeOK
  <1>3. \A d \in Executions : Sound(ctx'[d], ran'[d])
    BY <1>1 DEF Advances, Grows, Counts, Inv
  <1>4. RecordsFollow' /\ LateFollows'
    BY <1>1, RecordsFollowOn, LateFollowsOn
  <1> QED
    BY <1>2, <1>3, <1>4 DEF Inv

LEMMA ExecuteKeepsInv ==
  ASSUME Inv, BoundsAssumption, NEW e \in Executions, NEW n \in 0..MaxSteps, Execute(e, n)
  PROVE  Inv'
  <1>0. /\ ctx \in [Executions -> Context] /\ ctx[e] \in Context
        /\ UNCHANGED <<playbook, record, late, ran, edit, used>> /\ ctx[e].pc = "none"
        /\ Sound(ctx[e], ran[e])
    BY DEF Execute, Same, At, Inv, TypeOK
  <1> DEFINE c == [ctx[e] EXCEPT !.pc = "creating", !.total = n]
  <1>1. /\ c \in Context /\ Told(c) = Told(ctx[e]) /\ c.completed = ctx[e].completed
        /\ c.pc = "creating" /\ c.status = ctx[e].status /\ c.total = n
    BY <1>0 DEF Context, Told, Stages, Starting
  <1>2. ctx' = [ctx EXCEPT ![e] = c]
    BY <1>0 DEF Execute
  <1> HIDE DEF c
  <1>3. ctx' \in [Executions -> Context] /\ ctx'[e] = c /\ \A d \in Executions \ {e} : ctx'[d] = ctx[d]
    BY <1>0, <1>1, <1>2
  <1>4. Sound(c, ran[e])
    BY <1>0, <1>1, BoundsAssumption DEF Sound, Starting, Running, Context
  <1>5. \A d \in Executions, row \in Snapshot : Follows(ctx[d], row) => Follows(ctx'[d], row)
    BY <1>1, <1>3 DEF Follows
  <1>6. RecordsFollow'
    BY <1>0, <1>5 DEF Inv, TypeOK, RecordsFollow
  <1>7. LateFollows'
    BY <1>0, <1>5 DEF Inv, TypeOK, LateFollows, Request, Removal, Saving
  <1> QED
    BY <1>0, <1>3, <1>4, <1>6, <1>7 DEF Inv, TypeOK

\* Steps outside the threads: each row that exists afterwards was there before, or is
\* a creation's, or comes from a request that was late.
LEMMA OthersKeepInv ==
  ASSUME Inv, BoundsAssumption, TypeOK', UNCHANGED <<ctx, ran>>,
         \A m \in late' : m \in late \/ m \in {Removal, Saving},
         \A e \in Executions : \/ record'[e] \in {record[e], Queued, NoRecord}
                               \/ \E m \in late : /\ m.kind = "update" /\ m.exec = e
                                                  /\ record'[e] = m.row
  PROVE  Inv'
  <1>1. RecordsFollow'
    <2> SUFFICES ASSUME NEW e \in Executions, Exists(record'[e])
                 PROVE  Follows(ctx[e], record'[e])
      BY DEF RecordsFollow
    <2>1. CASE record'[e] = record[e]
      BY <2>1 DEF Inv, RecordsFollow
    <2>2. CASE record'[e] = Queued
      BY <2>2, FollowsItself DEF Inv, TypeOK
    <2>3. CASE \E m \in late : m.kind = "update" /\ m.exec = e /\ record'[e] = m.row
      BY <2>3 DEF Inv, LateFollows
    <2> QED
      BY <2>1, <2>2, <2>3 DEF Exists
  <1>2. LateFollows'
    BY DEF Inv, LateFollows, Removal, Saving
  <1> QED
    BY <1>1, <1>2 DEF Inv

LEMMA CascadedTyped ==
  ASSUME BoundsAssumption
  PROVE  Cascaded \in [Executions -> Snapshot] /\ \A e \in Executions : Cascaded[e] = NoRecord
  <1>1. NoRecord \in Snapshot
    BY BoundsAssumption DEF NoRecord, Snapshot
  <1> QED
    BY <1>1 DEF Cascaded

LEMMA LateKeepsInv ==
  ASSUME Inv, BoundsAssumption, NEW m \in late, ServeLate(m)
  PROVE  Inv'
  <1>0. TypeOK /\ UNCHANGED <<ctx, ran, edit, used>> /\ late' = late \ {m} /\ m \in Request \cup {Removal, Saving}
    BY DEF Inv, TypeOK, ServeLate
  <1>1. CASE m.kind = "update"
    <2>1. m.exec \in Executions /\ m.row \in Snapshot
      BY <1>0, <1>1 DEF Request, Removal, Saving
    <2>2. record' = Updated(m.exec, m.row) /\ playbook' = playbook
      BY <1>1 DEF ServeLate
    <2>3. /\ record' \in [Executions -> Snapshot]
          /\ \A d \in Executions \ {m.exec} : record'[d] = record[d]
          /\ record'[m.exec] \in {record[m.exec], m.row}
      BY <1>0, <2>1, <2>2, UpdatedTyped
    <2>4. TypeOK'
      BY <1>0, <2>2, <2>3 DEF TypeOK
    <2> QED
      BY <1>0, <1>1, <2>3, <2>4, OthersKeepInv
  <1>2. CASE m.kind = "create"
    <2>1. m.exec \in Executions
      BY <1>0, <1>2 DEF Request, Removal, Saving
    <2>2. record' = Created(m.exec) /\ playbook' = playbook
      BY <1>2 DEF ServeLate
    <2>3. /\ record' \in [Executions -> Snapshot]
          /\ \A d \in Executions : record'[d] \in {record[d], Queued}
      BY <1>0, <2>1, <2>2, CreatedTyped
    <2>4. TypeOK'
      BY <1>0, <2>2, <2>3 DEF TypeOK
    <2> QED
      BY <1>0, <2>3, <2>4, OthersKeepInv
  <1>3. CASE m.kind = "save"
    <2>1. record' = record /\ playbook' = TRUE
      BY <1>3 DEF ServeLate
    <2>2. TypeOK'
      BY <1>0, <2>1 DEF TypeOK
    <2> QED
      BY <1>0, <2>1, <2>2, OthersKeepInv
  <1>4. CASE m.kind \notin {"update", "create", "save"}
    <2>1. record' = Cascaded /\ playbook' = FALSE
      BY <1>4 DEF ServeLate
    <2>2. TypeOK' /\ \A e \in Executions : record'[e] = NoRecord
      BY <1>0, <2>1, BoundsAssumption, CascadedTyped DEF TypeOK
    <2> QED
      BY <1>0, <2>2, OthersKeepInv
  <1> QED
    BY <1>1, <1>2, <1>3, <1>4

LEMMA EditorKeepsInv ==
  ASSUME Inv, BoundsAssumption, NEW o \in Editors,
         Edit(o) \/ Delete(o) \/ CreatePlaybook(o) \/ Remove(o) \/ Save(o)
  PROVE  Inv'
  <1>0. TypeOK /\ edit[o] \in EditStages /\ UNCHANGED <<ctx, ran>>
    BY DEF Inv, TypeOK, Edit, Delete, CreatePlaybook, MayEdit, Remove, Save
  <1>1. CASE Edit(o) \/ Delete(o) \/ CreatePlaybook(o)
    <2>1. /\ \E s \in EditStages : edit' = [edit EXCEPT ![o] = s]
          /\ used' = [used EXCEPT !.edits = @ + 1]
          /\ UNCHANGED <<playbook, record, late>>
      BY <1>1 DEF Edit, Delete, CreatePlaybook, MayEdit, EditStages
    <2>2. TypeOK'
      BY <1>0, <2>1 DEF TypeOK
    <2> QED
      BY <1>0, <2>1, <2>2, OthersKeepInv
  <1>2. CASE Remove(o)
    <2>1. edit' \in [Editors -> EditStages]
      BY <1>0, <1>2 DEF Remove, TypeOK, EditStages
    <2>2. CASE playbook' = FALSE /\ record' = Cascaded /\ OnTime
      <3>1. TypeOK' /\ late' = late /\ \A e \in Executions : record'[e] = NoRecord
        BY <1>0, <2>1, <2>2, BoundsAssumption, CascadedTyped, OnTimeTyped DEF TypeOK
      <3> QED
        BY <1>0, <3>1, OthersKeepInv
    <2>3. CASE UNCHANGED <<playbook, record>> /\ (OnTime \/ TimesOut(Removal))
      <3>1. TypeOK' /\ late' \subseteq late \cup {Removal}
        BY <1>0, <2>1, <2>3, OnTimeTyped, TimesOutTyped DEF TypeOK
      <3> QED
        BY <1>0, <2>3, <3>1, OthersKeepInv
    <2> QED
      BY <1>2, <2>2, <2>3 DEF Remove
  <1>3. CASE Save(o)
    <2>1. edit' \in [Editors -> EditStages]
      BY <1>0, <1>3 DEF Save, TypeOK, EditStages
    <2>2. UNCHANGED record /\ playbook' \in BOOLEAN /\ (OnTime \/ TimesOut(Saving))
      BY <1>0, <1>3 DEF Save, TypeOK
    <2>3. TypeOK' /\ late' \subseteq late \cup {Saving}
      BY <1>0, <2>1, <2>2, OnTimeTyped, TimesOutTyped DEF TypeOK
    <2> QED
      BY <1>0, <2>2, <2>3, OthersKeepInv
  <1> QED
    BY <1>1, <1>2, <1>3

LEMMA RestartKeepsInv ==
  ASSUME Inv, BoundsAssumption, Restart
  PROVE  Inv'
  <1>0. TypeOK /\ UNCHANGED <<playbook, record, late, ran>>
    BY DEF Inv, Restart
  <1>1. ASSUME NEW e \in Executions
        PROVE  /\ ctx'[e] \in Context
               /\ Told(ctx'[e]) = Told(ctx[e]) /\ ctx'[e].completed = ctx[e].completed
               /\ Sound(ctx'[e], ran[e])
    <2>0. ctx[e] \in Context /\ Sound(ctx[e], ran[e])
      BY <1>0 DEF Inv, TypeOK
    <2>1. CASE ctx'[e] = ctx[e]
      BY <2>0, <2>1
    <2>2. CASE ctx[e].pc \in Starting \cup Running /\ ctx'[e] = [ctx[e] EXCEPT !.pc = "lost"]
      BY <2>0, <2>2 DEF Context, Told, Sound, Starting, Running, Stages
    <2> QED
      BY <2>1, <2>2 DEF Restart
  <1>2. ctx' \in [Executions -> Context]
    BY <1>1 DEF Restart
  <1>3. TypeOK'
    BY <1>0, <1>2 DEF TypeOK, Restart, EditStages
  <1>4. \A e \in Executions, row \in Snapshot : Follows(ctx[e], row) => Follows(ctx'[e], row)
    BY <1>1 DEF Follows
  <1>5. RecordsFollow'
    BY <1>0, <1>4 DEF Inv, TypeOK, RecordsFollow
  <1>6. LateFollows'
    BY <1>0, <1>4 DEF Inv, TypeOK, LateFollows, Request, Removal, Saving
  <1> QED
    BY <1>0, <1>1, <1>3, <1>5, <1>6 DEF Inv

LEMMA Initially ==
  ASSUME Init, BoundsAssumption
  PROVE  Inv
  <1>1. NoContext \in Context /\ NoRecord \in Snapshot /\ Sound(NoContext, 0)
    BY BoundsAssumption
    DEF NoContext, Context, Stages, Starting, Running, Statuses, NoRecord, Snapshot, Sound
  <1>2. TypeOK
    BY <1>1, BoundsAssumption DEF Init, TypeOK, EditStages
  <1> QED
    BY <1>1, <1>2 DEF Init, Inv, RecordsFollow, LateFollows, Exists

LEMMA Steps ==
  ASSUME Inv, BoundsAssumption, [Next]_vars
  PROVE  Inv'
  <1>1. CASE UNCHANGED vars
    BY <1>1 DEF vars, Inv, TypeOK, RecordsFollow, LateFollows
  <1>2. CASE Next
    BY <1>1, <1>2, ExecuteKeepsInv, ThreadKeepsInv, LateKeepsInv, EditorKeepsInv, RestartKeepsInv
    DEF Next, Idle
  <1> QED
    BY <1>1, <1>2

LEMMA Invariant == Spec => []Inv
  <1>1. Init => Inv
    BY BoundsAssumption, Initially
  <1>2. Inv /\ [Next]_vars => Inv'
    BY BoundsAssumption, Steps
  <1> QED
    BY <1>1, <1>2, PTL DEF Spec

-----------------------------------------------------------------------------
(* The theorems *)

\* Every variable of the execution stays in its type; for one, no step is carried out
\* twice (the executors of a playbook never run more often than it has steps).
THEOREM TypeCorrect == Spec => []TypeOK
  <1>1. Inv => TypeOK
    BY DEF Inv
  <1> QED
    BY <1>1, Invariant, PTL

\* update_execution_record: what a record claims was carried out, whatever requests
\* were refused, late or repeated, and across deletions and restarts.
THEOREM ClaimsAreTrue == Spec => []NoFalseClaim
  <1>1. Inv => NoFalseClaim
    <2> SUFFICES ASSUME Inv, NEW e \in Executions
                 PROVE  /\ record[e].completed <= ran[e]
                        /\ record[e].status = "COMPLETED" => ran[e] = ctx[e].total
      BY DEF NoFalseClaim
    <2>0. ctx[e] \in Context /\ record[e] \in Snapshot /\ ran[e] \in Nat /\ Sound(ctx[e], ran[e])
      BY BoundsAssumption DEF Inv, TypeOK
    <2>1. CASE ~ Exists(record[e])
      BY <2>0, <2>1 DEF Exists, NoRecord
    <2>2. CASE Exists(record[e])
      <3>1. Follows(ctx[e], record[e])
        BY <2>2 DEF Inv, RecordsFollow
      <3>2. record[e].completed <= ran[e]
        BY <2>0, <3>1, BoundsAssumption DEF Follows, Sound, Context, Snapshot
      <3>3. record[e].status = "COMPLETED" => ctx[e].status = "COMPLETED"
        BY <2>0, <3>1, ToldTyped DEF Follows, Finished
      <3>4. ctx[e].status = "COMPLETED" => ran[e] = ctx[e].total
        BY <2>0, BoundsAssumption DEF Sound, Context
      <3> QED
        BY <3>2, <3>3, <3>4
    <2> QED
      BY <2>1, <2>2
  <1> QED
    BY <1>1, Invariant, PTL

\* StateMachine's table: a record that exists only moves forward, and a finished one
\* stays, unless an update of the same execution was late.
THEOREM RecordsAdvance == Spec => RecordAdvances
  <1> DEFINE Advanced(e) ==
          \/ ~ Exists(record[e]) \/ ~ Exists(record'[e]) \/ record'[e] = record[e]
          \/ /\ Rank(record[e]) <= Rank(record'[e])
             /\ record[e].completed <= record'[e].completed
             /\ ~ Finished(record[e])
          \/ \E request \in late \ late' : request.kind = "update" /\ request.exec = e
  <1>1. Inv /\ [Next]_vars => [\A e \in Executions : Advanced(e)]_vars
    <2> SUFFICES ASSUME Inv, Next, NEW e \in Executions
                 PROVE  Advanced(e)
      OBVIOUS
    <2>1. ASSUME NEW d \in Executions, Step(d)
          PROVE  Advanced(e)
      <3>0. Advances(d)
        BY <2>1, ThreadAdvances, BoundsAssumption
      <3>1. CASE record'[e] = record[e] \/ ~ Exists(record[e])
        BY <3>1
      <3>2. CASE record'[e] # record[e] /\ Exists(record[e])
        <4>1. e = d /\ record'[e] = Told(ctx'[e])
          BY <3>0, <3>2 DEF Advances, Tells, Reports, Creates
        <4>2. Follows(ctx[e], record[e]) /\ record[e] \in Snapshot
          BY <3>2 DEF Inv, RecordsFollow, TypeOK
        <4>3. Follows(ctx'[e], record[e])
          BY <3>0, <4>1, <4>2, StaysBehind, BoundsAssumption DEF Advances
        <4>4. ctx'[e] \in Context
          BY <3>0 DEF Advances, Grows
        <4>5. Rank(record[e]) <= Rank(record'[e]) /\ record[e].completed <= record'[e].completed
          BY <4>1, <4>3, <4>4, ToldTyped DEF Follows
        <4>6. ~ Finished(record[e])
          BY <3>0, <4>1, <4>2 DEF Follows, Advances, Grows
        <4> QED
          BY <4>5, <4>6
      <3> QED
        BY <3>1, <3>2
    <2>2. ASSUME NEW m \in late, ServeLate(m)
          PROVE  Advanced(e)
      <3>1. m \notin late' /\ m \in Request \cup {Removal, Saving}
        BY <2>2 DEF ServeLate, Inv, TypeOK
      <3>2. CASE m.kind = "update"
        BY <2>2, <3>1, <3>2 DEF ServeLate, Updated, Inv, TypeOK, Request, Removal, Saving
      <3>3. CASE m.kind = "create"
        BY <2>2, <3>3 DEF ServeLate, Created, Inv, TypeOK
      <3>4. CASE m.kind = "save"
        BY <2>2, <3>4 DEF ServeLate
      <3>5. CASE m.kind \notin {"update", "create", "save"}
        BY <2>2, <3>5 DEF ServeLate, Cascaded, Exists
      <3> QED
        BY <3>2, <3>3, <3>4, <3>5
    <2>3. CASE \E d \in Executions, n \in 0..MaxSteps : Execute(d, n)
      BY <2>3 DEF Execute
    <2>4. CASE \E o \in Editors : Edit(o) \/ Delete(o) \/ CreatePlaybook(o) \/ Remove(o) \/ Save(o)
      BY <2>4 DEF Edit, Delete, CreatePlaybook, MayEdit, Remove, Save, Cascaded, Exists
    <2>5. CASE Restart \/ Idle
      BY <2>5 DEF Restart, Idle, vars
    <2> QED
      BY <2>1, <2>2, <2>3, <2>4, <2>5 DEF Next
  <1> QED
    BY <1>1, Invariant, PTL DEF Spec, RecordAdvances

-----------------------------------------------------------------------------
(* Executions come to an end *)

Active(e) == ctx[e].pc \in Starting \cup Running

\* The steps that the thread of an execution has left at most.
Base == [creating |-> 7, created |-> 6, accepted |-> 5, begun |-> 4, ready |-> 3,
         stepping |-> 2, stepped |-> 1, finishing |-> 2, failing |-> 1]
Left(e) == IF Active(e) THEN 3 * (ctx[e].total - ctx[e].completed) + Base[ctx[e].pc] ELSE 0

\* run_execution_background: every step of the thread brings the execution nearer to its
\* end, whatever becomes of its reports, and no other request takes it further away.
ExecutionShortens ==
    [][\A e \in Executions :
          Active(e) => /\ Left(e)' \in 0 .. Left(e)
                       /\ Step(e) => Left(e)' # Left(e)]_vars

LEMMA LeftMeasured ==
  ASSUME Inv, BoundsAssumption, NEW e \in Executions
  PROVE  /\ ctx[e].total \in Nat /\ ctx[e].completed \in Nat /\ ctx[e].completed <= ctx[e].total
         /\ Left(e) \in Nat
  <1>1. ctx[e] \in Context /\ ran[e] \in Nat /\ Sound(ctx[e], ran[e])
    BY BoundsAssumption DEF Inv, TypeOK
  <1>2. ctx[e].total \in Nat /\ ctx[e].completed \in Nat /\ ctx[e].completed <= ctx[e].total
    BY <1>1, BoundsAssumption DEF Context, Sound
  <1>3. CASE Active(e)
    <2>1. Base[ctx[e].pc] \in 1 .. 7
      BY <1>3 DEF Active, Base, Starting, Running
    <2>2. Left(e) = 3 * (ctx[e].total - ctx[e].completed) + Base[ctx[e].pc]
      BY <1>3 DEF Left
    <2> QED
      BY <1>2, <2>1, <2>2
  <1>4. CASE ~ Active(e)
    BY <1>2, <1>4 DEF Left
  <1> QED
    BY <1>2, <1>3, <1>4

\* What a step of the thread makes of its stage and of the count.
LEMMA StageAfter ==
  ASSUME Inv, BoundsAssumption, NEW e \in Executions, Step(e)
  PROVE  LET c == ctx[e]
             d == ctx'[e]
         IN  /\ Active(e) /\ d.total = c.total
             /\ \/ d.pc \notin Starting \cup Running
                \/ d.completed = c.completed
                   /\ <<c.pc, d.pc>> \in {<<"creating", "created">>, <<"created", "accepted">>,
                        <<"accepted", "begun">>, <<"begun", "ready">>, <<"ready", "stepping">>,
                        <<"stepping", "stepped">>, <<"stepping", "failing">>,
                        <<"ready", "finishing">>}
                \/ c.pc = "stepped" /\ d.pc = "ready" /\ d.completed = c.completed + 1
                   /\ c.completed < c.total
             /\ \A x \in Executions \ {e} : ctx'[x] = ctx[x]
  <1> DEFINE c == ctx[e]
             d == ctx'[e]
  <1>1. TypeOK /\ c \in Context /\ ran[e] \in 0 .. MaxSteps /\ Sound(c, ran[e])
    BY DEF Inv, TypeOK
  <1>2. ASSUME NEW pc \in Stages, Goto(e, pc)
        PROVE  /\ d.pc = pc /\ d.total = c.total /\ d.completed = c.completed
               /\ \A x \in Executions \ {e} : ctx'[x] = ctx[x]
    <2>1. ctx' = [ctx EXCEPT ![e] = [c EXCEPT !.pc = pc]] /\ ctx \in [Executions -> Context]
      BY <1>1, <1>2 DEF Goto, TypeOK
    <2>2. PICK f : f = [c EXCEPT !.pc = pc]
      OBVIOUS
    <2>3. f.pc = pc /\ f.total = c.total /\ f.completed = c.completed
      BY <1>1, <2>2 DEF Context
    <2>4. d = f /\ \A x \in Executions \ {e} : ctx'[x] = ctx[x]
      BY <2>1, <2>2
    <2> QED
      BY <2>3, <2>4
  <1>3. ASSUME NEW pc \in Stages, NEW to \in Statuses, Transition(e, to, pc)
        PROVE  /\ d.pc = pc /\ d.total = c.total /\ d.completed = c.completed
               /\ \A x \in Executions \ {e} : ctx'[x] = ctx[x]
    BY <1>1, <1>3, Transitioned DEF Context, Transition
  <1>4. Starting \cup Running \subseteq Stages /\ {"rejected", "ended"} \subseteq Stages
        /\ {"rejected", "ended"} \cap (Starting \cup Running) = {}
        /\ {"RUNNING", "FAILED", "COMPLETED"} \subseteq Statuses
    BY DEF Stages, Starting, Running, Statuses
  <1>5. CASE CreateRecord(e) \/ CreateRaises(e) \/ LogQueued(e) \/ Begin(e)
    BY <1>2, <1>4, <1>5 DEF CreateRecord, CreateRaises, LogQueued, Begin, At, Active, Starting
  <1>6. CASE Run(e) \/ Fail(e) \/ Complete(e)
    BY <1>3, <1>4, <1>6 DEF Run, Fail, Complete, At, Active, Starting, Running
  <1>7. CASE StartStep(e) \/ CarryOut(e) \/ StepFails(e) \/ LastStep(e)
    BY <1>2, <1>4, <1>7 DEF StartStep, CarryOut, StepFails, LastStep, At, Active, Running
  <1>8. CASE CountStep(e)
    <2>1. c.pc = "stepped" /\ c.completed < c.total /\ c.completed < MaxSteps
      BY <1>1, <1>8, BoundsAssumption DEF CountStep, At, Sound, Context
    <2>2. /\ d = [c EXCEPT !.completed = @ + 1, !.pc = "ready"]
          /\ \A x \in Executions \ {e} : ctx'[x] = ctx[x]
      BY <1>1, <1>8, <2>1, BoundsAssumption, Counted DEF CountStep
    <2> QED
      BY <1>1, <2>1, <2>2 DEF Context, Active, Running
  <1> QED
    BY <1>5, <1>6, <1>7, <1>8 DEF Step

LEMMA StepShortens ==
  ASSUME Inv, BoundsAssumption, NEW e \in Executions, Step(e)
  PROVE  Left(e)' \in 0 .. Left(e) /\ Left(e)' # Left(e)
  <1> DEFINE total == ctx[e].total
             done == ctx[e].completed
  <1>1. total \in Nat /\ done \in Nat /\ done <= total
    BY LeftMeasured
  <1>2. Active(e) /\ Left(e) = 3 * (total - done) + Base[ctx[e].pc]
    BY StageAfter DEF Left
  <1>3. Base[ctx[e].pc] \in 1 .. 7
    BY <1>2 DEF Active, Base, Starting, Running
  <1>4. CASE ctx'[e].pc \notin Starting \cup Running
    <2>1. Left(e)' = 0
      BY <1>4 DEF Left, Active
    <2> HIDE DEF total, done
    <2> QED
      BY <1>1, <1>2, <1>3, <2>1
  <1>5. CASE ctx'[e].pc \in Starting \cup Running /\ ctx'[e].completed = done
    <2>1. Left(e)' = 3 * (total - done) + Base[ctx'[e].pc]
      BY <1>5, StageAfter DEF Left, Active
    <2>2. Base[ctx'[e].pc] \in Nat /\ Base[ctx'[e].pc] < Base[ctx[e].pc]
      BY <1>1, <1>5, StageAfter DEF Base
    <2> HIDE DEF total, done
    <2> QED
      BY <1>1, <1>2, <1>3, <2>1, <2>2
  <1>6. CASE ctx'[e].pc \in Starting \cup Running /\ ctx'[e].completed # done
    <2>1. /\ ctx[e].pc = "stepped" /\ ctx'[e].pc = "ready" /\ done < total
          /\ Left(e)' = 3 * (total - (done + 1)) + Base["ready"]
      BY <1>6, StageAfter DEF Left, Active
    <2>2. Base[ctx[e].pc] = 1 /\ Base["ready"] = 3
      BY <2>1 DEF Base
    <2> HIDE DEF total, done
    <2> QED
      BY <1>1, <1>2, <2>1, <2>2
  <1> QED
    BY <1>4, <1>5, <1>6

\* run_execution_background, the safety part of ExecutionEnds: for any number of steps an
\* execution takes at most three for each, and seven more, though reports are refused,
\* rows vanish and the playbook is edited or deleted under it.
THEOREM ExecutionsEnd == Spec => ExecutionShortens
  <1>1. ASSUME Inv, [Next]_vars, NEW e \in Executions, Active(e)
        PROVE  /\ Left(e)' \in 0 .. Left(e)
               /\ Step(e) => Left(e)' # Left(e)
    <2>1. CASE Step(e)
      BY <1>1, <2>1, StepShortens, BoundsAssumption
    <2>2. CASE ~ Step(e)
      <3>1. ctx'[e] = ctx[e] \/ ctx'[e].pc = "lost"
        <4>0. ctx \in [Executions -> Context] /\ ctx[e] \in Context
          BY <1>1 DEF Inv, TypeOK
        <4>1. ASSUME NEW d \in Executions, Step(d) PROVE ctx'[e] = ctx[e]
          BY <1>1, <2>2, <4>1, StageAfter, BoundsAssumption
        <4>2. ASSUME NEW d \in Executions, NEW n \in 0 .. MaxSteps, Execute(d, n)
              PROVE  ctx'[e] = ctx[e]
          BY <1>1, <4>0, <4>2 DEF Execute, At, Active, Starting, Running
        <4>3. CASE \E m \in late : ServeLate(m)
          BY <4>3 DEF ServeLate
        <4>4. CASE \E o \in Editors : Edit(o) \/ Delete(o) \/ CreatePlaybook(o) \/ Remove(o) \/ Save(o)
          BY <4>4 DEF Edit, Delete, CreatePlaybook, MayEdit, Remove, Save
        <4>5. CASE Restart
          BY <4>0, <4>5 DEF Restart, Context
        <4>6. CASE Idle \/ UNCHANGED vars
          BY <4>6 DEF Idle, vars
        <4> QED
          BY <1>1, <4>1, <4>2, <4>3, <4>4, <4>5, <4>6 DEF Next
      <3>2. Left(e)' \in {0, Left(e)}
        BY <3>1 DEF Left, Active, Base, Starting, Running
      <3> QED
        BY <1>1, <2>2, <3>2, LeftMeasured, BoundsAssumption
    <2> QED
      BY <2>1, <2>2
  <1>2. Inv /\ [Next]_vars =>
          [\A e \in Executions :
              Active(e) => /\ Left(e)' \in 0 .. Left(e)
                           /\ Step(e) => Left(e)' # Left(e)]_vars
    BY <1>1
  <1> QED
    BY <1>2, Invariant, PTL DEF Spec, ExecutionShortens

=============================================================================
