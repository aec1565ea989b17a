----------------------- MODULE SysmonCollectorProofs -----------------------
(***************************************************************************)
(* What becomes of the records, for every number of collectors, records,   *)
(* runs and faults and every limit: none is skipped without a cause, and   *)
(* none is handed on more often than lost bookmarks and overlapping runs   *)
(* account for.                                                            *)
(***************************************************************************)
EXTENDS SysmonCollector, FiniteSetTheorems, TLAPS

-----------------------------------------------------------------------------
(* Types *)

LEMMA Constants ==
  ASSUME SysmonAssumption
  PROVE  /\ IsFiniteSet(Collectors)
         /\ MaxRecords \in Nat /\ MaxRuns \in Nat /\ MaxFaults \in Nat
         /\ Limit \in Nat /\ Limit > 0
  BY DEF SysmonAssumption

LEMMA LoadedType ==
  ASSUME SysmonAssumption, TypeOK
  PROVE  Loaded \in 0..MaxRecords
  BY Constants DEF TypeOK, Loaded, Torn

LEMMA TypeInit == ASSUME SysmonAssumption, Init PROVE TypeOK
  BY Constants DEF Init, TypeOK, NoRun, RunStates, Stages, Records, Torn, SysmonAssumption

LEMMA StatesOfRuns ==
  ASSUME SysmonAssumption, TypeOK, NEW c \in Collectors
  PROVE  /\ run[c] \in RunStates /\ NoRun \in RunStates
         /\ \A s \in Stages : [run[c] EXCEPT !.at = s] \in RunStates
         /\ \A S \in SUBSET Records : [run[c] EXCEPT !.todo = S] \in RunStates
         /\ \A x \in RunStates : [run EXCEPT ![c] = x] \in [Collectors -> RunStates]
<1>1. run[c] \in RunStates /\ NoRun \in RunStates
  BY Constants DEF TypeOK, NoRun, RunStates, Stages, Records
<1> QED BY <1>1 DEF TypeOK, RunStates

LEMMA FaultType ==
  ASSUME TypeOK, Fault
  PROVE  used' \in [runs : Nat, faults : Nat]
  BY DEF TypeOK, Fault

LEMMA AfterSaveType ==
  ASSUME SysmonAssumption, TypeOK, NEW c \in Collectors, AfterSave(c)
  PROVE  run' \in [Collectors -> RunStates]
<1>1. CASE run[c].at \in {"saving", "writing"}
  <2>1. run' = [run EXCEPT ![c] = [run[c] EXCEPT !.at = "emitting"]]
    BY <1>1 DEF AfterSave
  <2>2. "emitting" \in Stages
    BY DEF Stages
  <2> QED BY <2>1, <2>2, StatesOfRuns
<1>2. CASE run[c].at \notin {"saving", "writing"}
  <2>1. run' = [run EXCEPT ![c] = NoRun]
    BY <1>2 DEF AfterSave
  <2> QED BY <2>1, StatesOfRuns
<1> QED BY <1>1, <1>2

LEMMA GotoType ==
  ASSUME SysmonAssumption, TypeOK, NEW c \in Collectors, NEW s \in Stages, Goto(c, s)
  PROVE  run' \in [Collectors -> RunStates]
<1>1. run' = [run EXCEPT ![c] = [run[c] EXCEPT !.at = s]]
  BY DEF Goto
<1> QED BY <1>1, StatesOfRuns

\* What a parser returns, and that it passes over bad texts only unless it returns nothing.
LEMMA ParsingType ==
  ASSUME SysmonAssumption, TypeOK, NEW parsed \in Parsings
  PROVE  /\ Window \subseteq Records /\ parsed \subseteq Window
         /\ parsed # {} => parsed = Window \ unreadable
<1>1. Window \subseteq 1..log /\ 1..log \subseteq Records
  BY Constants DEF TypeOK, Window, Records
<1>2. parsed = Window \ unreadable \/ parsed = {}
  BY DEF Parsings
<1> QED BY <1>1, <1>2

LEMMA BatchType ==
  ASSUME SysmonAssumption, TypeOK, NEW last, NEW parsed \in Parsings
  PROVE  Batch(last, parsed) \subseteq parsed /\ Batch(last, parsed) \subseteq Records
  BY ParsingType DEF Batch

LEMMA TypeStep == ASSUME SysmonAssumption, TypeOK, [Next]_vars PROVE TypeOK'
<1>1. CASE Append
  BY <1>1, Constants DEF Append, TypeOK
<1>2. ASSUME NEW c \in Collectors, Configure(c) PROVE TypeOK'
  <2>1. [at |-> "fetching", last |-> Loaded, todo |-> {}] \in RunStates
    BY LoadedType DEF RunStates, Stages
  <2>2. run' \in [Collectors -> RunStates]
    BY <1>2, <2>1, StatesOfRuns DEF Configure
  <2>3. used' \in [runs : Nat, faults : Nat] /\ overlaps' \in Nat
    BY <1>2 DEF Configure, TypeOK
  <2> QED BY <1>2, <2>2, <2>3 DEF Configure, TypeOK
<1>3. ASSUME NEW c \in Collectors, Fetch(c) PROVE TypeOK'
  <2>1. \A parsed \in Parsings : \A w \in 0..MaxRecords :
            [at |-> "saving", last |-> w, todo |-> Batch(run[c].last, parsed)] \in RunStates
    BY BatchType DEF RunStates, Stages
  <2>2. run' \in [Collectors -> RunStates]
    BY <1>3, <2>1, StatesOfRuns DEF Fetch
  <2>3. queried' \in 0..MaxRecords
    BY <1>3 DEF Fetch, Queried, TypeOK
  <2> QED BY <1>3, <2>2, <2>3 DEF Fetch, TypeOK
<1>4. ASSUME NEW c \in Collectors, FetchFails(c) PROVE TypeOK'
  <2>1. run' \in [Collectors -> RunStates]
    BY <1>4, GotoType DEF FetchFails, Stages
  <2> QED BY <1>4, <2>1, FaultType DEF FetchFails, TypeOK
<1>5. ASSUME NEW c \in Collectors, FetchBreaks(c) PROVE TypeOK'
  <2>1. \A w \in 0..MaxRecords : [at |-> "leaving", last |-> w, todo |-> {}] \in RunStates
    BY DEF RunStates, Stages
  <2>2. run' \in [Collectors -> RunStates]
    BY <1>5, <2>1, StatesOfRuns DEF FetchBreaks
  <2>3. queried' \in 0..MaxRecords
    BY <1>5 DEF FetchBreaks, Queried, TypeOK
  <2>4. given_up' \subseteq Records
    BY <1>5, BatchType DEF FetchBreaks, TypeOK
  <2> QED BY <1>5, <2>2, <2>3, <2>4, FaultType DEF FetchBreaks, TypeOK
<1>6. ASSUME NEW c \in Collectors, SaveOpens(c) PROVE TypeOK'
  <2>1. Opened(run[c].at) \in Stages
    BY DEF Opened, Stages
  <2>2. run' \in [Collectors -> RunStates]
    BY <1>6, <2>1, GotoType DEF SaveOpens
  <2> QED BY <1>6, <2>2 DEF SaveOpens, TypeOK
<1>7. ASSUME NEW c \in Collectors, SaveRefused(c) PROVE TypeOK'
  BY <1>7, AfterSaveType, FaultType DEF SaveRefused, TypeOK
<1>8. ASSUME NEW c \in Collectors, SaveWrites(c) PROVE TypeOK'
  <2>1. run[c].last \in 0..MaxRecords
    BY StatesOfRuns DEF RunStates
  <2> QED BY <1>8, <2>1, AfterSaveType DEF SaveWrites, TypeOK
<1>9. ASSUME NEW c \in Collectors, SaveBreaks(c) PROVE TypeOK'
  BY <1>9, AfterSaveType, FaultType DEF SaveBreaks, TypeOK
<1>10. ASSUME NEW c \in Collectors, Emit(c) PROVE TypeOK'
  <2>1. PICK r \in run[c].todo :
            /\ run' = [run EXCEPT ![c] = [run[c] EXCEPT !.todo = run[c].todo \ {r}]]
            /\ \/ sent' = [sent EXCEPT ![r] = @ + 1] /\ UNCHANGED dropped
               \/ dropped' = dropped \cup {r} /\ UNCHANGED sent
    BY <1>10 DEF Emit
  <2>2. r \in Records /\ run[c].todo \ {r} \subseteq Records
    BY StatesOfRuns DEF RunStates
  <2>3. run' \in [Collectors -> RunStates]
    BY <2>1, <2>2, StatesOfRuns
  <2>4. sent' \in [Records -> Nat] /\ dropped' \subseteq Records
    BY <2>1, <2>2 DEF TypeOK
  <2> QED BY <1>10, <2>3, <2>4 DEF Emit, TypeOK
<1>11. ASSUME NEW c \in Collectors, Complete(c) PROVE TypeOK'
  <2>1. run' \in [Collectors -> RunStates]
    BY <1>11, GotoType DEF Complete, Stages
  <2> QED BY <1>11, <2>1 DEF Complete, TypeOK
<1>12. ASSUME NEW c \in Collectors, Interrupt(c) PROVE TypeOK'
  <2>1. run[c] \in RunStates
    BY StatesOfRuns
  <2>2. [run[c] EXCEPT !.at = "leaving", !.todo = {}] \in RunStates
    BY <2>1 DEF RunStates, Stages
  <2>3. run' = [run EXCEPT ![c] = [run[c] EXCEPT !.at = "leaving", !.todo = {}]]
    BY <1>12 DEF Interrupt
  <2>4. run' \in [Collectors -> RunStates]
    BY <2>2, <2>3, StatesOfRuns
  <2>5. given_up' \subseteq Records
    BY <1>12, <2>1 DEF Interrupt, TypeOK, RunStates
  <2> QED BY <1>12, <2>4, <2>5, FaultType DEF Interrupt, TypeOK
<1>13. ASSUME NEW c \in Collectors, Crash(c) PROVE TypeOK'
  <2>1. run' \in [Collectors -> RunStates]
    BY <1>13, StatesOfRuns DEF Crash
  <2>2. given_up' \subseteq Records
    BY <1>13, StatesOfRuns DEF Crash, TypeOK, RunStates
  <2>3. lost_saves' \in Nat
    BY <1>13 DEF Crash, TypeOK
  <2> QED BY <1>13, <2>1, <2>2, <2>3, FaultType DEF Crash, TypeOK
<1>14. CASE UNCHANGED vars
  BY <1>14 DEF vars, TypeOK
<1> QED
  BY <1>1, <1>2, <1>3, <1>4, <1>5, <1>6, <1>7, <1>8, <1>9, <1>10, <1>11, <1>12, <1>13, <1>14
  DEF Next, Step, Fail, Quiescent

\* The state has its types; in particular no torn file is ever taken for a number.
THEOREM TypeCorrect == ASSUME SysmonAssumption PROVE Spec => []TypeOK
<1>1. Init => TypeOK
  BY TypeInit
<1>2. TypeOK /\ [Next]_vars => TypeOK'
  BY TypeStep
<1> QED BY <1>1, <1>2, PTL DEF Spec

-----------------------------------------------------------------------------
(* What a step does to the run of its collector, and to no other *)

\* The step c takes replaces its own record in run by x.
Becomes(c, x) == run' = [run EXCEPT ![c] = x]

LEMMA OwnRun ==
  ASSUME TypeOK, NEW c \in Collectors, NEW x, Becomes(c, x)
  PROVE  run'[c] = x /\ \A d \in Collectors \ {c} : run'[d] = run[d]
  BY DEF TypeOK, Becomes

AfterRun(r) ==
  IF r.at \in {"saving", "writing"} THEN [r EXCEPT !.at = "emitting"] ELSE NoRun

LEMMA AfterSaveRun ==
  ASSUME NEW c \in Collectors, AfterSave(c)
  PROVE  Becomes(c, AfterRun(run[c]))
  BY DEF AfterSave, AfterRun, Becomes

-----------------------------------------------------------------------------
(* The bookmark moves over no record for no reason *)

\* A run has events in hand between its query and the last of them, and all of them
\* at or before the bookmark it is going to save.
HandSound(c) ==
  /\ run[c].todo # {} => run[c].at \in {"saving", "writing", "emitting"}
  /\ \A r \in run[c].todo : r <= run[c].last

LossInv ==
  /\ TypeOK
  /\ queried <= log
  /\ \A c \in Collectors : HandSound(c)
  /\ \A c \in Collectors : \A r \in 1..run[c].last : Explained(r)
  /\ LossHasCause

LEMMA HandInit == ASSUME SysmonAssumption, Init, NEW c \in Collectors PROVE HandSound(c)
  BY DEF Init, HandSound, NoRun

LEMMA HandStep ==
  ASSUME SysmonAssumption, TypeOK, \A c \in Collectors : HandSound(c), [Next]_vars,
         NEW d \in Collectors
  PROVE  HandSound(d)'
<1>1. SUFFICES ASSUME NEW c \in Collectors, Configure(c) \/ Step(c) \/ Fail(c)
               PROVE  HandSound(d)'
  BY DEF Next, Quiescent, Append, vars, HandSound
<1>2. \A e \in Collectors : run[e] \in RunStates
  BY StatesOfRuns
<1>3. ASSUME NEW x, Becomes(c, x), x.todo # {} => x.at \in {"saving", "writing", "emitting"},
             \A r \in x.todo : r <= x.last
      PROVE  HandSound(d)'
  <2>1. CASE d = c
    BY <1>3, <2>1, OwnRun DEF HandSound
  <2>2. CASE d # c
    BY <1>3, <2>2, OwnRun DEF HandSound
  <2> QED BY <2>1, <2>2
<1>4. HandSound(c) /\ run[c] \in RunStates
  BY <1>2
<1>5. CASE Configure(c)
  <2>1. Becomes(c, [at |-> "fetching", last |-> Loaded, todo |-> {}])
    BY <1>5 DEF Configure, Becomes
  <2> QED BY <1>3, <2>1
<1>6. CASE Fetch(c)
  <2>1. PICK parsed \in Parsings, w \in 0..MaxRecords :
            /\ IsWatermark(w, run[c].last, Batch(run[c].last, parsed))
            /\ Becomes(c, [at |-> "saving", last |-> w,
                           todo |-> Batch(run[c].last, parsed)])
    BY <1>6 DEF Fetch, Becomes
  <2> QED BY <1>3, <2>1 DEF IsWatermark
<1>7. CASE FetchBreaks(c)
  <2>1. \E w \in 0..MaxRecords : Becomes(c, [at |-> "leaving", last |-> w, todo |-> {}])
    BY <1>7 DEF FetchBreaks, Becomes
  <2> QED BY <1>3, <2>1
<1>8. CASE FetchFails(c)
  <2>1. Becomes(c, [run[c] EXCEPT !.at = "leaving"])
    BY <1>8 DEF FetchFails, Goto, Becomes
  <2>2. run[c].todo = {}
    BY <1>4, <1>8 DEF FetchFails, At, HandSound
  <2> QED BY <1>3, <1>4, <2>1, <2>2 DEF RunStates
<1>9. CASE SaveOpens(c)
  <2>1. Becomes(c, [run[c] EXCEPT !.at = Opened(run[c].at)])
    BY <1>9 DEF SaveOpens, Goto, Becomes
  <2> QED BY <1>3, <1>4, <1>9, <2>1 DEF RunStates, HandSound, SaveOpens, BeforeSave, Opened
<1>10. ASSUME AfterSave(c), run[c].at \in BeforeSave \cup InSave PROVE HandSound(d)'
  <2>1. Becomes(c, AfterRun(run[c]))
    BY <1>10, AfterSaveRun
  <2> QED BY <1>3, <1>4, <1>10, <2>1
          DEF RunStates, HandSound, BeforeSave, InSave, AfterRun, NoRun
<1>11. CASE SaveRefused(c) \/ SaveWrites(c) \/ SaveBreaks(c)
  BY <1>10, <1>11 DEF SaveRefused, SaveWrites, SaveBreaks
<1>12. CASE Emit(c)
  <2>1. PICK r \in run[c].todo :
            Becomes(c, [run[c] EXCEPT !.todo = run[c].todo \ {r}])
    BY <1>12 DEF Emit, Becomes
  <2> QED BY <1>3, <1>4, <1>12, <2>1 DEF RunStates, HandSound, Emit, At
<1>13. CASE Complete(c)
  <2>1. Becomes(c, [run[c] EXCEPT !.at = "leaving"]) /\ run[c].todo = {}
    BY <1>13 DEF Complete, Goto, Becomes
  <2> QED BY <1>3, <1>4, <2>1 DEF RunStates
<1>14. CASE Interrupt(c)
  <2>1. Becomes(c, [run[c] EXCEPT !.at = "leaving", !.todo = {}])
    BY <1>14 DEF Interrupt, Becomes
  <2> QED BY <1>3, <1>4, <2>1 DEF RunStates
<1>15. CASE Crash(c)
  <2>1. Becomes(c, NoRun)
    BY <1>15 DEF Crash, Becomes
  <2> QED BY <1>3, <2>1 DEF NoRun
<1> QED
  BY <1>1, <1>5, <1>6, <1>7, <1>8, <1>9, <1>11, <1>12, <1>13, <1>14, <1>15 DEF Step, Fail

\* What became of a record stays known: an event leaves the hands of a run by being
\* handed on or dropped, or with the run.
LEMMA ExplainedStays ==
  ASSUME SysmonAssumption, TypeOK, queried <= log, \A c \in Collectors : HandSound(c),
         [Next]_vars, NEW r \in Records, Explained(r)
  PROVE  Explained(r)'
<1>1. SUFFICES ASSUME NEW c \in Collectors, Configure(c) \/ Step(c) \/ Fail(c)
               PROVE  Explained(r)'
  BY DEF Next, Quiescent, Append, vars, Explained, InHand
<1>2. run[c] \in RunStates /\ HandSound(c) /\ queried \in Nat /\ log \in Nat /\ Limit \in Nat
  BY StatesOfRuns, Constants DEF TypeOK
<1>3. source' = source /\ unreadable' = unreadable
  BY <1>1 DEF Step, Fail, Configure, Fetch, FetchFails, FetchBreaks, SaveOpens, SaveRefused,
              SaveWrites, SaveBreaks, Emit, Complete, Interrupt, Crash
<1>4. queried' = queried \/ queried' = log
  BY <1>1 DEF Step, Fail, Configure, Fetch, FetchFails, FetchBreaks, SaveOpens, SaveRefused,
              SaveWrites, SaveBreaks, Emit, Complete, Interrupt, Crash, Queried
<1>5. dropped \subseteq dropped' /\ given_up \subseteq given_up'
  BY <1>1 DEF Step, Fail, Configure, Fetch, FetchFails, FetchBreaks, SaveOpens, SaveRefused,
              SaveWrites, SaveBreaks, Emit, Complete, Interrupt, Crash
<1>6. sent[r] > 0 => sent'[r] > 0
  <2>1. CASE Emit(c)
    <3>1. sent' = sent \/ \E q \in run[c].todo : sent' = [sent EXCEPT ![q] = @ + 1]
      BY <2>1 DEF Emit
    <3> QED BY <3>1 DEF TypeOK
  <2>2. CASE ~ Emit(c)
    BY <1>1, <2>2 DEF Step, Fail, Configure, Fetch, FetchFails, FetchBreaks, SaveOpens,
                      SaveRefused, SaveWrites, SaveBreaks, Complete, Interrupt, Crash
  <2> QED BY <2>1, <2>2
<1>7. ASSUME NEW x, Becomes(c, x), run[c].todo \subseteq x.todo, r \in InHand
      PROVE  r \in InHand'
  BY <1>7, OwnRun DEF InHand
<1>8. ASSUME run[c].todo = {}, r \in InHand, \E x : Becomes(c, x)
      PROVE  r \in InHand'
  BY <1>8, OwnRun DEF InHand
<1>9. ASSUME r \in InHand, r \notin run[c].todo, \E x : Becomes(c, x)
      PROVE  r \in InHand'
  BY <1>9, OwnRun DEF InHand
<1>10. ASSUME r \in InHand
       PROVE  r \in InHand' \/ sent'[r] > 0 \/ r \in dropped' \/ r \in given_up'
  <2>1. CASE Configure(c) \/ Fetch(c) \/ FetchFails(c) \/ FetchBreaks(c)
    <3>1. run[c].todo = {}
      BY <1>2, <2>1 DEF HandSound, Configure, Fetch, FetchFails, FetchBreaks, At
    <3>2. \E x : Becomes(c, x)
      BY <2>1 DEF Configure, Fetch, FetchFails, FetchBreaks, Goto, Becomes
    <3> QED BY <1>8, <1>10, <3>1, <3>2
  <2>2. CASE SaveOpens(c) \/ Complete(c)
    <3>1. \E s : Becomes(c, [run[c] EXCEPT !.at = s])
      BY <2>2 DEF SaveOpens, Complete, Goto, Becomes
    <3> QED BY <1>2, <1>7, <1>10, <3>1 DEF RunStates
  <2>3. CASE SaveRefused(c) \/ SaveWrites(c) \/ SaveBreaks(c)
    <3>1. Becomes(c, AfterRun(run[c])) /\ run[c].at \in BeforeSave \cup InSave
      BY <2>3, AfterSaveRun DEF SaveRefused, SaveWrites, SaveBreaks
    <3>2. run[c].todo \subseteq AfterRun(run[c]).todo
      BY <1>2, <3>1 DEF RunStates, HandSound, AfterRun, BeforeSave, InSave, NoRun
    <3> QED BY <1>7, <1>10, <3>1, <3>2
  <2>4. CASE Emit(c)
    <3>1. PICK q \in run[c].todo :
             /\ Becomes(c, [run[c] EXCEPT !.todo = run[c].todo \ {q}])
             /\ sent' = [sent EXCEPT ![q] = @ + 1] \/ dropped' = dropped \cup {q}
      BY <2>4 DEF Emit, Becomes
    <3>2. CASE r = q
      BY <3>1, <3>2 DEF TypeOK
    <3>3. CASE r # q
      <4>1. CASE r \in run[c].todo
        BY <1>2, <3>1, <3>3, <4>1, OwnRun DEF InHand, RunStates
      <4>2. CASE r \notin run[c].todo
        BY <1>9, <1>10, <3>1, <4>2
      <4> QED BY <4>1, <4>2
    <3> QED BY <3>2, <3>3
  <2>5. CASE Interrupt(c) \/ Crash(c)
    <3>1. given_up' = given_up \cup run[c].todo /\ \E x : Becomes(c, x)
      BY <2>5 DEF Interrupt, Crash, Becomes
    <3> QED BY <1>9, <1>10, <3>1
  <2> QED BY <1>1, <2>1, <2>2, <2>3, <2>4, <2>5 DEF Step, Fail
<1> QED BY <1>2, <1>3, <1>4, <1>5, <1>6, <1>10 DEF Explained, Records

\* The log's query returns no more than it was asked for.
LEMMA WindowBounded ==
  ASSUME SysmonAssumption, TypeOK, NEW S \in SUBSET Window
  PROVE  /\ IsFiniteSet(S) /\ Cardinality(S) \in Nat
         /\ source = "LOG" => Cardinality(S) <= Limit
<1>1. log \in Nat /\ Limit \in Nat
  BY Constants DEF TypeOK
<1>2. Window \subseteq 1 .. log
  BY DEF Window
<1>3. IsFiniteSet(1 .. log)
  BY <1>1, FS_Interval
<1>4. IsFiniteSet(S) /\ Cardinality(S) \in Nat
  BY <1>2, <1>3, FS_Subset, FS_CardinalityType
<1>5. ASSUME source = "LOG" PROVE Cardinality(S) <= Limit
  <2> DEFINE from == log - Limit + 1
             newest == from .. log
  <2>1. S \subseteq newest
    BY <1>1, <1>5 DEF Window
  <2>2. from \in Int /\ from <= log /\ log - from + 1 = Limit
    BY <1>1, Constants
  <2> HIDE DEF from
  <2>3. IsFiniteSet(newest) /\ Cardinality(newest) = Limit
    <3>1. from \in Int /\ log \in Int /\ ~ from > log
      BY <1>1, <2>2
    <3>2. IsFiniteSet(newest) /\ Cardinality(newest) = log - from + 1
      BY <3>1, FS_Interval
    <3> QED BY <2>2, <3>2
  <2> QED BY <2>1, <2>3, FS_Subset
<1> QED BY <1>4, <1>5

\* A query passes over a record of which the parser makes no event, or of the live log, if
\* Limit newer ones are there already.
LEMMA PassedOver ==
  ASSUME SysmonAssumption, TypeOK, NEW c \in Collectors, NEW parsed \in Parsings,
         NEW w \in 0..MaxRecords,
         w = run[c].last \/ w \in Batch(run[c].last, parsed),
         NEW r \in 1..w, r > run[c].last, r \notin Batch(run[c].last, parsed)
  PROVE  r \in unreadable \/ (source = "LOG" /\ r + Limit <= log)
<1> DEFINE last == run[c].last
           new == {e \in parsed : e > last}
<1>1. last \in Nat /\ log \in Nat /\ Limit \in Nat /\ MaxRecords \in Nat
  BY StatesOfRuns, Constants DEF TypeOK, RunStates
<1>2. w \in new /\ Cardinality(Prefix(new, w)) <= Limit
  BY <1>1 DEF Batch
<1>3. parsed = Window \ unreadable /\ parsed \subseteq Window /\ Window \subseteq Records
  BY <1>2, ParsingType
<1>4. CASE r \notin Window
  BY <1>1, <1>2, <1>3, <1>4 DEF Window
<1>5. CASE r \in Window /\ r \notin unreadable
  <2>1. r \in new
    BY <1>3, <1>5
  <2>2. Prefix(new, r) \subseteq Window /\ Prefix(new, w) \subseteq Window
    BY <1>3 DEF Prefix
  <2>3. Cardinality(Prefix(new, r)) <= Limit
    <3>1. CASE source = "LOG"
      BY <2>2, <3>1, WindowBounded
    <3>2. CASE source = "FILE"
      <4>1. Prefix(new, r) \subseteq Prefix(new, w)
        <5>1. \A e \in new : e \in Nat
          BY <1>1, <1>3 DEF Records
        <5> HIDE DEF new
        <5>2. ASSUME NEW e \in new, ~ Precedes(r, e) PROVE ~ Precedes(w, e)
          BY <1>1, <3>2, <5>1, <5>2 DEF Precedes
        <5> QED BY <5>2 DEF Prefix
      <4>2. IsFiniteSet(Prefix(new, w)) /\ Cardinality(Prefix(new, w)) \in Nat
            /\ Cardinality(Prefix(new, r)) \in Nat
        BY <2>2, WindowBounded
      <4>3. Cardinality(Prefix(new, r)) <= Cardinality(Prefix(new, w))
        BY <4>1, <4>2, FS_Subset
      <4> HIDE DEF new
      <4> QED BY <1>1, <1>2, <4>2, <4>3
    <3> QED BY <3>1, <3>2 DEF TypeOK
  <2> QED BY <2>1, <2>3 DEF Batch
<1> QED BY <1>4, <1>5

LEMMA LossStep == ASSUME SysmonAssumption, LossInv, [Next]_vars PROVE LossInv'
<1> USE DEF LossInv
<1>1. TypeOK' /\ \A d \in Collectors : HandSound(d)'
  BY TypeStep, HandStep
<1>2. queried' <= log'
  <2>1. queried' = queried \/ queried' = log
    BY DEF Next, Step, Fail, Quiescent, vars, Append, Configure, Fetch, FetchFails,
           FetchBreaks, SaveOpens, SaveRefused, SaveWrites, SaveBreaks, Emit, Complete,
           Interrupt, Crash, Queried
  <2>2. log' = log \/ log' = log + 1
    BY DEF Next, Step, Fail, Quiescent, vars, Append, Configure, Fetch, FetchFails,
           FetchBreaks, SaveOpens, SaveRefused, SaveWrites, SaveBreaks, Emit, Complete,
           Interrupt, Crash
  <2>3. queried \in Nat /\ log \in Nat
    BY Constants DEF TypeOK
  <2> QED BY <2>1, <2>2, <2>3
<1>3. ASSUME NEW r \in Records, Explained(r) PROVE Explained(r)'
  BY <1>3, ExplainedStays
<1>4. \A d \in Collectors : run[d].last \in 0..MaxRecords
  BY StatesOfRuns DEF RunStates
<1>5. Loaded \in 0..MaxRecords /\ MaxRecords \in Nat
  BY LoadedType, Constants
<1>6. \A r \in 1..Loaded : r \in Records /\ Explained(r)'
  BY <1>3, <1>5 DEF LossHasCause, Records
<1>7. \A d \in Collectors : \A r \in 1..run[d].last : r \in Records /\ Explained(r)'
  BY <1>3, <1>4, <1>5 DEF Records
<1>8. ASSUME NEW c \in Collectors, NEW x, Becomes(c, x), NEW d \in Collectors,
             \A r \in 1..x.last : Explained(r)'
      PROVE  \A r \in 1..run'[d].last : Explained(r)'
  <2>1. CASE d = c
    BY <1>8, <2>1, OwnRun
  <2>2. CASE d # c
    BY <1>7, <1>8, <2>2, OwnRun
  <2> QED BY <2>1, <2>2
<1>9. ASSUME NEW d \in Collectors PROVE \A r \in 1..run'[d].last : Explained(r)'
  <2>1. CASE UNCHANGED run
    BY <1>7, <2>1
  <2>2. ASSUME NEW c \in Collectors, Configure(c) \/ Step(c) \/ Fail(c)
        PROVE  \A r \in 1..run'[d].last : Explained(r)'
    <3>1. run[c] \in RunStates
      BY StatesOfRuns
    <3>2. ASSUME NEW x, Becomes(c, x), x.last = run[c].last \/ x.last = 0
          PROVE  \A r \in 1..run'[d].last : Explained(r)'
      <4>1. \A r \in 1..x.last : Explained(r)'
        BY <1>7, <3>2
      <4> QED BY <1>8, <3>2, <4>1
    <3>3. CASE Configure(c)
      <4>1. Becomes(c, [at |-> "fetching", last |-> Loaded, todo |-> {}])
        BY <3>3 DEF Configure, Becomes
      <4> QED BY <1>6, <1>8, <4>1
    <3>4. CASE Fetch(c)
      <4> DEFINE batch(parsed) == Batch(run[c].last, parsed)
      <4>1. PICK parsed \in Parsings, w \in 0..MaxRecords :
                /\ IsWatermark(w, run[c].last, batch(parsed))
                /\ Becomes(c, [at |-> "saving", last |-> w, todo |-> batch(parsed)])
        BY <3>4 DEF Fetch, Becomes
      <4>2. ASSUME NEW r \in 1..w PROVE Explained(r)'
        <5>1. CASE r \in 1..run[c].last
          BY <1>7, <5>1
        <5>2. CASE r \in batch(parsed)
          BY <4>1, <5>2, OwnRun DEF Explained, InHand
        <5>3. CASE r > run[c].last /\ r \notin batch(parsed)
          <6>1. r \in unreadable \/ (source = "LOG" /\ r + Limit <= log)
            BY <4>1, <5>3, PassedOver DEF IsWatermark
          <6>2. /\ source' = source /\ unreadable' = unreadable
                /\ source = "LOG" => queried' = log
            BY <3>4 DEF Fetch, Queried
          <6> QED BY <6>1, <6>2 DEF Explained
        <5> QED BY <1>4, <5>1, <5>2, <5>3
      <4> QED BY <1>8, <4>1, <4>2
    <3>5. CASE FetchBreaks(c)
      <4> DEFINE batch(parsed) == Batch(run[c].last, parsed)
      <4>1. PICK parsed \in Parsings : \E q \in batch(parsed) : \E w \in 0..MaxRecords :
                /\ IsWatermark(w, run[c].last, Prefix(batch(parsed), q))
                /\ Becomes(c, [at |-> "leaving", last |-> w, todo |-> {}])
                /\ given_up' = given_up \cup {e \in batch(parsed) : e <= w}
        BY <3>5 DEF FetchBreaks, Becomes
      <4>2. PICK q \in batch(parsed), w \in 0..MaxRecords :
                /\ IsWatermark(w, run[c].last, Prefix(batch(parsed), q))
                /\ Becomes(c, [at |-> "leaving", last |-> w, todo |-> {}])
                /\ given_up' = given_up \cup {e \in batch(parsed) : e <= w}
        BY <4>1
      <4>3. w = run[c].last \/ w \in batch(parsed)
        BY <4>2 DEF IsWatermark, Prefix
      <4>4. ASSUME NEW r \in 1..w PROVE Explained(r)'
        <5>1. CASE r \in 1..run[c].last
          BY <1>7, <5>1
        <5>2. CASE r \in batch(parsed)
          BY <4>2, <5>2 DEF Explained
        <5>3. CASE r > run[c].last /\ r \notin batch(parsed)
          <6>1. r \in unreadable \/ (source = "LOG" /\ r + Limit <= log)
            BY <4>3, <5>3, PassedOver
          <6>2. /\ source' = source /\ unreadable' = unreadable
                /\ source = "LOG" => queried' = log
            BY <3>5 DEF FetchBreaks, Queried
          <6> QED BY <6>1, <6>2 DEF Explained
        <5> QED BY <1>4, <5>1, <5>2, <5>3
      <4> QED BY <1>8, <4>2, <4>4
    <3>6. CASE FetchFails(c) \/ SaveOpens(c) \/ Complete(c)
      <4>1. \E s : Becomes(c, [run[c] EXCEPT !.at = s])
        BY <3>6 DEF FetchFails, SaveOpens, Complete, Goto, Becomes
      <4> QED BY <3>1, <3>2, <4>1 DEF RunStates
    <3>7. CASE SaveRefused(c) \/ SaveWrites(c) \/ SaveBreaks(c)
      <4>1. Becomes(c, AfterRun(run[c]))
        BY <3>7, AfterSaveRun DEF SaveRefused, SaveWrites, SaveBreaks
      <4> QED BY <3>1, <3>2, <4>1 DEF RunStates, AfterRun, NoRun
    <3>8. CASE Emit(c)
      <4>1. PICK q : Becomes(c, [run[c] EXCEPT !.todo = run[c].todo \ {q}])
        BY <3>8 DEF Emit, Becomes
      <4> QED BY <3>1, <3>2, <4>1 DEF RunStates
    <3>9. CASE Interrupt(c)
      <4>1. Becomes(c, [run[c] EXCEPT !.at = "leaving", !.todo = {}])
        BY <3>9 DEF Interrupt, Becomes
      <4> QED BY <3>1, <3>2, <4>1 DEF RunStates
    <3>10. CASE Crash(c)
      <4>1. Becomes(c, NoRun)
        BY <3>10 DEF Crash, Becomes
      <4> QED BY <3>2, <4>1 DEF NoRun
    <3> QED BY <2>2, <3>3, <3>4, <3>5, <3>6, <3>7, <3>8, <3>9, <3>10 DEF Step, Fail
  <2> QED BY <2>1, <2>2 DEF Next, Quiescent, Append, vars
<1>10. LossHasCause'
  <2>1. bookmark' = bookmark \/ bookmark' = Torn \/ \E c \in Collectors : bookmark' = run[c].last
    BY DEF Next, Step, Fail, Quiescent, vars, Append, Configure, Fetch, FetchFails,
           FetchBreaks, SaveOpens, SaveRefused, SaveWrites, SaveBreaks, Emit, Complete,
           Interrupt, Crash
  <2>2. CASE bookmark' = bookmark
    BY <1>6, <2>2 DEF LossHasCause, Loaded
  <2>3. CASE bookmark' = Torn
    BY <2>3 DEF LossHasCause, Loaded
  <2>4. ASSUME NEW c \in Collectors, bookmark' = run[c].last PROVE LossHasCause'
    BY <1>4, <1>7, <2>4 DEF LossHasCause, Loaded, Torn
  <2> QED BY <2>1, <2>2, <2>3, <2>4
<1> QED BY <1>1, <1>2, <1>9, <1>10

LEMMA LossInit == ASSUME SysmonAssumption, Init PROVE LossInv
<1>1. TypeOK /\ \A c \in Collectors : HandSound(c)
  BY TypeInit, HandInit
<1>2. queried <= log /\ LossHasCause
  BY DEF Init, LossHasCause, Loaded
<1>3. \A c \in Collectors : \A r \in 1..run[c].last : Explained(r)
  BY DEF Init, NoRun
<1> QED BY <1>1, <1>2, <1>3 DEF LossInv

\* BookmarkManager, the parsers and the runner: a record that later runs will skip was
\* handed on or dropped, is in the hands of a run, or was lost: with a run that stopped, to
\* a live query that came Limit records too late, or to a parser that made no event of its
\* text. Nothing else loses one.
THEOREM NoUnexplainedLoss == ASSUME SysmonAssumption PROVE Spec => []LossHasCause
<1>1. Init => LossInv
  BY LossInit
<1>2. LossInv /\ [Next]_vars => LossInv'
  BY LossStep
<1>3. LossInv => LossHasCause
  BY DEF LossInv
<1> QED BY <1>1, <1>2, <1>3, PTL DEF Spec

-----------------------------------------------------------------------------
(* Nothing is handed on more often than faults and overlaps account for *)

\* A run in state x may still hand r on.
May(x, r) == r \in x.todo \/ (x.at = "fetching" /\ x.last < r)

\* It has a bookmark before r that it has yet to save.
Stale(x, r) == x.at \notin {"idle", "fetching"} /\ x.last < r

\* It is going to put a bookmark at or after r into the file, or else is a fault that
\* counts; or it may hand r on itself, in the place of a later run.
Covers(x, r) ==
  \/ May(x, r) /\ x.at \in {"fetching", "saving"}
  \/ x.at \in InSave /\ r <= x.last

\* A run that begins when all others have ended may find a bookmark before r.
Exposed(r) ==
  \/ \E c \in Collectors : Stale(run[c], r)
  \/ r > Loaded /\ \A c \in Collectors : ~ Covers(run[c], r)

MaySend(r) == {c \in Collectors : May(run[c], r)}
Bit(b) == IF b THEN 1 ELSE 0

\* What was handed on and what may be are paid for.
Credit(r) ==
  sent[r] + Cardinality(MaySend(r)) + Bit(Exposed(r)) <= 1 + lost_saves + overlaps

CreditInv ==
  /\ TypeOK
  /\ \A c \in Collectors : HandSound(c)
  /\ \A r \in Records : Credit(r)

LEMMA CountWithout ==
  ASSUME NEW S, NEW c, IsFiniteSet(S)
  PROVE  /\ Cardinality(S) \in Nat
         /\ Cardinality(S \ {c}) = Cardinality(S) - Bit(c \in S)
<1>1. Cardinality(S) \in Nat
  BY FS_CardinalityType
<1>2. CASE c \in S
  BY <1>1, <1>2, FS_RemoveElement DEF Bit
<1>3. CASE c \notin S
  <2>1. S \ {c} = S
    BY <1>3
  <2>2. Cardinality(S \ {c}) = Cardinality(S)
    BY <2>1, Zenon
  <2>3. Bit(c \in S) = 0
    BY <1>3 DEF Bit
  <2>4. \A n \in Nat : n = n - 0
    OBVIOUS
  <2> QED BY <1>1, <2>2, <2>3, <2>4, Zenon
<1> QED BY <1>1, <1>2, <1>3

LEMMA CountChanges ==
  ASSUME NEW S, NEW T, NEW c, IsFiniteSet(S), IsFiniteSet(T), S \ {c} = T \ {c}
  PROVE  /\ Cardinality(S) \in Nat /\ Cardinality(T) \in Nat
         /\ Cardinality(T) = Cardinality(S) - Bit(c \in S) + Bit(c \in T)
<1>1. /\ Cardinality(S) \in Nat
      /\ Cardinality(S \ {c}) = Cardinality(S) - Bit(c \in S)
  BY CountWithout
<1>2. /\ Cardinality(T) \in Nat
      /\ Cardinality(T \ {c}) = Cardinality(T) - Bit(c \in T)
  BY CountWithout
<1> QED BY <1>1, <1>2 DEF Bit

LEMMA MayFinite ==
  ASSUME SysmonAssumption, NEW r
  PROVE  IsFiniteSet(MaySend(r)) /\ IsFiniteSet(MaySend(r)')
  BY Constants, FS_Subset DEF MaySend

\* The part of Exposed that depends on the run of c, which is in state x, and on the
\* bookmark b, the other runs given.
OtherStale(c, r) == \E d \in Collectors \ {c} : Stale(run[d], r)
OtherCovers(c, r) == \E d \in Collectors \ {c} : Covers(run[d], r)
Exposure(c, x, b, r) ==
  \/ OtherStale(c, r) \/ Stale(x, r)
  \/ r > b /\ ~ OtherCovers(c, r) /\ ~ Covers(x, r)

LEMMA ExposedSplit ==
  ASSUME NEW c \in Collectors, NEW r
  PROVE  Exposed(r) <=> Exposure(c, run[c], Loaded, r)
  BY DEF Exposed, Exposure, OtherStale, OtherCovers

\* What c spends on r in the step to x it gains elsewhere.
Balance(c, x, r) ==
  sent'[r] + Bit(May(x, r)) + Bit(Exposure(c, x, Loaded', r)) + lost_saves + overlaps
    <= sent[r] + Bit(May(run[c], r)) + Bit(Exposure(c, run[c], Loaded, r))
         + lost_saves' + overlaps'

\* Such a step keeps the books.
LEMMA Books ==
  ASSUME SysmonAssumption, TypeOK, TypeOK', NEW c \in Collectors, NEW r \in Records, Credit(r),
         NEW x, Becomes(c, x), Balance(c, x, r)
  PROVE  Credit(r)'
<1>1. run'[c] = x /\ \A d \in Collectors \ {c} : run'[d] = run[d]
  BY OwnRun
<1>2. Exposed(r)' <=> Exposure(c, x, Loaded', r)
  <2>1. OtherStale(c, r)' <=> OtherStale(c, r)
    BY <1>1 DEF OtherStale, Stale
  <2>2. OtherCovers(c, r)' <=> OtherCovers(c, r)
    BY <1>1 DEF OtherCovers, Covers, May
  <2>3. Exposed(r)' <=> \/ OtherStale(c, r)' \/ Stale(x, r)
                        \/ r > Loaded' /\ ~ OtherCovers(c, r)' /\ ~ Covers(x, r)
    BY <1>1 DEF Exposed, OtherStale, OtherCovers, Stale, Covers, May
  <2> QED BY <2>1, <2>2, <2>3 DEF Exposure
<1>3. (c \in MaySend(r) <=> May(run[c], r)) /\ (c \in MaySend(r)' <=> May(x, r))
  BY <1>1 DEF MaySend, May
<1>4. MaySend(r) \ {c} = MaySend(r)' \ {c}
  BY <1>1 DEF MaySend, May
<1>5. /\ Cardinality(MaySend(r)) \in Nat /\ Cardinality(MaySend(r)') \in Nat
      /\ Cardinality(MaySend(r)')
           = Cardinality(MaySend(r)) - Bit(May(run[c], r)) + Bit(May(x, r))
  BY <1>3, <1>4, MayFinite, CountChanges DEF Bit
<1>6. Bit(Exposed(r)) = Bit(Exposure(c, run[c], Loaded, r))
  BY ExposedSplit DEF Bit
<1>7. Bit(Exposed(r)') = Bit(Exposure(c, x, Loaded', r))
  BY <1>2 DEF Bit
<1>8. /\ sent[r] \in Nat /\ sent'[r] \in Nat /\ lost_saves \in Nat /\ lost_saves' \in Nat
      /\ overlaps \in Nat /\ overlaps' \in Nat
  BY DEF TypeOK
<1>9. \A b : Bit(b) \in {0, 1}
  BY DEF Bit
<1> DEFINE may == Bit(May(run[c], r))
           may1 == Bit(May(x, r))
           ex == Bit(Exposure(c, run[c], Loaded, r))
           ex1 == Bit(Exposure(c, x, Loaded', r))
           n == Cardinality(MaySend(r))
           n1 == Cardinality(MaySend(r)')
<1>10. sent[r] + n + ex <= 1 + lost_saves + overlaps
  BY <1>6 DEF Credit
<1>11. may \in Int /\ may1 \in Int /\ ex \in Int /\ ex1 \in Int
  BY <1>9
<1>12. sent'[r] + n1 + ex1 <= 1 + lost_saves' + overlaps'
  <2> HIDE DEF may, may1, ex, ex1, n, n1
  <2>1. n1 = n - may + may1 /\ n \in Nat
    BY <1>5 DEF n, n1, may, may1
  <2>2. sent'[r] + may1 + ex1 + lost_saves + overlaps
          <= sent[r] + may + ex + lost_saves' + overlaps'
    BY DEF Balance, may, may1, ex, ex1
  <2> QED BY <2>1, <2>2, <1>8, <1>10, <1>11
<1> QED BY <1>7, <1>12 DEF Credit

LEMMA CreditStep ==
  ASSUME SysmonAssumption, CreditInv, [Next]_vars, NEW r \in Records
  PROVE  Credit(r)'
<1> USE DEF CreditInv
<1>1. TypeOK' /\ Credit(r) /\ Loaded \in 0..MaxRecords
  BY TypeStep, LoadedType
<1>2. /\ sent[r] \in Nat /\ sent'[r] \in Nat /\ lost_saves \in Nat /\ lost_saves' \in Nat
      /\ overlaps \in Nat /\ overlaps' \in Nat /\ MaxRecords \in Nat /\ r \in Nat /\ r > 0
  BY <1>1, Constants DEF TypeOK, Records
<1>3. CASE UNCHANGED <<bookmark, run, sent, lost_saves, overlaps>>
  BY <1>1, <1>3 DEF Credit, MaySend, Exposed, Loaded
<1>4. ASSUME NEW c \in Collectors, Configure(c) \/ Step(c) \/ Fail(c) PROVE Credit(r)'
  <2>1. run[c] \in RunStates /\ HandSound(c)
    BY StatesOfRuns
  <2>2. Loaded' = Loaded \/ bookmark' # bookmark
    BY DEF Loaded
  <2> USE DEF May, Stale, Covers, Exposure, Bit, Balance
  <2>3. CASE Configure(c)
    <3>1. Becomes(c, [at |-> "fetching", last |-> Loaded, todo |-> {}])
      BY <2>3 DEF Configure, Becomes
    <3>2. Loaded' = Loaded /\ sent' = sent /\ lost_saves' = lost_saves /\ run[c].at = "idle"
      BY <2>3 DEF Configure, Loaded, At
    <3>3. run[c].todo = {}
      BY <2>1, <3>2 DEF HandSound
    <3>4. CASE \E d \in Collectors : ~ At(d, "idle")
      <4>1. overlaps' = overlaps + 1
        BY <2>3, <3>4 DEF Configure
      <4>2. Balance(c, [at |-> "fetching", last |-> Loaded, todo |-> {}], r)
        BY <1>1, <1>2, <3>2, <3>3, <4>1 DEF InSave
      <4> QED BY <1>1, <3>1, <4>2, Books
    <3>5. CASE \A d \in Collectors : At(d, "idle")
      <4>1. overlaps' = overlaps
        BY <2>3, <3>5 DEF Configure
      <4>2. ~ OtherStale(c, r) /\ ~ OtherCovers(c, r)
        <5>1. \A d \in Collectors : run[d].todo = {} /\ run[d].at = "idle"
          BY <3>5 DEF HandSound, At
        <5> QED BY <5>1 DEF OtherStale, OtherCovers, InSave
      <4>3. Balance(c, [at |-> "fetching", last |-> Loaded, todo |-> {}], r)
        BY <1>1, <1>2, <3>2, <3>3, <4>1, <4>2 DEF InSave
      <4> QED BY <1>1, <3>1, <4>3, Books
    <3> QED BY <3>4, <3>5
  <2>4. CASE Fetch(c)
    <3> DEFINE batch(parsed) == Batch(run[c].last, parsed)
    <3>1. PICK parsed \in Parsings, w \in 0..MaxRecords :
              /\ IsWatermark(w, run[c].last, batch(parsed))
              /\ Becomes(c, [at |-> "saving", last |-> w, todo |-> batch(parsed)])
      BY <2>4 DEF Fetch, Becomes
    <3>2. /\ Loaded' = Loaded /\ sent' = sent /\ lost_saves' = lost_saves
          /\ overlaps' = overlaps /\ run[c].at = "fetching"
      BY <2>4 DEF Fetch, Loaded, At
    <3>3. run[c].todo = {} /\ run[c].last \in 0..MaxRecords
      BY <2>1, <3>2 DEF HandSound, RunStates
    <3>4. run[c].last <= w /\ \A q \in batch(parsed) : run[c].last < q /\ q <= w
      BY <3>1 DEF IsWatermark, Batch
    <3> HIDE DEF batch
    <3>5. Balance(c, [at |-> "saving", last |-> w, todo |-> batch(parsed)], r)
      BY <1>1, <1>2, <3>2, <3>3, <3>4 DEF InSave
    <3> QED BY <1>1, <3>1, <3>5, Books
  <2>5. CASE FetchBreaks(c)
    <3>1. PICK w \in 0..MaxRecords :
              /\ run[c].last <= w
              /\ Becomes(c, [at |-> "leaving", last |-> w, todo |-> {}])
      BY <2>5 DEF FetchBreaks, Becomes, IsWatermark
    <3>2. /\ Loaded' = Loaded /\ sent' = sent /\ lost_saves' = lost_saves
          /\ overlaps' = overlaps /\ run[c].at = "fetching"
      BY <2>5 DEF FetchBreaks, Loaded, At
    <3>3. run[c].todo = {} /\ run[c].last \in 0..MaxRecords
      BY <2>1, <3>2 DEF HandSound, RunStates
    <3>4. Balance(c, [at |-> "leaving", last |-> w, todo |-> {}], r)
      BY <1>1, <1>2, <3>1, <3>2, <3>3 DEF InSave
    <3> QED BY <1>1, <3>1, <3>4, Books
  <2>6. CASE FetchFails(c)
    <3>1. Becomes(c, [run[c] EXCEPT !.at = "leaving"])
      BY <2>6 DEF FetchFails, Goto, Becomes
    <3>2. /\ Loaded' = Loaded /\ sent' = sent /\ lost_saves' = lost_saves
          /\ overlaps' = overlaps /\ run[c].at = "fetching"
      BY <2>6 DEF FetchFails, Loaded, At
    <3>3. run[c].todo = {} /\ run[c].last \in 0..MaxRecords
      BY <2>1, <3>2 DEF HandSound, RunStates
    <3>4. Balance(c, [run[c] EXCEPT !.at = "leaving"], r)
      BY <1>1, <1>2, <2>1, <3>2, <3>3 DEF InSave, RunStates
    <3> QED BY <1>1, <3>1, <3>4, Books
  <2>7. CASE SaveOpens(c)
    <3>1. Becomes(c, [run[c] EXCEPT !.at = Opened(run[c].at)])
      BY <2>7 DEF SaveOpens, Goto, Becomes
    <3>2. /\ Loaded' = 0 /\ sent' = sent /\ lost_saves' = lost_saves
          /\ overlaps' = overlaps /\ run[c].at \in BeforeSave
      BY <2>7 DEF SaveOpens, Loaded
    <3>3. Balance(c, [run[c] EXCEPT !.at = Opened(run[c].at)], r)
      BY <1>1, <1>2, <2>1, <3>2 DEF InSave, BeforeSave, Opened, RunStates
    <3> QED BY <1>1, <3>1, <3>3, Books
  <2>8. CASE SaveRefused(c)
    <3>1. Becomes(c, AfterRun(run[c]))
      BY <2>8, AfterSaveRun DEF SaveRefused
    <3>2. /\ Loaded' = Loaded /\ sent' = sent /\ lost_saves' = lost_saves + 1
          /\ overlaps' = overlaps /\ run[c].at \in BeforeSave
      BY <2>8 DEF SaveRefused, Loaded
    <3>3. Balance(c, AfterRun(run[c]), r)
      BY <1>1, <1>2, <2>1, <3>2 DEF InSave, BeforeSave, AfterRun, NoRun, RunStates, HandSound
    <3> QED BY <1>1, <3>1, <3>3, Books
  <2>9. CASE SaveWrites(c)
    <3>1. Becomes(c, AfterRun(run[c]))
      BY <2>9, AfterSaveRun DEF SaveWrites
    <3>2. /\ sent' = sent /\ overlaps' = overlaps /\ run[c].at \in InSave
          /\ \/ Loaded' = run[c].last /\ lost_saves' = lost_saves
             \/ lost_saves' = lost_saves + 1
      BY <2>1, <2>9 DEF SaveWrites, Loaded, RunStates, Torn
    <3>3. Loaded' \in Nat
      BY <1>1, LoadedType DEF TypeOK, Loaded, Torn
    <3>4. Balance(c, AfterRun(run[c]), r)
      BY <1>1, <1>2, <2>1, <3>2, <3>3 DEF InSave, AfterRun, NoRun, RunStates, HandSound
    <3> QED BY <1>1, <3>1, <3>4, Books
  <2>10. CASE SaveBreaks(c)
    <3>1. Becomes(c, AfterRun(run[c]))
      BY <2>10, AfterSaveRun DEF SaveBreaks
    <3>2. /\ sent' = sent /\ lost_saves' = lost_saves + 1
          /\ overlaps' = overlaps /\ run[c].at \in InSave
      BY <2>10 DEF SaveBreaks
    <3>3. Balance(c, AfterRun(run[c]), r)
      BY <1>1, <1>2, <2>1, <3>2 DEF InSave, AfterRun, NoRun, RunStates, HandSound
    <3> QED BY <1>1, <3>1, <3>3, Books
  <2>11. CASE Emit(c)
    <3>1. PICK q \in run[c].todo :
              /\ Becomes(c, [run[c] EXCEPT !.todo = run[c].todo \ {q}])
              /\ \/ sent' = [sent EXCEPT ![q] = @ + 1]
                 \/ sent' = sent
      BY <2>11 DEF Emit, Becomes
    <3>2. /\ Loaded' = Loaded /\ lost_saves' = lost_saves /\ overlaps' = overlaps
          /\ run[c].at = "emitting"
      BY <2>11 DEF Emit, Loaded, At
    <3>3. sent'[r] <= sent[r] + Bit(r = q)
      BY <3>1, <1>2 DEF TypeOK
    <3>4. Balance(c, [run[c] EXCEPT !.todo = run[c].todo \ {q}], r)
      BY <1>1, <1>2, <2>1, <3>2, <3>3 DEF InSave, RunStates
    <3> QED BY <1>1, <3>1, <3>4, Books
  <2>12. CASE Complete(c)
    <3>1. Becomes(c, [run[c] EXCEPT !.at = "leaving"])
      BY <2>12 DEF Complete, Goto, Becomes
    <3>2. /\ Loaded' = Loaded /\ sent' = sent /\ lost_saves' = lost_saves
          /\ overlaps' = overlaps /\ run[c].at = "emitting"
      BY <2>12 DEF Complete, Loaded, At
    <3>3. Balance(c, [run[c] EXCEPT !.at = "leaving"], r)
      BY <1>1, <1>2, <2>1, <3>2 DEF InSave, RunStates
    <3> QED BY <1>1, <3>1, <3>3, Books
  <2>13. CASE Interrupt(c)
    <3>1. Becomes(c, [run[c] EXCEPT !.at = "leaving", !.todo = {}])
      BY <2>13 DEF Interrupt, Becomes
    <3>2. /\ sent' = sent /\ overlaps' = overlaps
          /\ \/ /\ run[c].at \in {"saving", "emitting"}
                /\ Loaded' = Loaded /\ lost_saves' = lost_saves
             \/ run[c].at = "writing" /\ lost_saves' = lost_saves + 1
      BY <2>13 DEF Interrupt, Loaded, At
    <3>3. Balance(c, [run[c] EXCEPT !.at = "leaving", !.todo = {}], r)
      BY <1>1, <1>2, <2>1, <3>2 DEF InSave, RunStates
    <3> QED BY <1>1, <3>1, <3>3, Books
  <2>14. CASE Crash(c)
    <3>1. Becomes(c, NoRun)
      BY <2>14 DEF Crash, Becomes
    <3>2. /\ Loaded' = Loaded /\ sent' = sent /\ overlaps' = overlaps
          /\ lost_saves' = IF run[c].at \in InSave THEN lost_saves + 1 ELSE lost_saves
      BY <2>14 DEF Crash, Loaded
    <3>3. Balance(c, NoRun, r)
      BY <1>1, <1>2, <2>1, <3>2 DEF InSave, RunStates, NoRun, HandSound
    <3> QED BY <1>1, <3>1, <3>3, Books
  <2> QED BY <1>4, <2>3, <2>4, <2>5, <2>6, <2>7, <2>8, <2>9, <2>10, <2>11, <2>12, <2>13, <2>14
          DEF Step, Fail
<1> QED BY <1>3, <1>4 DEF Next, Append, Quiescent, vars

LEMMA CreditInit == ASSUME SysmonAssumption, Init PROVE CreditInv
<1>1. TypeOK /\ \A c \in Collectors : HandSound(c)
  BY TypeInit, HandInit
<1>2. ASSUME NEW r \in Records PROVE Credit(r)
  <2>1. MaySend(r) = {}
    BY DEF Init, NoRun, MaySend, May
  <2>2. Cardinality(MaySend(r)) = 0
    BY <2>1, FS_EmptySet
  <2>3. sent[r] = 0 /\ lost_saves = 0 /\ overlaps = 0
    BY DEF Init
  <2> QED BY <2>2, <2>3 DEF Credit, Bit
<1> QED BY <1>1, <1>2 DEF CreditInv

\* BookmarkManager: a record is handed on no more often than once, and once more for every
\* bookmark that failed to reach the file and every run that began beside another; a
\* crash or an interruption outside a save duplicates nothing.
THEOREM NoUnexplainedDuplicate == ASSUME SysmonAssumption PROVE Spec => []DuplicateHasCause
<1>1. Init => CreditInv
  BY CreditInit
<1>2. CreditInv /\ [Next]_vars => CreditInv'
  <2> SUFFICES ASSUME CreditInv, [Next]_vars PROVE CreditInv'
    OBVIOUS
  <2>1. TypeOK' /\ \A c \in Collectors : HandSound(c)'
    BY TypeStep, HandStep DEF CreditInv
  <2>2. \A r \in Records : Credit(r)'
    BY CreditStep
  <2> QED BY <2>1, <2>2 DEF CreditInv
<1>3. CreditInv => DuplicateHasCause
  <2> SUFFICES ASSUME CreditInv, NEW r \in Records
               PROVE  sent[r] <= 1 + lost_saves + overlaps
    BY DEF DuplicateHasCause
  <2>1. Cardinality(MaySend(r)) \in Nat
    BY MayFinite, FS_CardinalityType
  <2>2. sent[r] \in Nat /\ lost_saves \in Nat /\ overlaps \in Nat
    BY DEF CreditInv, TypeOK
  <2>3. Bit(Exposed(r)) \in {0, 1}
    BY DEF Bit
  <2>4. sent[r] + Cardinality(MaySend(r)) + Bit(Exposed(r)) <= 1 + lost_saves + overlaps
    BY DEF CreditInv, Credit
  <2> HIDE DEF CreditInv
  <2> QED BY <2>1, <2>2, <2>3, <2>4
<1> QED BY <1>1, <1>2, <1>3, PTL DEF Spec

-----------------------------------------------------------------------------
(* Runs come to an end *)

\* The steps that a run has left at most.
Base == [fetching |-> 6 + Limit, saving |-> 5, writing |-> 4, emitting |-> 3, leaving |-> 2,
         closing |-> 1, idle |-> 0]
Left(c) == Cardinality(run[c].todo) + Base[run[c].at]

\* execute_collection and on_cleanup: every step of a run, a failure included, brings it
\* nearer to its end, and neither the log nor another run takes it further away.
RunShortens ==
    [][\A c \in Collectors :
          ~ At(c, "idle") => /\ Left(c)' \in 0 .. Left(c)
                             /\ Step(c) \/ Fail(c) => Left(c)' # Left(c)]_vars

\* A run never has more than max_events events in hand, however long the log is.
LEMMA BatchBounded ==
  ASSUME SysmonAssumption, TypeOK, NEW parsed \in Parsings, NEW last \in Nat, NEW w \in Nat,
         IsWatermark(w, last, Batch(last, parsed))
  PROVE  Cardinality(Batch(last, parsed)) \in 0 .. Limit
<1> DEFINE batch == Batch(last, parsed)
           new == {e \in parsed : e > last}
<1>1. parsed \subseteq Window /\ Window \subseteq Records /\ Limit \in Nat
  BY ParsingType, Constants
<1>2. batch \in SUBSET Window
  BY <1>1 DEF Batch
<1>3. IsFiniteSet(batch) /\ Cardinality(batch) \in Nat
  BY <1>2, WindowBounded
<1>4. CASE source = "LOG"
  BY <1>1, <1>2, <1>3, <1>4, WindowBounded
<1>5. CASE source = "FILE" /\ batch = {}
  BY <1>1, <1>5, FS_EmptySet
<1>6. CASE source = "FILE" /\ batch # {}
  <2>1. w \in batch /\ \A e \in batch : e <= w
    <3>1. \A e \in batch : e > last
      BY DEF Batch
    <3> HIDE DEF batch
    <3>2. \A e \in batch : e \in Nat
      BY <1>1, <1>2 DEF Records
    <3>3. w \in {last} \cup batch /\ \A e \in {last} \cup batch : e <= w
      BY DEF IsWatermark, batch
    <3>4. w # last
      BY <1>6, <3>1, <3>2, <3>3
    <3> QED BY <3>3, <3>4
  <2>2. Cardinality(Prefix(new, w)) <= Limit
    BY <2>1 DEF Batch
  <2>3. batch \subseteq Prefix(new, w) /\ Prefix(new, w) \in SUBSET Window
    <3>1. batch \subseteq new /\ new \subseteq Window
      BY <1>1 DEF Batch
    <3> HIDE DEF batch, new
    <3>2. \A e \in batch : e \in Nat
      BY <1>1, <1>2 DEF Records
    <3>3. \A e \in batch : ~ Precedes(w, e)
      BY <1>6, <2>1, <3>2 DEF Precedes
    <3> QED BY <3>1, <3>3 DEF Prefix
  <2>4. IsFiniteSet(Prefix(new, w)) /\ Cardinality(Prefix(new, w)) \in Nat
    BY <2>3, WindowBounded
  <2>5. Cardinality(batch) <= Cardinality(Prefix(new, w))
    BY <2>3, <2>4, FS_Subset
  <2> HIDE DEF batch, new
  <2>6. Cardinality(batch) \in 0 .. Limit
    BY <1>1, <1>3, <2>2, <2>4, <2>5
  <2> QED BY <2>6 DEF batch
<1> QED BY <1>4, <1>5, <1>6 DEF TypeOK

LEMMA InHandFinite ==
  ASSUME SysmonAssumption, TypeOK, NEW S \in SUBSET Records
  PROVE  IsFiniteSet(S) /\ Cardinality(S) \in Nat
<1>1. IsFiniteSet(1 .. MaxRecords)
  BY Constants, FS_Interval
<1> QED BY <1>1, FS_Subset, FS_CardinalityType DEF Records

\* A run that goes on to a later stage, or has fewer events in hand.
LEMMA Shrinks ==
  ASSUME SysmonAssumption, TypeOK, NEW c \in Collectors, NEW x \in RunStates, Becomes(c, x),
         x.todo \subseteq run[c].todo,
         \/ Base[x.at] < Base[run[c].at]
         \/ Base[x.at] = Base[run[c].at] /\ x.todo # run[c].todo
  PROVE  Left(c)' \in 0 .. Left(c) /\ Left(c)' # Left(c)
<1> DEFINE S == run[c].todo
           T == x.todo
           b == Base[run[c].at]
           d == Base[x.at]
<1>1. run[c] \in RunStates /\ run'[c] = x
  BY StatesOfRuns, OwnRun
<1>2. b \in Nat /\ d \in Nat
  BY <1>1, Constants DEF RunStates, Stages, Base
<1>3. /\ IsFiniteSet(S) /\ Cardinality(S) \in Nat /\ Cardinality(T) \in Nat
      /\ Cardinality(T) <= Cardinality(S)
      /\ T # S => Cardinality(T) < Cardinality(S)
  <2>1. S \in SUBSET Records /\ T \in SUBSET Records
    BY <1>1 DEF RunStates
  <2>2. IsFiniteSet(S) /\ Cardinality(S) \in Nat /\ Cardinality(T) \in Nat
    BY <2>1, InHandFinite
  <2>3. Cardinality(T) <= Cardinality(S) /\ (Cardinality(T) = Cardinality(S) => T = S)
    BY <2>2, FS_Subset
  <2> HIDE DEF S, T
  <2> QED BY <2>2, <2>3
<1>4. Left(c) = Cardinality(S) + b /\ Left(c)' = Cardinality(T) + d
  BY <1>1 DEF Left, Base
<1>5. d < b \/ (d = b /\ T # S)
  OBVIOUS
<1> HIDE DEF S, T, b, d
<1> QED BY <1>2, <1>3, <1>4, <1>5

LEMMA RunGoesOn ==
  ASSUME SysmonAssumption, TypeOK, NEW c \in Collectors, HandSound(c), Step(c) \/ Fail(c)
  PROVE  Left(c)' \in 0 .. Left(c) /\ Left(c)' # Left(c)
<1>1. run[c] \in RunStates /\ NoRun \in RunStates /\ Limit \in Nat
  BY StatesOfRuns, Constants
<1>2. \A s \in Stages : LET x == [run[c] EXCEPT !.at = s]
                        IN  x \in RunStates /\ x.at = s /\ x.todo = run[c].todo
  BY <1>1 DEF RunStates
<1>3. NoRun.at = "idle" /\ NoRun.todo = {}
  BY DEF NoRun
<1>4. CASE Fetch(c)
  <2>1. PICK parsed \in Parsings, w \in 0..MaxRecords :
            /\ IsWatermark(w, run[c].last, Batch(run[c].last, parsed))
            /\ Becomes(c, [at |-> "saving", last |-> w,
                           todo |-> Batch(run[c].last, parsed)])
    BY <1>4 DEF Fetch, Becomes
  <2>2. run'[c].at = "saving" /\ run'[c].todo = Batch(run[c].last, parsed)
    BY <2>1, OwnRun
  <2>3. Cardinality(Batch(run[c].last, parsed)) \in 0 .. Limit
    BY <1>1, <2>1, BatchBounded DEF RunStates
  <2>4. run[c].at = "fetching" /\ Cardinality(run[c].todo) = 0
    BY <1>4, FS_EmptySet DEF Fetch, At, HandSound
  <2>5. Left(c) = 0 + (6 + Limit) /\ Left(c)' = Cardinality(Batch(run[c].last, parsed)) + 5
    BY <2>2, <2>4 DEF Left, Base
  <2> QED BY <1>1, <2>3, <2>5
<1>5. CASE FetchFails(c)
  <2>1. Becomes(c, [run[c] EXCEPT !.at = "leaving"]) /\ run[c].at = "fetching"
    BY <1>5 DEF FetchFails, Goto, At, Becomes
  <2>2. "leaving" \in Stages /\ Base["leaving"] < Base["fetching"]
    BY <1>1 DEF Stages, Base
  <2> QED BY <1>2, <2>1, <2>2, Shrinks
<1>6. CASE FetchBreaks(c)
  <2>1. PICK w \in 0..MaxRecords : Becomes(c, [at |-> "leaving", last |-> w, todo |-> {}])
    BY <1>6 DEF FetchBreaks, Becomes
  <2>2. [at |-> "leaving", last |-> w, todo |-> {}] \in RunStates /\ run[c].at = "fetching"
    BY <1>6 DEF FetchBreaks, At, RunStates, Stages
  <2> QED BY <1>1, <2>1, <2>2, Shrinks DEF Base
<1>7. CASE SaveOpens(c)
  <2>1. /\ Becomes(c, [run[c] EXCEPT !.at = Opened(run[c].at)])
        /\ run[c].at \in {"saving", "leaving"}
    BY <1>7 DEF SaveOpens, Goto, Becomes, BeforeSave
  <2>2. /\ Opened(run[c].at) \in Stages
        /\ Base[Opened(run[c].at)] < Base[run[c].at]
    BY <2>1 DEF Opened, Stages, Base
  <2> QED BY <1>2, <2>1, <2>2, Shrinks
<1>8. CASE SaveRefused(c) \/ SaveWrites(c) \/ SaveBreaks(c)
  <2>1. Becomes(c, AfterRun(run[c])) /\ run[c].at \in {"saving", "leaving", "writing", "closing"}
    BY <1>8, AfterSaveRun DEF SaveRefused, SaveWrites, SaveBreaks, BeforeSave, InSave
  <2>2. /\ AfterRun(run[c]) \in RunStates
        /\ AfterRun(run[c]).todo \subseteq run[c].todo
        /\ Base[AfterRun(run[c]).at] < Base[run[c].at]
    BY <1>1, <1>2, <1>3, <2>1 DEF AfterRun, Stages, Base
  <2> QED BY <2>1, <2>2, Shrinks
<1>9. CASE Emit(c)
  <2>1. PICK r \in run[c].todo : Becomes(c, [run[c] EXCEPT !.todo = run[c].todo \ {r}])
    BY <1>9 DEF Emit, Becomes
  <2> DEFINE x == [run[c] EXCEPT !.todo = run[c].todo \ {r}]
  <2>2. x \in RunStates /\ x.at = run[c].at /\ x.todo = run[c].todo \ {r}
    BY <1>1 DEF RunStates
  <2> HIDE DEF x
  <2>3. x.todo \subseteq run[c].todo /\ x.todo # run[c].todo
    BY <2>1, <2>2
  <2> QED BY <2>1, <2>2, <2>3, Shrinks DEF x
<1>10. CASE Complete(c)
  <2>1. Becomes(c, [run[c] EXCEPT !.at = "leaving"]) /\ run[c].at = "emitting"
    BY <1>10 DEF Complete, Goto, At, Becomes
  <2>2. "leaving" \in Stages /\ Base["leaving"] < Base["emitting"]
    BY <1>1 DEF Stages, Base
  <2> QED BY <1>2, <2>1, <2>2, Shrinks
<1>11. CASE Interrupt(c)
  <2>1. /\ Becomes(c, [run[c] EXCEPT !.at = "leaving", !.todo = {}])
        /\ run[c].at \in {"saving", "writing", "emitting"}
    BY <1>11 DEF Interrupt, Becomes
  <2> DEFINE x == [run[c] EXCEPT !.at = "leaving", !.todo = {}]
  <2>2. x \in RunStates /\ x.at = "leaving" /\ x.todo = {}
    BY <1>1 DEF RunStates, Stages
  <2> HIDE DEF x
  <2>3. Base["leaving"] < Base[run[c].at] /\ x.todo \subseteq run[c].todo
    BY <2>1, <2>2 DEF Base
  <2> QED BY <2>1, <2>2, <2>3, Shrinks DEF x
<1>12. CASE Crash(c)
  <2>1. Becomes(c, NoRun) /\ run[c].at \in Stages \ {"idle"}
    BY <1>1, <1>12 DEF Crash, At, Becomes, RunStates
  <2>2. Base["idle"] < Base[run[c].at]
    BY <1>1, <2>1 DEF Stages, Base
  <2> QED BY <1>1, <1>3, <2>1, <2>2, Shrinks
<1> QED BY <1>4, <1>5, <1>6, <1>7, <1>8, <1>9, <1>10, <1>11, <1>12 DEF Step, Fail

\* execute_collection and on_cleanup, the safety part of RunEnds: a run takes at most six
\* steps and one for each of the max_events events, whatever fails, however long the log
\* is and however many other runs write the bookmark file.
THEOREM RunsEnd == ASSUME SysmonAssumption PROVE Spec => RunShortens
<1>1. ASSUME LossInv, [Next]_vars, NEW c \in Collectors, ~ At(c, "idle")
      PROVE  /\ Left(c)' \in 0 .. Left(c)
             /\ Step(c) \/ Fail(c) => Left(c)' # Left(c)
  <2>1. CASE Step(c) \/ Fail(c)
    BY <1>1, <2>1, RunGoesOn DEF LossInv
  <2>2. CASE ~ (Step(c) \/ Fail(c))
    <3>1. run'[c] = run[c]
      <4>1. ASSUME NEW d \in Collectors, Configure(d) \/ Step(d) \/ Fail(d)
            PROVE  run'[c] = run[c]
        <5>1. d # c
          BY <1>1, <2>2, <4>1 DEF Configure
        <5> QED BY <1>1, <4>1, <5>1 DEF LossInv, TypeOK, Step, Fail, Configure, Fetch,
                FetchFails, FetchBreaks, SaveOpens, SaveRefused, SaveWrites, SaveBreaks, Emit,
                Complete, Interrupt, Crash, Goto, AfterSave
      <4>2. CASE Append \/ Quiescent \/ UNCHANGED vars
        BY <4>2 DEF Append, Quiescent, vars
      <4> QED BY <1>1, <4>1, <4>2 DEF Next
    <3>2. Left(c)' = Left(c)
      BY <3>1 DEF Left, Base
    <3>3. Left(c) \in Nat
      <4>1. run[c] \in RunStates /\ run[c].todo \in SUBSET Records /\ Limit \in Nat
        BY <1>1, StatesOfRuns, Constants DEF LossInv, RunStates
      <4>2. Cardinality(run[c].todo) \in Nat
        BY <1>1, <4>1, InHandFinite DEF LossInv
      <4>3. Base[run[c].at] \in Nat
        BY <4>1 DEF RunStates, Stages, Base
      <4> QED BY <4>2, <4>3 DEF Left
    <3> QED BY <2>2, <3>2, <3>3
  <2> QED BY <2>1, <2>2
<1>2. LossInv /\ [Next]_vars =>
        [\A c \in Collectors :
            ~ At(c, "idle") => /\ Left(c)' \in 0 .. Left(c)
                               /\ Step(c) \/ Fail(c) => Left(c)' # Left(c)]_vars
  BY <1>1
<1>3. Init => LossInv
  BY LossInit
<1>4. LossInv /\ [Next]_vars => LossInv'
  BY LossStep
<1> QED BY <1>2, <1>3, <1>4, PTL DEF Spec, RunShortens

=============================================================================
