------------------------ MODULE CircuitBreakerProofs ------------------------
(***************************************************************************)
(* What the circuit breaker guarantees for every number of callers, every  *)
(* threshold and every timeout.                                            *)
(***************************************************************************)
EXTENDS CircuitBreaker, TLAPS

\* The variables keep their types (TypeOK): the counter and the clock never
\* leave the naturals, the state is one of CircuitState's three.
THEOREM TypeCorrect == Spec => []TypeOK
<1>1. Init => TypeOK
  BY DEF Init, TypeOK
<1>2. TypeOK /\ [Next]_vars => TypeOK'
  <2> SUFFICES ASSUME TypeOK, [Next]_vars PROVE TypeOK'
    OBVIOUS
  <2>1. ASSUME NEW c \in Callers, Admit(c) PROVE TypeOK'
    BY <2>1 DEF TypeOK, Admit, UpdatedState
  <2>2. ASSUME NEW c \in Callers, FailFast(c) PROVE TypeOK'
    BY <2>2 DEF TypeOK, FailFast, vars
  <2>3. ASSUME NEW c \in Callers, OnSuccess(c) PROVE TypeOK'
    BY <2>3 DEF TypeOK, OnSuccess
  <2>4. ASSUME NEW c \in Callers, OnFailure(c) PROVE TypeOK'
    BY <2>4 DEF TypeOK, OnFailure
  <2>5. ASSUME NEW c \in Callers, UnexpectedException(c) PROVE TypeOK'
    BY <2>5 DEF TypeOK, UnexpectedException
  <2>6. CASE ReadState
    BY <2>6 DEF TypeOK, ReadState, UpdatedState
  <2>7. CASE Reset
    BY <2>7 DEF TypeOK, Reset
  <2>8. CASE Tick
    BY <2>8 DEF TypeOK, Tick
  <2>9. CASE UNCHANGED vars
    BY <2>9 DEF TypeOK, vars
  <2> QED
    BY <2>1, <2>2, <2>3, <2>4, <2>5, <2>6, <2>7, <2>8, <2>9 DEF Next
<1> QED
  BY <1>1, <1>2, PTL DEF Spec

\* In every state the failure counter agrees with the breaker's state
\* (CountMatchesState); a trip is the only way to reach the threshold, and only
\* a successful trial or a reset clears it.
THEOREM CountInvariant == Spec => []CountMatchesState
<1>1. Init => CountMatchesState
  BY ThresholdAssumption DEF Init, CountMatchesState
<1>2. TypeOK /\ CountMatchesState /\ [Next]_vars => CountMatchesState'
  <2> SUFFICES ASSUME TypeOK, CountMatchesState, [Next]_vars PROVE CountMatchesState'
    OBVIOUS
  <2> USE ThresholdAssumption DEF CountMatchesState, TypeOK
  <2>1. ASSUME NEW c \in Callers, Admit(c) PROVE CountMatchesState'
    BY <2>1 DEF Admit, UpdatedState
  <2>2. ASSUME NEW c \in Callers, OnSuccess(c) PROVE CountMatchesState'
    BY <2>2 DEF OnSuccess
  <2>3. ASSUME NEW c \in Callers, OnFailure(c) PROVE CountMatchesState'
    BY <2>3 DEF OnFailure
  <2>4. ASSUME NEW c \in Callers, FailFast(c) \/ UnexpectedException(c)
        PROVE CountMatchesState'
    BY <2>4 DEF FailFast, UnexpectedException, vars
  <2>5. CASE ReadState
    BY <2>5 DEF ReadState, UpdatedState
  <2>6. CASE Reset \/ Tick \/ UNCHANGED vars
    BY <2>6 DEF Reset, Tick, vars
  <2> QED
    BY <2>1, <2>2, <2>3, <2>4, <2>5, <2>6 DEF Next
<1> QED
  BY <1>1, <1>2, TypeCorrect, PTL DEF Spec

\* A tripped breaker leaves OPEN only by its timeout or a reset, never by the
\* outcome of a call it had admitted before (OpenIsHonoured). A late failure
\* keeps it OPEN because the counter is still at the threshold.
THEOREM OpenUntilTimeout == Spec => OpenIsHonoured
<1> DEFINE Honoured == (state = "OPEN" /\ state' # "OPEN") =>
                          \/ state' = "HALF_OPEN" /\ TimeoutElapsed
                          \/ last_failure_time' = 0
<1>1. TypeOK /\ CountMatchesState /\ [Next]_vars => [Honoured]_vars
  <2> SUFFICES ASSUME TypeOK, CountMatchesState, [Next]_vars, state = "OPEN"
               PROVE Honoured
    BY DEF Honoured
  <2>1. ASSUME NEW c \in Callers, Admit(c) PROVE Honoured
    BY <2>1 DEF Admit, UpdatedState
  <2>2. ASSUME NEW c \in Callers, OnFailure(c) PROVE Honoured
    BY <2>2, ThresholdAssumption DEF OnFailure, CountMatchesState, TypeOK
  <2>3. ASSUME NEW c \in Callers, FailFast(c) \/ OnSuccess(c) \/ UnexpectedException(c)
        PROVE Honoured
    BY <2>3 DEF FailFast, OnSuccess, UnexpectedException, vars
  <2>4. CASE ReadState
    BY <2>4 DEF ReadState, UpdatedState
  <2>5. CASE Reset \/ Tick \/ UNCHANGED vars
    BY <2>5 DEF Reset, Tick, vars
  <2> QED
    BY <2>1, <2>2, <2>3, <2>4, <2>5 DEF Next
<1> QED
  BY <1>1, TypeCorrect, CountInvariant, PTL DEF Spec, OpenIsHonoured

\* While the breaker is OPEN nothing runs that was admitted after it tripped
\* (OpenExecutesNothingNew).
THEOREM OpenFailsFast == Spec => []OpenExecutesNothingNew
<1>1. Init => OpenExecutesNothingNew
  BY DEF Init, OpenExecutesNothingNew
<1>2. TypeOK /\ OpenExecutesNothingNew /\ [Next]_vars => OpenExecutesNothingNew'
  <2> SUFFICES ASSUME TypeOK, OpenExecutesNothingNew, [Next]_vars
               PROVE OpenExecutesNothingNew'
    OBVIOUS
  <2> USE DEF OpenExecutesNothingNew, TypeOK
  <2>1. ASSUME NEW c \in Callers, Admit(c) PROVE OpenExecutesNothingNew'
    BY <2>1 DEF Admit
  <2>2. ASSUME NEW c \in Callers, OnSuccess(c) PROVE OpenExecutesNothingNew'
    BY <2>2 DEF OnSuccess
  <2>3. ASSUME NEW c \in Callers, OnFailure(c) PROVE OpenExecutesNothingNew'
    BY <2>3 DEF OnFailure
  <2>4. ASSUME NEW c \in Callers, FailFast(c) \/ UnexpectedException(c)
        PROVE OpenExecutesNothingNew'
    BY <2>4 DEF FailFast, UnexpectedException, vars
  <2>5. CASE ReadState
    BY <2>5 DEF ReadState, UpdatedState
  <2>6. CASE Reset \/ Tick \/ UNCHANGED vars
    BY <2>6 DEF Reset, Tick, vars
  <2> QED
    BY <2>1, <2>2, <2>3, <2>4, <2>5, <2>6 DEF Next
<1> QED
  BY <1>1, <1>2, TypeCorrect, PTL DEF Spec

=============================================================================
