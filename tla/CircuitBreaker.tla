--------------------------- MODULE CircuitBreaker ---------------------------
(***************************************************************************)
(* CircuitBreaker of netfusion_platform: call() decides under the lock     *)
(* whether to execute, runs the protected function without the lock, and   *)
(* reports the outcome under the lock again. Between the two, other calls  *)
(* are admitted, fail, trip the breaker, and time passes, so an outcome    *)
(* may reach a breaker in a different state from the one that admitted it. *)
(***************************************************************************)
EXTENDS Naturals

CONSTANTS
    Callers,            \* threads inside call()
    FailureThreshold,   \* failure_threshold
    RecoveryTimeout,    \* recovery_timeout_seconds, in ticks
    MaxTime             \* bound: the clock stops here

ASSUME ThresholdAssumption == FailureThreshold \in Nat \ {0}
ASSUME TimeAssumption == RecoveryTimeout \in Nat /\ MaxTime \in Nat

VARIABLES
    state,              \* _state
    failure_count,      \* _failure_count
    last_failure_time,  \* _last_failure_time
    now,                \* time.time(), monotone here
    call,               \* what each caller executes: nothing, or a call admitted
                        \* while the breaker was CLOSED or as a HALF_OPEN trial
    sinceTrip           \* history: callers admitted since the last trip

vars == <<state, failure_count, last_failure_time, now, call, sinceTrip>>

TypeOK ==
    /\ state \in {"CLOSED", "OPEN", "HALF_OPEN"}
    /\ failure_count \in Nat
    /\ last_failure_time \in Nat
    /\ now \in Nat
    /\ call \in [Callers -> {"none", "normal", "trial"}]
    /\ sinceTrip \subseteq Callers

\* The clock starts at 1: 0 is the value that means no failure yet.
Init ==
    /\ state = "CLOSED"
    /\ failure_count = 0
    /\ last_failure_time = 0
    /\ now = 1
    /\ call = [c \in Callers |-> "none"]
    /\ sinceTrip = {}

\* _update_state_if_needed: an OPEN breaker is due for a trial.
TimeoutElapsed == now >= last_failure_time + RecoveryTimeout
UpdatedState == IF state = "OPEN" /\ TimeoutElapsed THEN "HALF_OPEN" ELSE state

\* Mutant of Admit: the OPEN state is not looked at.
AdmitAlways(c) ==
    /\ call[c] = "none"
    /\ state' = UpdatedState
    /\ call' = [call EXCEPT ![c] = IF UpdatedState = "HALF_OPEN" THEN "trial" ELSE "normal"]
    /\ sinceTrip' = sinceTrip \cup {c}
    /\ UNCHANGED <<failure_count, last_failure_time, now>>

\* call(), up to the execution of the function.
Admit(c) ==
    /\ call[c] = "none"
    /\ UpdatedState # "OPEN"
    /\ state' = UpdatedState
    /\ call' = [call EXCEPT ![c] = IF UpdatedState = "HALF_OPEN" THEN "trial" ELSE "normal"]
    /\ sinceTrip' = sinceTrip \cup {c}
    /\ UNCHANGED <<failure_count, last_failure_time, now>>

\* CircuitBreakerOpenException: the function is not executed.
FailFast(c) ==
    /\ call[c] = "none"
    /\ UpdatedState = "OPEN"
    /\ UNCHANGED vars

\* Mutants of OnSuccess: a success works off one failure; it closes the breaker
\* without clearing the counter; it closes an OPEN breaker as well.
OnSuccessDecays(c) ==
    /\ call[c] # "none"
    /\ call' = [call EXCEPT ![c] = "none"]
    /\ state' = IF state = "HALF_OPEN" THEN "CLOSED" ELSE state
    /\ failure_count' = IF state = "HALF_OPEN" THEN 0 ELSE failure_count - 1
    /\ UNCHANGED <<last_failure_time, now, sinceTrip>>
OnSuccessKeepsCount(c) ==
    /\ call[c] # "none"
    /\ call' = [call EXCEPT ![c] = "none"]
    /\ state' = IF state = "HALF_OPEN" THEN "CLOSED" ELSE state
    /\ UNCHANGED <<failure_count, last_failure_time, now, sinceTrip>>
OnSuccessCloses(c) ==
    /\ call[c] # "none"
    /\ call' = [call EXCEPT ![c] = "none"]
    /\ state' = "CLOSED" /\ failure_count' = 0
    /\ UNCHANGED <<last_failure_time, now, sinceTrip>>

\* _on_success: only a HALF_OPEN breaker takes notice.
OnSuccess(c) ==
    /\ call[c] # "none"
    /\ call' = [call EXCEPT ![c] = "none"]
    /\ IF state = "HALF_OPEN"
       THEN state' = "CLOSED" /\ failure_count' = 0
       ELSE UNCHANGED <<state, failure_count>>
    /\ UNCHANGED <<last_failure_time, now, sinceTrip>>

\* _on_failure, for one of the expected exceptions.
OnFailure(c) ==
    LET trips == failure_count + 1 >= FailureThreshold
    IN  /\ call[c] # "none"
        /\ call' = [call EXCEPT ![c] = "none"]
        /\ failure_count' = failure_count + 1
        /\ last_failure_time' = now
        /\ state' = IF trips THEN "OPEN" ELSE state
        /\ sinceTrip' = IF trips /\ state # "OPEN" THEN {} ELSE sinceTrip
        /\ UNCHANGED now

\* The function raises something else: nothing is counted.
UnexpectedException(c) ==
    /\ call[c] # "none"
    /\ call' = [call EXCEPT ![c] = "none"]
    /\ UNCHANGED <<state, failure_count, last_failure_time, now, sinceTrip>>

\* The state property updates the state it reports.
ReadState ==
    /\ state' = UpdatedState
    /\ UNCHANGED <<failure_count, last_failure_time, now, call, sinceTrip>>

Reset ==
    /\ state' = "CLOSED"
    /\ failure_count' = 0
    /\ last_failure_time' = 0
    /\ UNCHANGED <<now, call, sinceTrip>>

Tick ==
    /\ now < MaxTime
    /\ now' = now + 1
    /\ UNCHANGED <<state, failure_count, last_failure_time, call, sinceTrip>>

Next ==
    \/ \E c \in Callers : \/ Admit(c) \/ FailFast(c)
                          \/ OnSuccess(c) \/ OnFailure(c) \/ UnexpectedException(c)
    \/ ReadState \/ Reset \/ Tick

Spec == Init /\ [][Next]_vars

-----------------------------------------------------------------------------
(* Properties *)

\* A CLOSED breaker is below its threshold, and one that has tripped stays at or
\* above it until it closes: that is why a single failed trial opens it again,
\* whatever late outcomes were counted meanwhile.
CountMatchesState ==
    IF state = "CLOSED" THEN failure_count < FailureThreshold
                        ELSE failure_count >= FailureThreshold

\* No outcome of a call admitted earlier takes the breaker out of OPEN: only the
\* timeout, counted from the latest failure, or a manual reset does.
OpenIsHonoured ==
    [][(state = "OPEN" /\ state' # "OPEN") =>
          \/ state' = "HALF_OPEN" /\ TimeoutElapsed
          \/ last_failure_time' = 0]_vars

\* While the breaker is OPEN the target runs only for callers that were admitted
\* before it tripped ("failing fast without executing target").
OpenExecutesNothingNew ==
    state = "OPEN" => \A c \in sinceTrip : call[c] = "none"

=============================================================================
