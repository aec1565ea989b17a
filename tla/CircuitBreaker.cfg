\* Three callers, so that two failures trip the breaker while a third call is
\* still running; the clock allows three full recovery timeouts.
CONSTANTS
    Callers = {c1, c2, c3}
    FailureThreshold = 2
    RecoveryTimeout = 2
    MaxTime = 8
SYMMETRY Symmetry
SPECIFICATION Spec
INVARIANTS
    TypeOK
    CountMatchesState
    OpenExecutesNothingNew
PROPERTY OpenIsHonoured
