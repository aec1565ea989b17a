\* A playbook captures while a client stops and another deletes a session; two
\* captures, so that stale files and calls of the first meet the second.
CONSTANTS
    Starters = {}
    Stoppers = {t1}
    Resetters = {r1}
    Executors = {e1}
    MaxCaptures = 2
    MaxTime = 2
SPECIFICATION Spec
INVARIANTS
    TypeOK
    ReportsOwnCapture
