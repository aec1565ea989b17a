\* One execution of up to three steps: executions share nothing but the row of
\* their playbook, which two editors change three times. Two requests may be late.
CONSTANTS
    Executions = {e1}
    Editors = {o1, o2}
    MaxSteps = 3
    MaxEdits = 3
    MaxLate = 2
    MaxRestarts = 1
SPECIFICATION FairSpec
INVARIANTS
    TypeOK
    NoFalseClaim
PROPERTIES
    RecordAdvances
    ExecutionEnds
