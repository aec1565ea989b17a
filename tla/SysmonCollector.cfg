SPECIFICATION FairSpec
CONSTANTS
    Collectors = {c1, c2}
    Limit = 2
    Suspects = {2}
    MaxRecords = 3
    MaxRuns = 3
    MaxFaults = 1
INVARIANTS
    TypeOK
    LossHasCause
    DuplicateHasCause
PROPERTY RunEnds
