SPECIFICATION Spec
CONSTANTS
    Collectors = {c1}
    Limit = 3
    Suspects = {}
    MaxRecords = 2
    MaxRuns = 2
    MaxFaults = 1
PROPERTY SeamlessRestart
