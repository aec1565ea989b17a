CONSTANTS
    None = None
    f1 = f1
    f2 = f2
    Feeds = {f1}
    Workers = {w1, w2}
    Operators = {o1}
    VersionIds = {v1}
    ActivatingPlugins = {f1}
    AutoActivate = {f1}
    Deps <- NoDeps
    MaxRetries = 1
    MaxSyncs = 2
    MaxRollbacks = 1
    MaxCancels = 1
    MaxRestarts = 0
SPECIFICATION FairSpec
PROPERTIES
    SyncEnds
    CancelHeeded
    SyncsShorten
INVARIANT LocksHeld
