CONSTANTS
    None = None
    f1 = f1
    f2 = f2
    Feeds = {f1, f2}
    Workers = {w1, w2}
    Operators = {o1}
    VersionIds = {v1, v2}
    ActivatingPlugins = {}
    AutoActivate = {f1}
    Deps <- Chain
    MaxRetries = 0
    MaxSyncs = 2
    MaxRollbacks = 2
    MaxCancels = 0
    MaxRestarts = 1
SYMMETRY Symmetry
SPECIFICATION Spec
INVARIANTS
    TypeOK
    LastActivatedIsServed
    OutageHasCause
PROPERTY InvalidOnlyByExplicitRollback
