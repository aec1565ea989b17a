\* Two syncs, the second one interrupted by a rollback before its last save.
CONSTANTS
    None = None
    f1 = f1
    f2 = f2
    Feeds = {f1}
    Workers = {w1}
    Operators = {o1}
    VersionIds = {v1, v2}
    ActivatingPlugins = {}
    AutoActivate = {f1}
    Deps <- NoDeps
    MaxRetries = 0
    MaxSyncs = 2
    MaxRollbacks = 1
    MaxCancels = 0
    MaxRestarts = 0
SYMMETRY Symmetry
SPECIFICATION Spec
INVARIANT SingleActiveRow
