CONSTANTS
    None = None
    f1 = f1
    f2 = f2
    Feeds = {f1}
    Workers = {w1, w2}
    Operators = {}
    VersionIds = {v1, v2, v3}
    ActivatingPlugins = {f1}
    AutoActivate = {f1}
    Deps <- NoDeps
    MaxRetries = 1
    MaxSyncs = 2
    MaxRollbacks = 0
    MaxCancels = 0
    MaxRestarts = 1
SYMMETRY Symmetry
SPECIFICATION Spec
INVARIANTS
    AtMostOneActive
    NoSilentOutage
    CompletedImportKeepsDataset
    HealthNamesActivated
PROPERTY ImplementsCatalog
