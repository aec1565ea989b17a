SPECIFICATION FairSpec
CONSTANTS
    fa = fa fb = fb fc = fc
    Feeds = {fa, fb, fc}
    Deps <- Fork
    Enabled = {fa, fc}
    Callers = {c1}
    Loops = {l1, l2}
    Jobs = {j1}
    Locks = {k1, k2, k3}
    None = None
INVARIANTS
    TypeOK
    OneSyncPerFeed
    PrerequisitesFirst
    OrderComplete
PROPERTIES
    StopsPolling
    SyncAllReturns
