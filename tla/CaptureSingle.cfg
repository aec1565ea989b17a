\* One client that starts and one that stops, three captures. No symmetry: it is
\* unsound with liveness.
CONSTANTS
    Starters = {s1}
    Stoppers = {t1}
    Resetters = {}
    Executors = {}
    MaxCaptures = 3
    MaxTime = 3
SPECIFICATION FairSpec
INVARIANTS
    OneTshark
    StoppedIsGone
PROPERTY StopReturns
