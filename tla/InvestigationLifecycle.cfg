CHECK_DEADLOCK FALSE
SPECIFICATION FairSpec
CONSTANTS
    Threads = {t1, t2}
    Objects = {o1, o2, o3}
    Statuses = {"OPEN", "CLOSED"}
    Titles = {x, y}
    Items = {l1}
    Nobody = Nobody
    Absent = Absent
    Torn = Torn
    MaxSnapshots = 1
    MaxRestarts = 1
INVARIANTS
    TypeOK
    DiskMatchesMemory
PROPERTIES
    ClosedNotEdited
    LockReturned
