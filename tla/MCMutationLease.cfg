SPECIFICATION FairSpec
CONSTANTS
    dir = dir
    file = file
    locks = locks
    t = t
    s = s
    f = f
    o1 = o1
    o2 = o2
    o3 = o3
    p1 = p1
    p2 = p2
    Paths = {dir, file, locks}
    Above <- MCAbove
    NoPath = NoPath
    StoreRoot = locks
    Targets = {t}
    Scopes = {s}
    Families = {f}
    Owners = {o1, o2, o3}
    Processes = {p1, p2}
    ProcessOf <- MCProcessOf
    NoOwner = NoOwner
    Requests <- MCRequests
    Rank <- MCRank
    Limit <- MCLimit
CHECK_DEADLOCK FALSE
INVARIANTS
    Exclusion
    Backed
    NoMissedSignal
PROPERTIES
    EventuallyReleased
