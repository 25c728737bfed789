SPECIFICATION WorkflowsSpec
CHECK_DEADLOCK FALSE
SYMMETRY Symmetry
CONSTANTS
    o1 = o1
    o2 = o2
    o3 = o3
    p1 = p1
    p2 = p2
    r1 = r1
    r2 = r2
    None = None
    Unknown = Unknown
    Owners = {o1, o2, o3}
    Globals = {o1, o2}
    Pins = {p1, p2}
    CarrierLimit <- RunsLimit
    Runs = {r1, r2}
    Profiles <- RefreshProfiles
    Limit <- RefreshLimit
INVARIANTS
    RelationsRecorded
    RefreshTold
PROPERTIES
    RelationsKept
    RefreshCurrent
