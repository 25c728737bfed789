CONSTANTS
    p1 = p1
    p2 = p2
    i1 = i1
    i2 = i2
    a = a
    b = b
    Procs = {p1, p2}
    Invocations = {i1, i2}
    Documents = {a, b}
    Covers <- MCCovers
    LeftModes = {"wider", "foreign"}
    None = None
    Limit <- MCLimit
SPECIFICATION Spec
SYMMETRY Symmetry
CHECK_DEADLOCK FALSE
INVARIANTS
    WritersKnown
PROPERTIES
    ClearedSafe
