SPECIFICATION Spec
CONSTANTS
    a = a
    b = b
    Projects = {p1, p2}
    Nobody = Nobody
    Paths = {a, b}
    Rank <- MCRank
    Sensitive = {b}
    Aliased = {b}
    Contents = {c1, c2}
    Absent = Absent
    Limit <- ReleaseLimit
CHECK_DEADLOCK FALSE
INVARIANTS
    InterruptedNotTaken
