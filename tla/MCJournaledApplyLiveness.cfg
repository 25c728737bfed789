SPECIFICATION FairSpec
CONSTANTS
    a = a
    b = b
    Projects = {p1, p2}
    Nobody = Nobody
    Paths = {a, b}
    Rank <- MCRank
    Sensitive = {b}
    Aliased = {b}
    Contents = {c1}
    Absent = Absent
    Limit <- LivenessLimit
CHECK_DEADLOCK FALSE
PROPERTIES
    EventuallyCleared
