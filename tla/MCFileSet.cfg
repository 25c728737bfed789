SPECIFICATION FairSpec
CONSTANTS
    p1 = p1
    p2 = p2
    b1 = b1
    b2 = b2
    m600 = m600
    Paths <- MCPaths
    Rank <- MCRank
    Bytes <- MCBytes
    Modes = {m600}
    DefaultMode = m600
    Absent = Absent
    NoPath = NoPath
    Plans <- MCPlans
    MaxTargets = 2
    Limit <- MCLimit
INVARIANTS
    Recoverable
    Atomic
    Truthful
PROPERTIES
    OnlyRacingEditsLost
    CommitPointLast
    ImplementsPromise
    EventuallyCleared
