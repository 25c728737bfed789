SPECIFICATION StorageSpec
CHECK_DEADLOCK FALSE
CONSTANTS
    Old = Old
    Tree = Tree
    New = New
    theirs = theirs
    kid1 = kid1
    kid2 = kid2
    Children = {kid1, kid2}
    intruder = intruder
    None = None
    CommitLimit <- EntryLimit
    r1 = r1
    r2 = r2
    Resolvers = {r1, r2}
    h1 = h1
    h2 = h2
    Contents = {h1, h2}
    Index = Index
    Damaged = Damaged
    Pinned = TRUE
    CacheLimit <- ObjectLimit
    Count = 2
    Depth <- HomeDepth
    Root <- HomeRoot
    Owned <- HomeOwned
    Size <- HomeSize
    Modes = {"apply", "recover"}
    DepthLimit = 256
    Capacity = 67108864
    CleanupLimit <- HomeLimit
    Commands = {c1, c2}
    NoCommand = NoCommand
    Limit <- RetirementLimit
INVARIANTS
    CommitTruthful
    CacheSound
    CleanupSound
    RetirementConfirmed
PROPERTIES
    ForeignKept
    RetirementTruthful
    ImplementsLife
