SPECIFICATION Spec
CONSTANTS
    Count = 1
    Depth <- MCDepthTree
    Root <- MCRootTree
    Owned <- MCOwnedTree
    Size <- MCSizeOne
    Modes <- MCApply
    DepthLimit = 256
    Capacity = 67108864
    Limit <- MCLimitQuiet
INVARIANTS
    AlwaysPlannable
CHECK_DEADLOCK FALSE
