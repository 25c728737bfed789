SPECIFICATION Spec
CONSTANTS
    Count = 1
    Depth <- MCDepthDeep
    Root <- MCRootDeep
    Owned <- MCOwnedFile
    Size <- MCSizeOne
    Modes <- MCApply
    DepthLimit = 256
    Capacity = 67108864
    Limit <- MCLimitQuiet
INVARIANTS
    ReserveSuffices
CHECK_DEADLOCK FALSE
