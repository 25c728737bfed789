SPECIFICATION Spec
CONSTANTS
    Count = 1
    Depth <- MCDepthFile
    Root <- MCRootFile
    Owned <- MCOwnedFile
    Size <- MCSizeOne
    Modes <- MCRecover
    DepthLimit = 256
    Capacity = 67108864
    Limit <- MCLimitQuiet
INVARIANTS
    ReserveSuffices
CHECK_DEADLOCK FALSE
