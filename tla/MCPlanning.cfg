SPECIFICATION PlanningSpec
CHECK_DEADLOCK FALSE
CONSTANTS
    Nobody = Nobody
    foreign = foreign
    Limit <- MCLimit
    Works <- MCWorks
    Phases <- RecoveryPhases
    Direct = FALSE
INVARIANTS
    PlanCovered
    DirectoryOwned
    Conserved
PROPERTIES
    EffectsGuarded
