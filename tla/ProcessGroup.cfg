CONSTANTS
    Leader = leader
    Members = {m1}
    Natures = {"plain", "stubborn", "stuck", "privileged"}
    None = None
SPECIFICATION FairSpec
CHECK_DEADLOCK FALSE
INVARIANTS
    ReportTrue
    NoStraySignal
PROPERTIES
    Ends
