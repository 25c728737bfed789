\* Liveness with two manifests that share one relation at one pin.
\* Every manifest may be blocked and every user done.
CHECK_DEADLOCK FALSE
SPECIFICATION FairSpec
CONSTANTS
  o1 = o1
  o2 = o2
  p1 = p1
  p2 = p2
  None = None
  Unknown = Unknown
  Owners <- TwoOwners
  Globals <- TwoOwners
  Pins <- OnePin
  Limit <- FairLimit
PROPERTIES
  RemovalSettles
  InstallSettles
