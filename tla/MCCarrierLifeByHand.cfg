\* A stopped run, an install by hand, and an omission.
\* Every manifest may be blocked and every user done.
CHECK_DEADLOCK FALSE
SPECIFICATION Spec
CONSTANTS
  o1 = o1
  o2 = o2
  p1 = p1
  p2 = p2
  None = None
  Unknown = Unknown
  Owners <- OneOwner
  Globals <- OneOwner
  Pins <- OnePin
  Limit <- HandLimit
PROPERTIES
  OnlyOwnRemoved
