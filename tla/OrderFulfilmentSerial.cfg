\* One request at a time, two of which die half way and may be made again.
CONSTANTS
  Orders = {o1}
  Requests = {r1}
  IssueIds = {i1, i2}
  Threshold = 2
  MaxMissed = 4
  MaxFaults = 2
  None = None
SPECIFICATION Spec
INVARIANTS
  RecordedIsReturned
  UncrossedOneOpenIssue
  OneOffence
  QuietIsConsistent
PROPERTIES
  MoneyIsHeld
CHECK_DEADLOCK FALSE
