\* Two requests at a time on one order, one of which may die half way.
CONSTANTS
  Orders = {o1}
  Requests = {r1, r2}
  IssueIds = {i1}
  Threshold = 1
  MaxMissed = 1
  MaxFaults = 1
  None = None
SPECIFICATION Spec
SYMMETRY Symmetry
INVARIANTS
  PaidBeforeDelivery
  DeadIsNotPaid
  RefundIsReal
PROPERTIES
  LifeIsKept
CHECK_DEADLOCK FALSE
