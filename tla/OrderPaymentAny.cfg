\* One order under everything the environment may do.
CONSTANTS
  Orders = {o1}
  Products = {p1}
  Buyers = {b1}
  Requests = {r1, r2}
  AdminTargets = {"secured", "collected", "cancelled"}
  Env = {"decline", "mismatch", "overlap", "edit"}
  MaxFaults = 1
  None = None
SPECIFICATION FairSpec
INVARIANTS
  DeadIsNotPaid
  RefundedAtStripe
  UsualCaptureAccounted
PROPERTIES
  CaptureSettles
  UnpaidIsRelisted
CHECK_DEADLOCK FALSE
