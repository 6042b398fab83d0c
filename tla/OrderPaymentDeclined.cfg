\* A declined attempt, then a successful one: the success is acknowledged and
\* recorded nowhere.
CONSTANTS
  Orders = {o1}
  Products = {p1}
  Buyers = {b1}
  Requests = {r1, r2}
  AdminTargets = {"collected"}
  Env = {"decline"}
  MaxFaults = 0
  None = None
SPECIFICATION Spec
INVARIANT CaptureAccounted
CHECK_DEADLOCK FALSE
