\* One order, two requests at a time.
CONSTANTS
  Orders = {o1}
  Requests = {r1, r2}
  Requested <- Schedules
  Past = {"verification_failed", "buyer_refused"}
  MaxIssues = 3
  MaxPlans = 3
  Resumed = {}
  None = None
SPECIFICATION Spec
SYMMETRY Symmetry
INVARIANTS
  StepsInOrder
  VerifiedIsEarned
  OfferedIsAccepted
  ScheduleOrdered
CHECK_DEADLOCK FALSE
