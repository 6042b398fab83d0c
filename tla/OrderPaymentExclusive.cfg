\* Three orders compete for one listing; nothing unusual happens but faults.
CONSTANTS
  Orders = {o1, o2, o3}
  Products = {p1}
  Buyers = {b1, b2}
  Requests = {r1, r2}
  AdminTargets = {"secured", "collected"}
  Env = {}
  MaxFaults = 1
  None = None
SPECIFICATION Spec
SYMMETRY Symmetry
PROPERTIES
  SoldInTurn
  DeadStaysDead
CHECK_DEADLOCK FALSE
