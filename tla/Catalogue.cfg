SPECIFICATION Spec
CONSTANTS
  Users = {u1, u2}
  Products = {p1}
  Files = {f1, f2}
  Requests = {r1, r2, r3}
  Pictures = 2
  MaxFaults = 1
  None = None
SYMMETRY Symmetry
INVARIANTS NoOrphans PicturesStay ShownIsCount
PROPERTIES ChangesAreAtomic
CHECK_DEADLOCK FALSE
