\* Two orders of one buyer for one listing, one after the other or both at once, and
\* a user who saved it.
CONSTANTS
  Orders = {o1, o2}
  b = b
  Buyer <- OneBuyer
  Seller = s
  Watchers = {w}
  Threshold = 2
  Followed <- EndsAndDeletions
  MaxDue = 2
  MaxSending = 3
  None = None
SPECIFICATION Spec
SYMMETRY Symmetry
CONSTRAINT Focus
INVARIANTS EndIsTold 
CHECK_DEADLOCK FALSE
