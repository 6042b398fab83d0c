\* Two users, and one event announced three times, or once and pushed to three
\* devices in batches of two: see Either.
CONSTANTS
  Users = {u1, u2}
  Events = {e}
  Tokens = {t1, t2, t3}
  BatchSize = 2
  MaxAnnounced = 3
  MaxRemovals = 2
  MaxFaults = 1
  None = None
SPECIFICATION Spec
SYMMETRY Symmetry
CONSTRAINT Either
INVARIANTS ShownOnce PushedToOwner
PROPERTY ValidStay
CHECK_DEADLOCK FALSE
