SPECIFICATION Spec
CONSTANTS
  Accounts = {a1, a2}
  Addresses = {e1, e2}
  Secrets = {s1, s2}
  Requests = {r1, r2}
  MaxTries = 1
  MaxFaults = 1
  MaxEdits = 1
  None = None
SYMMETRY Symmetry
PROPERTIES SingleUse VerifiedStays ProvenEnter
CHECK_DEADLOCK FALSE
