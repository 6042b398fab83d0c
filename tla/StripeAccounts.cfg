SPECIFICATION Spec
CONSTANTS
  Users = {u1, u2}
  Requests = {r1, r2}
  Ids = {i1, i2}
  Cards = {c1}
  SellerThreshold = 2
  BuyerThreshold = 1
  MaxOffences = 2
  MaxFaults = 1
  None = None
SYMMETRY Symmetry
INVARIANTS ThresholdActs CounterfeitSuspends OnboardedIsReady SavedCardsAreKept
PROPERTY OnlySaverDetaches
CHECK_DEADLOCK FALSE
