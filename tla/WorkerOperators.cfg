SPECIFICATION Spec
CONSTANTS
  Scans = {s1, s2}
  Messages = {m1, m2}
  Workers = {w1, w2}
  MaxDelivery = 2
  Malformed = {s2}
  Unledgered = {s2}
  OperatorTools = TRUE
  None = None
SYMMETRY Symmetry
INVARIANTS BillingFollowsOutcome
PROPERTIES OnlyOwnerFinishes ImplementsContract
CHECK_DEADLOCK FALSE
