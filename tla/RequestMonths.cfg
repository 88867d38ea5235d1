SPECIFICATION Spec
CONSTANTS
  Requests = {r1, r2, r3}
  Tenants = {t1}
  Payg = {}
  Keys = {k1}
  small = small
  large = large
  Prints = {small, large}
  Units <- UnitsOfTwo
  MaxUnits = 2
  Quota = 2
  ActiveLimit = 1
  MaxMonth = 2
  None = None
SYMMETRY Symmetry
INVARIANTS TypeOK QuotaNeverExceeded ActiveScansBounded AnswerMatches
PROPERTIES KeyDecidesOnce
CHECK_DEADLOCK FALSE
