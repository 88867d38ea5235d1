SPECIFICATION Spec
CONSTANTS
  Requests = {r1, r2}
  Tenants = {t1}
  Payg = {}
  Keys = {k1}
  small = small
  large = large
  Prints = {small}
  Units <- UnitsOfOne
  MaxUnits = 1
  Quota = 2
  ActiveLimit = 1
  MaxMonth = 1
  None = None

PROPERTIES SameRequestReplays
CHECK_DEADLOCK FALSE
