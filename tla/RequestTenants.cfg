SPECIFICATION FairSpec
CONSTANTS
  Requests = {r1, r2}
  Tenants = {t1, t2}
  Payg = {t2}
  Keys = {k1}
  small = small
  large = large
  Prints = {small, large}
  Units <- UnitsOfTwo
  MaxUnits = 2
  Quota = 2
  ActiveLimit = 2
  MaxMonth = 2
  None = None
PROPERTIES RequestAnswered ImplementsAdmission
CHECK_DEADLOCK FALSE
