SPECIFICATION FairSpec
CONSTANTS
  Sessions = {s1}
  Subscriptions = {u1, u2}
  Callers = {c1, c2}
  None = None
INVARIANTS TypeOK ActiveWasFound CountCovered
PROPERTIES ConsumedOnce SessionsSettle
CHECK_DEADLOCK FALSE
