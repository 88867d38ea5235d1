SPECIFICATION FairSpec
CONSTANTS
  Scans = {s1}
  Messages = {m1, m2}
  Workers = {w1, w2}
  MaxDelivery = 2
  Malformed = {}
  Unledgered = {}
  OperatorTools = FALSE
  None = None
INVARIANTS TypeOK OneLiveAttempt TerminalAttemptWroteResult NoStrandedScan
PROPERTIES PublishedScanEnds
CHECK_DEADLOCK FALSE
