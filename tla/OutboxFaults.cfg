SPECIFICATION FairSpec
CONSTANTS
  NumEvents = 2
  Publishers = {p1, p2}
  MaxAttempts = 2
  BatchSize = 2
  MaxFaults = 1
  None = None
INVARIANTS TypeOK PublishedWasSent ExclusiveClaim AttemptsBounded
PROPERTIES SentOrExhausted
CHECK_DEADLOCK FALSE
