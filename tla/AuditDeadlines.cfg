SPECIFICATION FairSpec
CONSTANTS
  Checks = {headers, tls}
  Modules = {storage, vms}
  Retries = 1
INVARIANTS TypeOK EndsAsItWent
PROPERTIES ResultFinal NoAttemptAfterAbort AuditEnds
CHECK_DEADLOCK FALSE
