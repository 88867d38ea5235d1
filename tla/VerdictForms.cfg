SPECIFICATION MCSpec
CONSTANTS
  Modules = {"azure_rbac_exposure"}
  Copies = 2
  Rows = 3
  MaxRows = 3
  MaxPages = 2
  MaxResources = 3
  MaxFailures = 2
  None = None
INVARIANTS PassedTextsHold
CONSTRAINT FewFailures
CHECK_DEADLOCK FALSE
