SPECIFICATION MCSpec
CONSTANTS
  Modules = {"storage", "vms", "nsg", "keyvault", "logs", "db", "governance", "appservices", "finops", "exposure_map", "entra_b2b", "entra", "identity_admin_posture", "tags", "diagnostic_coverage", "encryption_coverage", "azure_rbac_exposure", "private_link_coverage", "policy_compliance"}
  Copies = 2
  Rows = 3
  MaxRows = 2
  MaxPages = 2
  MaxResources = 2
  MaxFailures = 2
  None = None
INVARIANTS TypeOK UnreadNeverPasses PassIsEarned AlarmIsReal WorseNeverLooksBetter
CONSTRAINT FewFailures
CHECK_DEADLOCK FALSE
