------------------------------ MODULE Scanners ------------------------------
(***************************************************************************)
(* What each scanner of scanners/azure/ makes of the resources it reads.   *)
(* A resource of a listing is a record: a field is one property the        *)
(* scanner looks at, "good" or "bad" as its documentation understands it,  *)
(* "absent" when Azure's reply leaves the property out, or "unlisted":     *)
(* bad, but given as a value the scanner does not compare with.  An        *)
(* operator XFindings gives, for one resource, the lists of details the    *)
(* scanner pushes it on; XChecks gives the severity of the FAILED check a  *)
(* non-empty list raises (a list with a WARNING check, or with none, is    *)
(* not in its domain).                                                     *)
(***************************************************************************)
EXTENDS Naturals, Sequences, FiniteSets

Good(v) == v = "good"
Bad(v) == v = "bad"

(***************************************************************************)
(* Scanners that list resources subscription by subscription.              *)
(***************************************************************************)
\* A missing publicNetworkAccess reads as Enabled, a missing defaultAction as
\* Allow; the other properties count only when they are set.
StorageFindings(a) ==
  [ publicStorage |-> ~Good(a.network) /\ ~Good(a.acl),
    plainTransfer |-> Bad(a.https),
    noEndpoint    |-> ~Good(a.network) /\ ~Good(a.endpoint),
    publicBlob    |-> Bad(a.blob),
    sharedKey     |-> Bad(a.key),
    weakTls       |-> Bad(a.tls),
    localUsers    |-> Bad(a.users) ]

StorageChecks ==
  [ publicStorage |-> "HIGH", plainTransfer |-> "HIGH", noEndpoint |-> "MEDIUM",
    publicBlob |-> "HIGH", sharedKey |-> "MEDIUM", weakTls |-> "MEDIUM",
    localUsers |-> "MEDIUM" ]

\* The ports of a rule are compared with 22, 3389 and *: a range that contains
\* one of them, or a list of ranges, is "unlisted".
VmFindings(m) ==
  [ adminPorts |-> Bad(m.ports),
    plainDisk  |-> Bad(m.disk),
    noLaunch   |-> ~Good(m.launch),
    noIdentity |-> ~Good(m.identity),
    password   |-> ~Good(m.password) ]

VmChecks ==
  [ adminPorts |-> "CRITICAL", plainDisk |-> "HIGH", noLaunch |-> "MEDIUM",
    noIdentity |-> "LOW", password |-> "MEDIUM" ]

\* Mutant: a wildcard rule is left to a list it does not fit.
NsgFindingsOverlooked(r) ==
  [ sshRdp |-> Bad(r.source) /\ Bad(r.management),
    anyPort |-> Bad(r.source) /\ Bad(r.wildcard) /\ Bad(r.management),
    database |-> Bad(r.source) /\ Bad(r.dbPort) /\ ~Bad(r.wildcard) ]

\* One inbound allow rule: the first of the three lists that fits takes it.  Its
\* ports are compared one by one with 22 and 3389, with * and with those of the
\* databases, its source with *, Internet and 0.0.0.0/0: a range of ports such
\* as 20-25 or 0-65535, or the source ::/0, is "unlisted".
NsgFindings(r) ==
  [ sshRdp      |-> Bad(r.source) /\ Bad(r.management),
    anyPort     |-> Bad(r.source) /\ Bad(r.wildcard) /\ ~Bad(r.management),
    database    |-> /\ Bad(r.source) /\ Bad(r.dbPort)
                    /\ ~Bad(r.wildcard) /\ ~Bad(r.management) ]

NsgChecks == [ sshRdp |-> "CRITICAL", database |-> "HIGH", anyPort |-> "HIGH" ]

KeyVaultFindings(v) ==
  [ publicVault |-> ~Good(v.access) /\ ~Good(v.acl),
    noPurge     |-> ~Good(v.purge),
    noSoft      |-> ~Good(v.soft),
    noPrivate   |-> ~Good(v.private),
    noRbac      |-> ~Good(v.rbac) ]

KeyVaultChecks ==
  [ publicVault |-> "CRITICAL", noPurge |-> "HIGH", noSoft |-> "MEDIUM" ]

\* A workspace without a retention counts as kept for 30 days.
LogFindings(w) == [ shortRetention |-> ~Good(w.retention) ]

LogChecks == [ noWorkspace |-> "HIGH", shortRetention |-> "MEDIUM" ]

\* The firewall rules are read only for a server open to the public network.
SqlFindings(s) ==
  [ oldTls        |-> ~Good(s.tls),
    publicDb      |-> ~Good(s.access),
    azureServices |-> ~Good(s.access) /\ Bad(s.firewall) ]

PostgresFindings(s) ==
  [ publicDb      |-> Bad(s.access),
    azureServices |-> Bad(s.access) /\ Bad(s.firewall) ]

DbChecks ==
  [ publicDb |-> "CRITICAL", azureServices |-> "HIGH", oldTls |-> "MEDIUM" ]

DefenderFindings(s) == [ noDefender |-> ~Good(s.plan) ]

PolicyFindings(s) == [ noInitiative |-> ~Good(s.initiative) ]

GovernanceChecks == [ noDefender |-> "HIGH", noInitiative |-> "MEDIUM" ]

AppFindings(a) ==
  [ plainHttp |-> Bad(a.https),
    ftp       |-> ~Good(a.ftps),
    basicAuth |-> ~Good(a.basic) ]

AppChecks == [ plainHttp |-> "HIGH", ftp |-> "MEDIUM", basicAuth |-> "HIGH" ]

DiskFindings(d) == [ orphanDisk |-> Bad(d.attached) ]
IpFindings(i) == [ looseIp |-> ~Good(i.attached) ]
PlanFindings(p) == [ emptyPlan |-> Bad(p.sites) ]
PowerFindings(m) == [ stoppedVm |-> Bad(m.power) ]

FinOpsChecks ==
  [ orphanDisk |-> "MEDIUM", looseIp |-> "LOW", emptyPlan |-> "MEDIUM",
    stoppedVm |-> "HIGH" ]

(***************************************************************************)
(* Scanners of the directory of the tenant.                                *)
(***************************************************************************)
\* A guest's MFA methods are read one guest at a time.
GuestFindings(g) == [ staleGuest |-> Bad(g.signIn), noGuestMfa |-> ~Good(g.mfa) ]
GuestRoleFindings(r) == [ guestAdmin |-> Bad(r.admin) ]

GuestChecks == [ staleGuest |-> "MEDIUM", guestAdmin |-> "CRITICAL" ]

\* Without a policy, whether the tenant has none or the read failed, neither
\* requirement is met.
PolicySetFindings(c) == [ noMfaPolicy |-> ~Good(c.mfa), legacyAuth |-> ~Good(c.legacy) ]
AdminFindings(a) == [ manyAdmins |-> Bad(a.number), guestGlobal |-> Bad(a.guest) ]
UserFindings(u) == [ stalePassword |-> Bad(u.password), dormant |-> ~Good(u.signIn) ]
MfaFindings(u) == [ unregistered |-> Bad(u.registered) ]
SignInFindings(s) == [ highRisk |-> Bad(s.risk) ]

EntraChecks ==
  [ noMfaPolicy |-> "CRITICAL", legacyAuth |-> "HIGH", manyAdmins |-> "MEDIUM",
    guestGlobal |-> "HIGH", stalePassword |-> "MEDIUM", dormant |-> "LOW",
    unregistered |-> "HIGH", highRisk |-> "HIGH" ]

\* A member without a line in the registration report counts as without MFA.
MemberFindings(u) ==
  [ adminNoMfa    |-> ~Good(u.mfa),
    guestAdmin    |-> Bad(u.guest),
    dormantAdmin  |-> ~Good(u.signIn),
    staleAdmin    |-> Bad(u.password) ]

AdminChecks == [ adminNoMfa |-> "CRITICAL" ]

(***************************************************************************)
(* Scanners that ask Resource Graph.                                       *)
(***************************************************************************)
TagFindings(r) ==
  [ untagged     |-> ~Good(r.tags),
    noMandatory  |-> Good(r.tags) /\ ~Good(r.mandatory) ]

TagChecks == [ untagged |-> "MEDIUM", noMandatory |-> "HIGH" ]

DiagnosticFindings(r) == [ noDiagnostics |-> ~Good(r.setting) ]
DiagnosticChecks == [ noDiagnostics |-> "HIGH" ]

\* A PostgreSQL server whose reply says nothing of its encryption ("absent")
\* counts as unknown, a storage account, a disk or a key vault in that case as
\* encrypted ("good"); a SQL server is not supported and counts nowhere.
evaluateEncryption(r) ==
  [ plainAtRest |-> Bad(r.encryption), unknownAtRest |-> r.encryption = "absent" ]
EncryptionChecks == [ plainAtRest |-> "HIGH" ]

\* role is "bad" for Contributor and User Access Administrator, and "unlisted"
\* for Owner: its id in HIGH_PRIVILEGE_ROLE_IDS has a digit too many, and no role
\* definition of Azure has that id.
classifyRole(role) == role = "bad"

AssignmentFindings(a) ==
  [ privileged |-> classifyRole(a.role),
    broad      |-> classifyRole(a.role) /\ Bad(a.scope),
    unknownWho |-> classifyRole(a.role) /\ ~Good(a.principal) ]
AssignmentChecks == [ broad |-> "HIGH" ]

\* Its check is a WARNING.
PrivateLinkFindings(r) == [ noPrivateLink |-> ~Good(r.private) ]

PolicyStateFindings(s) == [ nonCompliant |-> Bad(s.state) ]
PolicyStateChecks == [ nonCompliant |-> "MEDIUM" ]

(***************************************************************************)
(* The scanners themselves: the listings each reads in order, the severity *)
(* of its checks, what getAnalyzedCount finds in its result, and when the  *)
(* status it gives itself is not SUCCESS (ModuleAudit!RawStatus).          *)
(***************************************************************************)
Scanner(reads, checks, counts, fails) ==
  [reads |-> reads, checks |-> checks, counts |-> counts, fails |-> fails]

\* detail: the properties read by a request of their own for each resource, and
\* what such a request leaves them at when it fails; recorded: the failure is
\* then in details.partialErrors; streamed: processed while it is read, so that
\* a listing that fails after a resource keeps what it gave.
Collected(listing, detail) ==
  [listing |-> listing, detail |-> detail, recorded |-> TRUE, streamed |-> FALSE]
Streamed(listing, detail) == [Collected(listing, detail) EXCEPT !.streamed = TRUE]
Silent(reading) == [reading EXCEPT !.recorded = FALSE]

auditStorage ==
  Scanner(<<Streamed("storage", [endpoint |-> "bad"])>>, StorageChecks, "resources", "never")
auditVMs ==
  Scanner(<<Silent(Streamed("vms", [ports |-> "good"]))>>, VmChecks, "resources", "never")
auditNsg == Scanner(<<Streamed("nsg", << >>)>>, NsgChecks, "resources", "nothing read")
auditKeyVault ==
  Scanner(<<Streamed("keyvault", << >>)>>, KeyVaultChecks, "resources", "nothing read")
auditLogs == Scanner(<<Collected("logs", << >>)>>, LogChecks, "resources", "nothing analysed")
auditDb ==
  Scanner(<<Streamed("sql", [firewall |-> "good"]), Collected("postgres", [firewall |-> "good"])>>,
          DbChecks, "resources", "nothing analysed")
auditGovernance ==
  Scanner(<<Collected("defender", << >>), Collected("policy", << >>)>>, GovernanceChecks,
          "subscriptions", "nothing found")
auditAppServices ==
  Scanner(<<Silent(Collected("apps", [ftps |-> "good", basic |-> "good"]))>>, AppChecks,
          "resources", "nothing analysed")
auditFinOps ==
  Scanner(<<Collected("disks", << >>), Collected("ips", << >>), Collected("plans", << >>),
            Silent(Collected("power", [power |-> "good"]))>>, FinOpsChecks, "nothing", "never")

\* Guests are kept page by page; they are counted once all pages are read.
auditEntraB2B ==
  Scanner(<<Streamed("guests", [mfa |-> "good"]), Collected("guestRoles", << >>)>>, GuestChecks,
          "guests", "never")
auditEntraID ==
  Scanner(<<Collected("policySet", << >>), Collected("admins", << >>), Collected("users", << >>),
            Collected("mfa", << >>), Collected("signIns", << >>)>>, EntraChecks, "resources", "never")
auditIdentityAdminPosture ==
  Scanner(<<Collected("members", << >>)>>, AdminChecks, "nothing", "nothing processed")

\* The Resource Graph scanners read the rows of one query.
Graph(listing, checks, fails) ==
  Scanner(<<Collected(listing, << >>)>>, checks, "resources", fails)

auditTags == Graph("tags", TagChecks, "query failed")
auditDiagnosticCoverage == Graph("diagnostics", DiagnosticChecks, "nothing analysed")
auditEncryptionCoverage == Graph("encryption", EncryptionChecks, "nothing analysed")
auditAzureRbacExposure == Graph("assignments", AssignmentChecks, "nothing analysed")
auditPrivateLinkCoverage == Graph("links", << >>, "nothing analysed")
auditPolicyCompliance == Graph("states", PolicyStateChecks, "nothing analysed")

ExposureChecks ==
  [ publicStorage |-> "HIGH", publicBlob |-> "HIGH", publicVault |-> "CRITICAL",
    publicDb |-> "CRITICAL", adminPorts |-> "CRITICAL", sshRdp |-> "HIGH",
    database |-> "HIGH", anyPort |-> "HIGH", plainHttp |-> "HIGH" ]

\* Runs six scanners again and keeps what exposes a resource.
auditExposureMap ==
  Scanner(auditStorage.reads \o auditNsg.reads \o auditKeyVault.reads \o auditDb.reads
            \o auditAppServices.reads \o auditVMs.reads, ExposureChecks, "nothing", "partial")

ModuleNames ==
  { "storage", "vms", "nsg", "keyvault", "logs", "db", "governance", "appservices", "finops",
    "exposure_map", "entra_b2b", "entra", "identity_admin_posture", "tags",
    "diagnostic_coverage", "encryption_coverage", "azure_rbac_exposure",
    "private_link_coverage", "policy_compliance" }

ScannerOf(m) ==
  CASE m = "storage" -> auditStorage         [] m = "vms" -> auditVMs
    [] m = "nsg" -> auditNsg                 [] m = "keyvault" -> auditKeyVault
    [] m = "logs" -> auditLogs               [] m = "db" -> auditDb
    [] m = "governance" -> auditGovernance   [] m = "appservices" -> auditAppServices
    [] m = "finops" -> auditFinOps           [] m = "exposure_map" -> auditExposureMap
    [] m = "entra_b2b" -> auditEntraB2B      [] m = "entra" -> auditEntraID
    [] m = "identity_admin_posture" -> auditIdentityAdminPosture
    [] m = "tags" -> auditTags
    [] m = "diagnostic_coverage" -> auditDiagnosticCoverage
    [] m = "encryption_coverage" -> auditEncryptionCoverage
    [] m = "azure_rbac_exposure" -> auditAzureRbacExposure
    [] m = "private_link_coverage" -> auditPrivateLinkCoverage
    [] m = "policy_compliance" -> auditPolicyCompliance

Fields ==
  [ storage |-> {"network", "acl", "https", "endpoint", "blob", "key", "tls", "users"},
    vms |-> {"ports", "disk", "launch", "identity", "password"},
    nsg |-> {"source", "management", "wildcard", "dbPort"},
    keyvault |-> {"access", "acl", "purge", "soft", "private", "rbac"},
    logs |-> {"retention"}, sql |-> {"tls", "access", "firewall"},
    postgres |-> {"access", "firewall"}, defender |-> {"plan"}, policy |-> {"initiative"},
    apps |-> {"https", "ftps", "basic"}, disks |-> {"attached"}, ips |-> {"attached"},
    plans |-> {"sites"}, power |-> {"power"}, guests |-> {"signIn", "mfa"},
    guestRoles |-> {"admin"}, policySet |-> {"mfa", "legacy"},
    admins |-> {"number", "guest"}, users |-> {"password", "signIn"},
    mfa |-> {"registered"}, signIns |-> {"risk"},
    members |-> {"mfa", "guest", "signIn", "password"}, tags |-> {"tags", "mandatory"},
    diagnostics |-> {"setting"}, encryption |-> {"encryption"},
    assignments |-> {"role", "scope", "principal"}, links |-> {"private"},
    states |-> {"state"} ]

Values == {"good", "bad", "absent", "unlisted", "unsupported"}

\* The values of a property: some may be bad in a form the scanner does not know,
\* and the encryption of a SQL server is not looked at.
ValuesOf(f) ==
  {"good", "bad", "absent"}
    \cup (IF f \in {"role", "ports", "source", "management", "wildcard", "dbPort"}
          THEN {"unlisted"} ELSE {})
    \cup (IF f = "encryption" THEN {"unsupported"} ELSE {})

FindingsOf(l, r) ==
  CASE l = "storage" -> StorageFindings(r)     [] l = "vms" -> VmFindings(r)
    [] l = "nsg" -> NsgFindings(r)             [] l = "keyvault" -> KeyVaultFindings(r)
    [] l = "logs" -> LogFindings(r)            [] l = "sql" -> SqlFindings(r)
    [] l = "postgres" -> PostgresFindings(r)   [] l = "defender" -> DefenderFindings(r)
    [] l = "policy" -> PolicyFindings(r)       [] l = "apps" -> AppFindings(r)
    [] l = "disks" -> DiskFindings(r)          [] l = "ips" -> IpFindings(r)
    [] l = "plans" -> PlanFindings(r)          [] l = "power" -> PowerFindings(r)
    [] l = "guests" -> GuestFindings(r)        [] l = "guestRoles" -> GuestRoleFindings(r)
    [] l = "policySet" -> PolicySetFindings(r) [] l = "admins" -> AdminFindings(r)
    [] l = "users" -> UserFindings(r)          [] l = "mfa" -> MfaFindings(r)
    [] l = "signIns" -> SignInFindings(r)      [] l = "members" -> MemberFindings(r)
    [] l = "tags" -> TagFindings(r)            [] l = "diagnostics" -> DiagnosticFindings(r)
    [] l = "encryption" -> evaluateEncryption(r)
    [] l = "assignments" -> AssignmentFindings(r)
    [] l = "links" -> PrivateLinkFindings(r)   [] l = "states" -> PolicyStateFindings(r)

Findings(l, r) == LET f == FindingsOf(l, r) IN {k \in DOMAIN f : f[k]}

\* The severities of the FAILED checks raised by the findings of a module (the
\* one check of the exposure map is CRITICAL or HIGH: the posture is the same).
FailedChecks(m, kinds) ==
  LET checks == ScannerOf(m).checks IN {checks[k] : k \in kinds \cap DOMAIN checks}

\* What a report read once for all resources leaves a property at when it fails:
\* the MFA registrations of the members, the diagnostic settings.
ReportLost ==
  [ members |-> [mfa |-> "absent"], diagnostics |-> [setting |-> "absent"] ]

\* The findings of a listing that turned out empty.
NothingThere(l) ==
  CASE l = "logs" -> {"noWorkspace"}
    [] l = "policySet" -> {"noMfaPolicy", "legacyAuth"}
    [] OTHER -> {}

(***************************************************************************)
(* The KPIs of module-enhancers.js and of the Resource Graph scanners, on  *)
(* the number of findings of some kinds: coverage KPIs against the number  *)
(* of resources analysed, risk counts on their own.  ENTRA_MFA_USER_       *)
(* COVERAGE, which divides one listing by another, is left out, and too    *)
(* many administrators are one finding, whatever their number.             *)
(***************************************************************************)
Coverage(kinds, warning, critical) ==
  [share |-> TRUE, of |-> kinds, warning |-> warning, critical |-> critical]
Risk(kinds, warning, critical) ==
  [share |-> FALSE, of |-> kinds, warning |-> warning, critical |-> critical]

enhanceStorage ==
  { Coverage({"publicStorage"}, 95, 85), Coverage({"publicBlob"}, 98, 90),
    Coverage({"sharedKey"}, 90, 70), Coverage({"weakTls"}, 99, 90),
    Coverage({"localUsers"}, 95, 85) }
enhanceLogs == {Risk({"noWorkspace"}, 1, 3), Coverage({"shortRetention"}, 95, 80)}
enhanceVms ==
  { Coverage({"plainDisk"}, 99, 95), Coverage({"noLaunch"}, 80, 50),
    Coverage({"noIdentity"}, 70, 40), Risk({"adminPorts"}, 1, 1) }
enhanceNsg ==
  {Coverage({"sshRdp", "database", "anyPort"}, 95, 85), Risk({"sshRdp"}, 1, 1)}
enhanceKeyVault ==
  { Coverage({"publicVault"}, 100, 95), Coverage({"noPurge"}, 100, 90),
    Coverage({"noPrivate"}, 80, 50), Coverage({"noRbac"}, 80, 50) }
enhanceDb ==
  { Coverage({"publicDb"}, 95, 80), Coverage({"oldTls"}, 100, 90),
    Risk({"azureServices"}, 1, 3) }
enhanceGovernance ==
  {Coverage({"noDefender"}, 90, 70), Coverage({"noInitiative"}, 90, 70)}
enhanceAppServices ==
  { Coverage({"plainHttp"}, 98, 90), Coverage({"basicAuth"}, 95, 85),
    Coverage({"ftp"}, 95, 85) }
enhanceEntra ==
  {Risk({"manyAdmins"}, 1, 1), Risk({"dormant"}, 1, 25), Risk({"highRisk"}, 1, 1)}
enhanceEntraB2B ==
  { Coverage({"noGuestMfa"}, 95, 85), Risk({"staleGuest"}, 1, 25),
    Risk({"guestAdmin"}, 1, 1) }
enhanceFinOps == {Risk({"orphanDisk"}, 1, 25), Risk({"looseIp"}, 1, 25)}

KpisOf(m) ==
  CASE m = "storage" -> enhanceStorage        [] m = "logs" -> enhanceLogs
    [] m = "vms" -> enhanceVms                [] m = "nsg" -> enhanceNsg
    [] m = "keyvault" -> enhanceKeyVault      [] m = "db" -> enhanceDb
    [] m = "governance" -> enhanceGovernance  [] m = "appservices" -> enhanceAppServices
    [] m = "entra" -> enhanceEntra            [] m = "entra_b2b" -> enhanceEntraB2B
    [] m = "finops" -> enhanceFinOps
    [] m = "exposure_map" ->
         { Risk(DOMAIN ExposureChecks, 1, 5), Risk({"adminPorts"}, 1, 1),
           Risk({"publicStorage", "publicVault", "publicDb"}, 1, 3) }
    [] m = "identity_admin_posture" ->
         { Coverage({"adminNoMfa"}, 100, 95), Risk({"dormantAdmin"}, 1, 5),
           Risk({"guestAdmin"}, 1, 1) }
    [] m = "diagnostic_coverage" ->
         {Coverage({"noDiagnostics"}, 90, 70), Risk({"noDiagnostics"}, 1, 10)}
    [] m = "encryption_coverage" ->
         { Coverage({"plainAtRest", "unknownAtRest"}, 95, 85),
           Risk({"unknownAtRest"}, 1, 20) }
    [] m = "azure_rbac_exposure" ->
         {Coverage({"privileged"}, 90, 70), Risk({"broad"}, 1, 5)}
    [] m = "private_link_coverage" ->
         {Coverage({"noPrivateLink"}, 80, 50), Risk({"noPrivateLink"}, 1, 10)}
    [] m = "policy_compliance" ->
         {Coverage({"nonCompliant"}, 90, 70), Risk({"nonCompliant"}, 1, 100)}
    [] OTHER -> {}
=============================================================================
