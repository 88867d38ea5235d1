--------------------------- MODULE ScannersProofs ---------------------------
(***************************************************************************)
(* Lemmas about the tables of Scanners: the listings a scanner reads, what *)
(* it finds in a resource with nothing wrong (nothing) and in one with a   *)
(* defect (a failed check), and the thresholds of the KPIs.                *)
(*                                                                         *)
(* A table that is a CASE, or a record of them, is first turned into       *)
(* equalities (ScannersAre, ListingFindings, ChecksAre): the provers       *)
(* reason about those where they do not about the CASE itself.             *)
(***************************************************************************)
EXTENDS Scanners, TLAPS

-----------------------------------------------------------------------------
(* What the scanners read.                                                 *)

\* The listings of each module.
Listings ==
  [ storage |-> {"storage"}, vms |-> {"vms"}, nsg |-> {"nsg"}, keyvault |-> {"keyvault"},
    logs |-> {"logs"}, db |-> {"sql", "postgres"}, governance |-> {"defender", "policy"},
    appservices |-> {"apps"}, finops |-> {"disks", "ips", "plans", "power"},
    exposure_map |-> {"storage", "nsg", "keyvault", "sql", "postgres", "apps", "vms"},
    entra_b2b |-> {"guests", "guestRoles"},
    entra |-> {"policySet", "admins", "users", "mfa", "signIns"},
    identity_admin_posture |-> {"members"}, tags |-> {"tags"},
    diagnostic_coverage |-> {"diagnostics"}, encryption_coverage |-> {"encryption"},
    azure_rbac_exposure |-> {"assignments"}, private_link_coverage |-> {"links"},
    policy_compliance |-> {"states"} ]

LEMMA ScannersAre ==
  /\ ScannerOf("storage") = auditStorage /\ ScannerOf("vms") = auditVMs
  /\ ScannerOf("nsg") = auditNsg /\ ScannerOf("keyvault") = auditKeyVault
  /\ ScannerOf("logs") = auditLogs /\ ScannerOf("db") = auditDb
  /\ ScannerOf("governance") = auditGovernance /\ ScannerOf("appservices") = auditAppServices
  /\ ScannerOf("finops") = auditFinOps /\ ScannerOf("exposure_map") = auditExposureMap
  /\ ScannerOf("entra_b2b") = auditEntraB2B /\ ScannerOf("entra") = auditEntraID
  /\ ScannerOf("identity_admin_posture") = auditIdentityAdminPosture
  /\ ScannerOf("tags") = auditTags
  /\ ScannerOf("diagnostic_coverage") = auditDiagnosticCoverage
  /\ ScannerOf("encryption_coverage") = auditEncryptionCoverage
  /\ ScannerOf("azure_rbac_exposure") = auditAzureRbacExposure
  /\ ScannerOf("private_link_coverage") = auditPrivateLinkCoverage
  /\ ScannerOf("policy_compliance") = auditPolicyCompliance
  BY DEF ScannerOf

LEMMA ReadingListings ==
  ASSUME NEW l, NEW d
  PROVE  /\ Collected(l, d).listing = l /\ Streamed(l, d).listing = l
         /\ Silent(Collected(l, d)).listing = l /\ Silent(Streamed(l, d)).listing = l
  BY DEF Collected, Streamed, Silent

LEMMA SubscriptionReads ==
  /\ Len(auditStorage.reads) = 1 /\ auditStorage.reads[1].listing = "storage"
  /\ Len(auditVMs.reads) = 1 /\ auditVMs.reads[1].listing = "vms"
  /\ Len(auditNsg.reads) = 1 /\ auditNsg.reads[1].listing = "nsg"
  /\ Len(auditKeyVault.reads) = 1 /\ auditKeyVault.reads[1].listing = "keyvault"
  /\ Len(auditLogs.reads) = 1 /\ auditLogs.reads[1].listing = "logs"
  /\ auditLogs.reads[1].recorded = TRUE
  /\ Len(auditDb.reads) = 2
  /\ auditDb.reads[1].listing = "sql" /\ auditDb.reads[2].listing = "postgres"
  /\ Len(auditGovernance.reads) = 2
  /\ auditGovernance.reads[1].listing = "defender" /\ auditGovernance.reads[2].listing = "policy"
  /\ Len(auditAppServices.reads) = 1 /\ auditAppServices.reads[1].listing = "apps"
  /\ Len(auditFinOps.reads) = 4
  /\ auditFinOps.reads[1].listing = "disks" /\ auditFinOps.reads[2].listing = "ips"
  /\ auditFinOps.reads[3].listing = "plans" /\ auditFinOps.reads[4].listing = "power"
  BY DEF auditStorage, auditVMs, auditNsg, auditKeyVault, auditLogs, auditDb, auditGovernance,
     auditAppServices, auditFinOps, Scanner, Collected, Streamed, Silent

LEMMA TenantReads ==
  /\ Len(auditEntraB2B.reads) = 2
  /\ auditEntraB2B.reads[1].listing = "guests" /\ auditEntraB2B.reads[2].listing = "guestRoles"
  /\ Len(auditEntraID.reads) = 5
  /\ auditEntraID.reads[1].listing = "policySet" /\ auditEntraID.reads[2].listing = "admins"
  /\ auditEntraID.reads[3].listing = "users" /\ auditEntraID.reads[4].listing = "mfa"
  /\ auditEntraID.reads[5].listing = "signIns"
  /\ Len(auditIdentityAdminPosture.reads) = 1
  /\ auditIdentityAdminPosture.reads[1].listing = "members"
  BY DEF auditEntraB2B, auditEntraID, auditIdentityAdminPosture, Scanner, Collected, Streamed

LEMMA GraphReads ==
  /\ Len(auditTags.reads) = 1 /\ auditTags.reads[1].listing = "tags"
  /\ Len(auditDiagnosticCoverage.reads) = 1
  /\ auditDiagnosticCoverage.reads[1].listing = "diagnostics"
  /\ Len(auditEncryptionCoverage.reads) = 1
  /\ auditEncryptionCoverage.reads[1].listing = "encryption"
  /\ Len(auditAzureRbacExposure.reads) = 1
  /\ auditAzureRbacExposure.reads[1].listing = "assignments"
  /\ Len(auditPrivateLinkCoverage.reads) = 1
  /\ auditPrivateLinkCoverage.reads[1].listing = "links"
  /\ Len(auditPolicyCompliance.reads) = 1 /\ auditPolicyCompliance.reads[1].listing = "states"
  BY DEF auditTags, auditDiagnosticCoverage, auditEncryptionCoverage, auditAzureRbacExposure,
     auditPrivateLinkCoverage, auditPolicyCompliance, Graph, Scanner, Collected

\* Every reading of a scanner, of which there are some, is of a listing of its module.
ReadsListings(m) ==
  LET reads == ScannerOf(m).reads IN
  /\ Len(reads) \in Nat \ {0}
  /\ \A i \in 1..Len(reads) : reads[i].listing \in Listings[m]

LEMMA ExposureReads == ReadsListings("exposure_map")
  <1>. DEFINE a == Streamed("storage", [endpoint |-> "bad"])
              b == Streamed("nsg", << >>)
              c == Streamed("keyvault", << >>)
              d == Streamed("sql", [firewall |-> "good"])
              e == Collected("postgres", [firewall |-> "good"])
              f == Silent(Collected("apps", [ftps |-> "good", basic |-> "good"]))
              g == Silent(Streamed("vms", [ports |-> "good"]))
              reads == auditExposureMap.reads
  <1>1. reads = <<a>> \o <<b>> \o <<c>> \o <<d, e>> \o <<f>> \o <<g>>
    BY DEF auditExposureMap, auditStorage, auditNsg, auditKeyVault, auditDb, auditAppServices,
         auditVMs, Scanner
  <1>2. \A x \in {a, b, c, d, e, f, g} : x.listing \in Listings["exposure_map"]
    BY ReadingListings DEF Listings
  <1>. HIDE DEF a, b, c, d, e, f, g, reads
  <1>3. Len(reads) = 7 /\ \A i \in 1..7 : reads[i] \in {a, b, c, d, e, f, g}
    BY <1>1
  <1>4. ScannerOf("exposure_map").reads = reads
    BY ScannersAre DEF reads
  <1>5. 7 \in Nat \ {0} /\ \A i \in 1..7 : reads[i].listing \in Listings["exposure_map"]
    BY <1>2, <1>3
  <1>. QED BY <1>3, <1>4, <1>5 DEF ReadsListings

LEMMA AllReads ==
  ASSUME NEW m \in ModuleNames
  PROVE  ReadsListings(m)
  <1>1. CASE m \in {"storage", "vms", "nsg"}
    BY <1>1, ScannersAre, SubscriptionReads DEF ReadsListings, Listings
  <1>2. CASE m \in {"keyvault", "logs", "appservices"}
    BY <1>2, ScannersAre, SubscriptionReads DEF ReadsListings, Listings
  <1>3. CASE m \in {"db", "governance"}
    BY <1>3, ScannersAre, SubscriptionReads DEF ReadsListings, Listings
  <1>4. CASE m = "finops"
    BY <1>4, ScannersAre, SubscriptionReads DEF ReadsListings, Listings
  <1>5. CASE m \in {"entra_b2b", "identity_admin_posture"}
    BY <1>5, ScannersAre, TenantReads DEF ReadsListings, Listings
  <1>6. CASE m = "entra"
    BY <1>6, ScannersAre, TenantReads DEF ReadsListings, Listings
  <1>7. CASE m \in {"tags", "diagnostic_coverage", "encryption_coverage"}
    BY <1>7, ScannersAre, GraphReads DEF ReadsListings, Listings
  <1>8. CASE m \in {"azure_rbac_exposure", "private_link_coverage", "policy_compliance"}
    BY <1>8, ScannersAre, GraphReads DEF ReadsListings, Listings
  <1>. QED
    BY <1>1, <1>2, <1>3, <1>4, <1>5, <1>6, <1>7, <1>8, ExposureReads DEF ModuleNames

-----------------------------------------------------------------------------
(* What they find in a resource with nothing wrong.                        *)

LEMMA ListingFindings ==
  ASSUME NEW r
  PROVE  /\ FindingsOf("storage", r) = StorageFindings(r)
         /\ FindingsOf("vms", r) = VmFindings(r)
         /\ FindingsOf("nsg", r) = NsgFindings(r)
         /\ FindingsOf("keyvault", r) = KeyVaultFindings(r)
         /\ FindingsOf("logs", r) = LogFindings(r)
         /\ FindingsOf("sql", r) = SqlFindings(r)
         /\ FindingsOf("postgres", r) = PostgresFindings(r)
         /\ FindingsOf("defender", r) = DefenderFindings(r)
         /\ FindingsOf("policy", r) = PolicyFindings(r)
         /\ FindingsOf("apps", r) = AppFindings(r)
         /\ FindingsOf("disks", r) = DiskFindings(r)
         /\ FindingsOf("ips", r) = IpFindings(r)
         /\ FindingsOf("plans", r) = PlanFindings(r)
         /\ FindingsOf("power", r) = PowerFindings(r)
         /\ FindingsOf("guests", r) = GuestFindings(r)
         /\ FindingsOf("guestRoles", r) = GuestRoleFindings(r)
         /\ FindingsOf("policySet", r) = PolicySetFindings(r)
         /\ FindingsOf("admins", r) = AdminFindings(r)
         /\ FindingsOf("users", r) = UserFindings(r)
         /\ FindingsOf("mfa", r) = MfaFindings(r)
         /\ FindingsOf("signIns", r) = SignInFindings(r)
         /\ FindingsOf("members", r) = MemberFindings(r)
         /\ FindingsOf("tags", r) = TagFindings(r)
         /\ FindingsOf("diagnostics", r) = DiagnosticFindings(r)
         /\ FindingsOf("encryption", r) = evaluateEncryption(r)
         /\ FindingsOf("assignments", r) = AssignmentFindings(r)
         /\ FindingsOf("links", r) = PrivateLinkFindings(r)
         /\ FindingsOf("states", r) = PolicyStateFindings(r)
  BY DEF FindingsOf

\* A resource with nothing wrong is on no list of any scanner: the default each
\* scanner reads for a property never turns one that is good into a finding.
THEOREM GoodFindsNothing ==
  ASSUME NEW l \in DOMAIN Fields, NEW r, \A f \in Fields[l] : r[f] = "good"
  PROVE  Findings(l, r) = {}
  <1>. DEFINE found == FindingsOf(l, r)
  <1>1. CASE l = "storage"
    <2>1. found =
          [publicStorage |-> FALSE, plainTransfer |-> FALSE, noEndpoint |-> FALSE, publicBlob |-> FALSE,
           sharedKey |-> FALSE, weakTls |-> FALSE, localUsers |-> FALSE]
      BY <1>1, ListingFindings DEF StorageFindings, Good, Bad, Fields
    <2>. QED BY <2>1 DEF Findings
  <1>2. CASE l = "vms"
    <2>1. found =
          [adminPorts |-> FALSE, plainDisk |-> FALSE, noLaunch |-> FALSE,
           noIdentity |-> FALSE, password |-> FALSE]
      BY <1>2, ListingFindings DEF VmFindings, Good, Bad, Fields
    <2>. QED BY <2>1 DEF Findings
  <1>3. CASE l = "nsg"
    <2>1. found =
          [sshRdp |-> FALSE, anyPort |-> FALSE, database |-> FALSE]
      BY <1>3, ListingFindings DEF NsgFindings, Good, Bad, Fields
    <2>. QED BY <2>1 DEF Findings
  <1>4. CASE l = "keyvault"
    <2>1. found =
          [publicVault |-> FALSE, noPurge |-> FALSE, noSoft |-> FALSE,
           noPrivate |-> FALSE, noRbac |-> FALSE]
      BY <1>4, ListingFindings DEF KeyVaultFindings, Good, Bad, Fields
    <2>. QED BY <2>1 DEF Findings
  <1>5. CASE l = "logs"
    <2>1. found =
          [shortRetention |-> FALSE]
      BY <1>5, ListingFindings DEF LogFindings, Good, Bad, Fields
    <2>. QED BY <2>1 DEF Findings
  <1>6. CASE l = "sql"
    <2>1. found =
          [oldTls |-> FALSE, publicDb |-> FALSE, azureServices |-> FALSE]
      BY <1>6, ListingFindings DEF SqlFindings, Good, Bad, Fields
    <2>. QED BY <2>1 DEF Findings
  <1>7. CASE l = "postgres"
    <2>1. found =
          [publicDb |-> FALSE, azureServices |-> FALSE]
      BY <1>7, ListingFindings DEF PostgresFindings, Good, Bad, Fields
    <2>. QED BY <2>1 DEF Findings
  <1>8. CASE l = "defender"
    <2>1. found =
          [noDefender |-> FALSE]
      BY <1>8, ListingFindings DEF DefenderFindings, Good, Bad, Fields
    <2>. QED BY <2>1 DEF Findings
  <1>9. CASE l = "policy"
    <2>1. found =
          [noInitiative |-> FALSE]
      BY <1>9, ListingFindings DEF PolicyFindings, Good, Bad, Fields
    <2>. QED BY <2>1 DEF Findings
  <1>10. CASE l = "apps"
    <2>1. found =
          [plainHttp |-> FALSE, ftp |-> FALSE, basicAuth |-> FALSE]
      BY <1>10, ListingFindings DEF AppFindings, Good, Bad, Fields
    <2>. QED BY <2>1 DEF Findings
  <1>11. CASE l = "disks"
    <2>1. found =
          [orphanDisk |-> FALSE]
      BY <1>11, ListingFindings DEF DiskFindings, Good, Bad, Fields
    <2>. QED BY <2>1 DEF Findings
  <1>12. CASE l = "ips"
    <2>1. found =
          [looseIp |-> FALSE]
      BY <1>12, ListingFindings DEF IpFindings, Good, Bad, Fields
    <2>. QED BY <2>1 DEF Findings
  <1>13. CASE l = "plans"
    <2>1. found =
          [emptyPlan |-> FALSE]
      BY <1>13, ListingFindings DEF PlanFindings, Good, Bad, Fields
    <2>. QED BY <2>1 DEF Findings
  <1>14. CASE l = "power"
    <2>1. found =
          [stoppedVm |-> FALSE]
      BY <1>14, ListingFindings DEF PowerFindings, Good, Bad, Fields
    <2>. QED BY <2>1 DEF Findings
  <1>15. CASE l = "guests"
    <2>1. found =
          [staleGuest |-> FALSE, noGuestMfa |-> FALSE]
      BY <1>15, ListingFindings DEF GuestFindings, Good, Bad, Fields
    <2>. QED BY <2>1 DEF Findings
  <1>16. CASE l = "guestRoles"
    <2>1. found =
          [guestAdmin |-> FALSE]
      BY <1>16, ListingFindings DEF GuestRoleFindings, Good, Bad, Fields
    <2>. QED BY <2>1 DEF Findings
  <1>17. CASE l = "policySet"
    <2>1. found =
          [noMfaPolicy |-> FALSE, legacyAuth |-> FALSE]
      BY <1>17, ListingFindings DEF PolicySetFindings, Good, Bad, Fields
    <2>. QED BY <2>1 DEF Findings
  <1>18. CASE l = "admins"
    <2>1. found =
          [manyAdmins |-> FALSE, guestGlobal |-> FALSE]
      BY <1>18, ListingFindings DEF AdminFindings, Good, Bad, Fields
    <2>. QED BY <2>1 DEF Findings
  <1>19. CASE l = "users"
    <2>1. found =
          [stalePassword |-> FALSE, dormant |-> FALSE]
      BY <1>19, ListingFindings DEF UserFindings, Good, Bad, Fields
    <2>. QED BY <2>1 DEF Findings
  <1>20. CASE l = "mfa"
    <2>1. found =
          [unregistered |-> FALSE]
      BY <1>20, ListingFindings DEF MfaFindings, Good, Bad, Fields
    <2>. QED BY <2>1 DEF Findings
  <1>21. CASE l = "signIns"
    <2>1. found =
          [highRisk |-> FALSE]
      BY <1>21, ListingFindings DEF SignInFindings, Good, Bad, Fields
    <2>. QED BY <2>1 DEF Findings
  <1>22. CASE l = "members"
    <2>1. found =
          [adminNoMfa |-> FALSE, guestAdmin |-> FALSE,
           dormantAdmin |-> FALSE, staleAdmin |-> FALSE]
      BY <1>22, ListingFindings DEF MemberFindings, Good, Bad, Fields
    <2>. QED BY <2>1 DEF Findings
  <1>23. CASE l = "tags"
    <2>1. found =
          [untagged |-> FALSE, noMandatory |-> FALSE]
      BY <1>23, ListingFindings DEF TagFindings, Good, Bad, Fields
    <2>. QED BY <2>1 DEF Findings
  <1>24. CASE l = "diagnostics"
    <2>1. found =
          [noDiagnostics |-> FALSE]
      BY <1>24, ListingFindings DEF DiagnosticFindings, Good, Bad, Fields
    <2>. QED BY <2>1 DEF Findings
  <1>25. CASE l = "encryption"
    <2>1. found =
          [plainAtRest |-> FALSE, unknownAtRest |-> FALSE]
      BY <1>25, ListingFindings DEF evaluateEncryption, Good, Bad, Fields
    <2>. QED BY <2>1 DEF Findings
  <1>26. CASE l = "assignments"
    <2>1. found =
          [privileged |-> FALSE, broad |-> FALSE, unknownWho |-> FALSE]
      BY <1>26, ListingFindings DEF AssignmentFindings, classifyRole, Good, Bad, Fields
    <2>. QED BY <2>1 DEF Findings
  <1>27. CASE l = "links"
    <2>1. found =
          [noPrivateLink |-> FALSE]
      BY <1>27, ListingFindings DEF PrivateLinkFindings, Good, Bad, Fields
    <2>. QED BY <2>1 DEF Findings
  <1>28. CASE l = "states"
    <2>1. found =
          [nonCompliant |-> FALSE]
      BY <1>28, ListingFindings DEF PolicyStateFindings, Good, Bad, Fields
    <2>. QED BY <2>1 DEF Findings
  <1>. QED
    BY <1>1, <1>2, <1>3, <1>4, <1>5, <1>6, <1>7, <1>8, <1>9, <1>10, <1>11, <1>12, <1>13, <1>14, <1>15, <1>16, <1>17, <1>18, <1>19, <1>20, <1>21, <1>22, <1>23, <1>24, <1>25, <1>26, <1>27, <1>28 DEF Fields

-----------------------------------------------------------------------------
(* What they find in a resource with a defect.                             *)

LEMMA SubscriptionChecks ==
  /\ auditStorage.checks = StorageChecks /\ auditVMs.checks = VmChecks
  /\ auditNsg.checks = NsgChecks /\ auditKeyVault.checks = KeyVaultChecks
  /\ auditLogs.checks = LogChecks /\ auditDb.checks = DbChecks
  /\ auditGovernance.checks = GovernanceChecks /\ auditAppServices.checks = AppChecks
  /\ auditFinOps.checks = FinOpsChecks /\ auditExposureMap.checks = ExposureChecks
  BY DEF auditStorage, auditVMs, auditNsg, auditKeyVault, auditLogs, auditDb, auditGovernance,
     auditAppServices, auditFinOps, auditExposureMap, Scanner

LEMMA TenantChecks ==
  /\ auditEntraB2B.checks = GuestChecks /\ auditTags.checks = TagChecks
  /\ auditDiagnosticCoverage.checks = DiagnosticChecks
  /\ auditEncryptionCoverage.checks = EncryptionChecks
  /\ auditAzureRbacExposure.checks = AssignmentChecks
  /\ auditPolicyCompliance.checks = PolicyStateChecks
  BY DEF auditEntraB2B, auditTags, auditDiagnosticCoverage, auditEncryptionCoverage,
     auditAzureRbacExposure, auditPolicyCompliance, Graph, Scanner

\* A list with a check is not empty.
FailsCheck(found, checks) == \E k \in DOMAIN found : found[k] /\ k \in DOMAIN checks

\* Each conjunct: the properties that are bad, and the check they fail.
LEMMA StorageDefects ==
  ASSUME NEW r, NEW checks \in {StorageChecks, ExposureChecks}
  PROVE  /\ r["network"] = "bad" /\ r["acl"] = "bad" => FailsCheck(StorageFindings(r), checks)
         /\ r["blob"] = "bad" => FailsCheck(StorageFindings(r), checks)
         /\ r["https"] = "bad" => FailsCheck(StorageFindings(r), StorageChecks)
         /\ r["network"] = "bad" /\ r["endpoint"] = "bad"
              => FailsCheck(StorageFindings(r), StorageChecks)
         /\ r["key"] = "bad" => FailsCheck(StorageFindings(r), StorageChecks)
         /\ r["tls"] = "bad" => FailsCheck(StorageFindings(r), StorageChecks)
         /\ r["users"] = "bad" => FailsCheck(StorageFindings(r), StorageChecks)
  BY DEF FailsCheck, StorageFindings, StorageChecks, ExposureChecks, Good, Bad

LEMMA VmDefects ==
  ASSUME NEW r, NEW checks \in {VmChecks, ExposureChecks}
  PROVE  /\ r["ports"] = "bad" => FailsCheck(VmFindings(r), checks)
         /\ r["disk"] = "bad" => FailsCheck(VmFindings(r), VmChecks)
         /\ r["launch"] = "bad" => FailsCheck(VmFindings(r), VmChecks)
         /\ r["identity"] = "bad" => FailsCheck(VmFindings(r), VmChecks)
         /\ r["password"] = "bad" => FailsCheck(VmFindings(r), VmChecks)
  BY DEF FailsCheck, VmFindings, VmChecks, ExposureChecks, Good, Bad

\* A rule for any source is on the first of the three lists that fits it.
LEMMA NsgDefects ==
  ASSUME NEW r, NEW checks \in {NsgChecks, ExposureChecks}, r["source"] = "bad",
         r["management"] = "bad" \/ r["wildcard"] = "bad" \/ r["dbPort"] = "bad"
  PROVE  FailsCheck(NsgFindings(r), checks)
  BY DEF FailsCheck, NsgFindings, NsgChecks, ExposureChecks, Bad

LEMMA KeyVaultDefects ==
  ASSUME NEW r, NEW checks \in {KeyVaultChecks, ExposureChecks}
  PROVE  /\ r["access"] = "bad" /\ r["acl"] = "bad" => FailsCheck(KeyVaultFindings(r), checks)
         /\ r["purge"] = "bad" => FailsCheck(KeyVaultFindings(r), KeyVaultChecks)
         /\ r["soft"] = "bad" => FailsCheck(KeyVaultFindings(r), KeyVaultChecks)
  BY DEF FailsCheck, KeyVaultFindings, KeyVaultChecks, ExposureChecks, Good, Bad

LEMMA DbDefects ==
  ASSUME NEW r, NEW checks \in {DbChecks, ExposureChecks}
  PROVE  /\ r["access"] = "bad" => FailsCheck(SqlFindings(r), checks)
         /\ r["tls"] = "bad" => FailsCheck(SqlFindings(r), DbChecks)
         /\ r["access"] = "bad" => FailsCheck(PostgresFindings(r), checks)
  BY DEF FailsCheck, SqlFindings, PostgresFindings, DbChecks, ExposureChecks, Good, Bad

LEMMA AppDefects ==
  ASSUME NEW r, NEW checks \in {AppChecks, ExposureChecks}
  PROVE  /\ r["https"] = "bad" => FailsCheck(AppFindings(r), checks)
         /\ r["ftps"] = "bad" => FailsCheck(AppFindings(r), AppChecks)
         /\ r["basic"] = "bad" => FailsCheck(AppFindings(r), AppChecks)
  BY DEF FailsCheck, AppFindings, AppChecks, ExposureChecks, Good, Bad

LEMMA SettingDefects ==
  ASSUME NEW r
  PROVE  /\ r["retention"] = "bad" => FailsCheck(LogFindings(r), LogChecks)
         /\ r["plan"] = "bad" => FailsCheck(DefenderFindings(r), GovernanceChecks)
         /\ r["initiative"] = "bad" => FailsCheck(PolicyFindings(r), GovernanceChecks)
         /\ r["attached"] = "bad" => FailsCheck(DiskFindings(r), FinOpsChecks)
         /\ r["attached"] = "bad" => FailsCheck(IpFindings(r), FinOpsChecks)
         /\ r["sites"] = "bad" => FailsCheck(PlanFindings(r), FinOpsChecks)
         /\ r["power"] = "bad" => FailsCheck(PowerFindings(r), FinOpsChecks)
  BY DEF FailsCheck, LogFindings, LogChecks, DefenderFindings, PolicyFindings, GovernanceChecks,
     DiskFindings, IpFindings, PlanFindings, PowerFindings, FinOpsChecks, Good, Bad

LEMMA DirectoryDefects ==
  ASSUME NEW r
  PROVE  /\ r["signIn"] = "bad" => FailsCheck(GuestFindings(r), GuestChecks)
         /\ r["admin"] = "bad" => FailsCheck(GuestRoleFindings(r), GuestChecks)
         /\ r["tags"] = "bad" => FailsCheck(TagFindings(r), TagChecks)
         /\ r["mandatory"] = "bad" => FailsCheck(TagFindings(r), TagChecks)
         /\ r["setting"] = "bad" => FailsCheck(DiagnosticFindings(r), DiagnosticChecks)
         /\ r["encryption"] = "bad" => FailsCheck(evaluateEncryption(r), EncryptionChecks)
         /\ r["role"] = "bad" /\ r["scope"] = "bad"
              => FailsCheck(AssignmentFindings(r), AssignmentChecks)
         /\ r["state"] = "bad" => FailsCheck(PolicyStateFindings(r), PolicyStateChecks)
  BY DEF FailsCheck, GuestFindings, GuestRoleFindings, GuestChecks, TagFindings, TagChecks,
     DiagnosticFindings, DiagnosticChecks, evaluateEncryption, EncryptionChecks,
     AssignmentFindings, AssignmentChecks, classifyRole, PolicyStateFindings, PolicyStateChecks,
     Good, Bad

-----------------------------------------------------------------------------
(* The thresholds of the KPIs.                                             *)

KpiBounds(k) ==
  /\ k.share \in BOOLEAN
  /\ k.share => k.warning \in 0..100 /\ k.critical \in 0..100
  /\ ~k.share => k.warning \in Nat \ {0} /\ k.critical \in Nat \ {0}

LEMMA CoverageBounds ==
  ASSUME NEW kinds, NEW warning \in Nat, NEW critical \in Nat,
         warning <= 100, critical <= 100
  PROVE  KpiBounds(Coverage(kinds, warning, critical))
  BY DEF KpiBounds, Coverage

LEMMA RiskBounds ==
  ASSUME NEW kinds, NEW warning \in Nat, NEW critical \in Nat,
         warning # 0, critical # 0
  PROVE  KpiBounds(Risk(kinds, warning, critical))
  BY DEF KpiBounds, Risk

AllBounded(kpis) == \A k \in kpis : KpiBounds(k)

LEMMA SubscriptionKpis ==
  /\ AllBounded(enhanceStorage) /\ AllBounded(enhanceLogs) /\ AllBounded(enhanceVms)
  /\ AllBounded(enhanceNsg) /\ AllBounded(enhanceKeyVault) /\ AllBounded(enhanceDb)
  /\ AllBounded(enhanceGovernance) /\ AllBounded(enhanceAppServices)
  /\ AllBounded(enhanceFinOps)
  BY CoverageBounds, RiskBounds
     DEF AllBounded, enhanceStorage, enhanceLogs, enhanceVms, enhanceNsg, enhanceKeyVault,
         enhanceDb, enhanceGovernance, enhanceAppServices, enhanceFinOps

LEMMA OtherKpis ==
  /\ AllBounded(enhanceEntra) /\ AllBounded(enhanceEntraB2B)
  /\ AllBounded(KpisOf("exposure_map")) /\ AllBounded(KpisOf("identity_admin_posture"))
  /\ AllBounded(KpisOf("diagnostic_coverage")) /\ AllBounded(KpisOf("encryption_coverage"))
  /\ AllBounded(KpisOf("azure_rbac_exposure")) /\ AllBounded(KpisOf("private_link_coverage"))
  /\ AllBounded(KpisOf("policy_compliance")) /\ AllBounded(KpisOf("tags"))
  <1>1. AllBounded(enhanceEntra) /\ AllBounded(enhanceEntraB2B)
    BY CoverageBounds, RiskBounds DEF AllBounded, enhanceEntra, enhanceEntraB2B
  <1>2. AllBounded(KpisOf("exposure_map"))
    <2>1. KpisOf("exposure_map") =
            { Risk(DOMAIN ExposureChecks, 1, 5), Risk({"adminPorts"}, 1, 1),
              Risk({"publicStorage", "publicVault", "publicDb"}, 1, 3) }
      BY DEF KpisOf
    <2>. QED BY <2>1, RiskBounds DEF AllBounded
  <1>3. AllBounded(KpisOf("identity_admin_posture"))
    <2>1. KpisOf("identity_admin_posture") =
            { Coverage({"adminNoMfa"}, 100, 95), Risk({"dormantAdmin"}, 1, 5),
              Risk({"guestAdmin"}, 1, 1) }
      BY DEF KpisOf
    <2>. QED BY <2>1, CoverageBounds, RiskBounds DEF AllBounded
  <1>4. AllBounded(KpisOf("diagnostic_coverage"))
    <2>1. KpisOf("diagnostic_coverage") =
            {Coverage({"noDiagnostics"}, 90, 70), Risk({"noDiagnostics"}, 1, 10)}
      BY DEF KpisOf
    <2>. QED BY <2>1, CoverageBounds, RiskBounds DEF AllBounded
  <1>5. AllBounded(KpisOf("encryption_coverage"))
    <2>1. KpisOf("encryption_coverage") =
            { Coverage({"plainAtRest", "unknownAtRest"}, 95, 85),
              Risk({"unknownAtRest"}, 1, 20) }
      BY DEF KpisOf
    <2>. QED BY <2>1, CoverageBounds, RiskBounds DEF AllBounded
  <1>6. AllBounded(KpisOf("azure_rbac_exposure"))
    <2>1. KpisOf("azure_rbac_exposure") =
            {Coverage({"privileged"}, 90, 70), Risk({"broad"}, 1, 5)}
      BY DEF KpisOf
    <2>. QED BY <2>1, CoverageBounds, RiskBounds DEF AllBounded
  <1>7. AllBounded(KpisOf("private_link_coverage"))
    <2>1. KpisOf("private_link_coverage") =
            {Coverage({"noPrivateLink"}, 80, 50), Risk({"noPrivateLink"}, 1, 10)}
      BY DEF KpisOf
    <2>. QED BY <2>1, CoverageBounds, RiskBounds DEF AllBounded
  <1>8. AllBounded(KpisOf("policy_compliance"))
    <2>1. KpisOf("policy_compliance") =
            {Coverage({"nonCompliant"}, 90, 70), Risk({"nonCompliant"}, 1, 100)}
      BY DEF KpisOf
    <2>. QED BY <2>1, CoverageBounds, RiskBounds DEF AllBounded
  <1>9. AllBounded(KpisOf("tags"))
    BY DEF AllBounded, KpisOf
  <1>. QED BY <1>1, <1>2, <1>3, <1>4, <1>5, <1>6, <1>7, <1>8, <1>9

\* Every KPI of every module warns below a share of at most 100 %, or from a
\* count of at least one.
LEMMA KpisBounded ==
  ASSUME NEW m \in ModuleNames
  PROVE  AllBounded(KpisOf(m))
  <1>1. /\ KpisOf("storage") = enhanceStorage /\ KpisOf("logs") = enhanceLogs
        /\ KpisOf("vms") = enhanceVms /\ KpisOf("nsg") = enhanceNsg
        /\ KpisOf("keyvault") = enhanceKeyVault /\ KpisOf("db") = enhanceDb
        /\ KpisOf("governance") = enhanceGovernance
        /\ KpisOf("appservices") = enhanceAppServices
        /\ KpisOf("entra") = enhanceEntra /\ KpisOf("entra_b2b") = enhanceEntraB2B
        /\ KpisOf("finops") = enhanceFinOps
    BY DEF KpisOf
  <1>. QED BY <1>1, SubscriptionKpis, OtherKpis DEF ModuleNames
=============================================================================
