-------------------------- MODULE ModuleAuditProofs --------------------------
(***************************************************************************)
(* Proofs about ModuleAudit, for any modules, number of subscriptions,     *)
(* rows and caps on the query, and any estate.                             *)
(*                                                                         *)
(* That a complete query has read every row is not inductive alone: the    *)
(* invariant says that the rows and those kept are the first ones of the   *)
(* query (RowsInOrder), so that their numbers may be compared.  That the   *)
(* verdict is the one computed from the reads (Decided) ties it to the     *)
(* estate: each defect of a resource is found (DefectIsFound), nothing is  *)
(* found in a flawless one (GoodFindsNothing, of ScannersProofs).          *)
(***************************************************************************)
EXTENDS ModuleAudit, ScannersProofs, FiniteSetTheorems, TLAPS

QueryStates == {"none", "open", "complete", "truncated", "failed"}

\* A query is of the modules that ask Resource Graph; they take no turns.
GraphAsks == query = "none" <=> module \notin GraphModules

\* The rows present and those kept are the first of the query, and all of them
\* are kept when it is complete.
RowsInOrder ==
  module \in GraphModules =>
    /\ \E k \in 0..Rows : present = 1..k
    /\ \E j \in 0..Rows : Taken = 1..j /\ 1..j \subseteq present /\ j <= MaxRows
    /\ query = "complete" => present \subseteq Taken

Inv == TypeOK /\ GraphAsks /\ RowsInOrder /\ UnreadNeverPasses

-----------------------------------------------------------------------------
(* The verdict on a module, whatever its scanner found.                    *)

LEMMA StatusTypes ==
  ASSUME NEW threw \in BOOLEAN, NEW raw, NEW erred \in BOOLEAN, NEW analyzed, NEW execution,
         NEW failed
  PROVE  /\ computeExecutionStatus(threw, raw, erred, analyzed) \in Executions
         /\ computeSecurityPosture(execution, erred, failed) \in Postures
  BY DEF computeExecutionStatus, computeSecurityPosture, Executions, Postures

LEMMA KpiTypes ==
  ASSUME NEW bad, NEW total, NEW warning, NEW critical
  PROVE  /\ statusFromCoverage(bad, total, warning, critical) \in Postures \cup {"UNKNOWN"}
         /\ statusFromRiskCount(bad, warning, critical) \in Postures \cup {"UNKNOWN"}
  BY DEF statusFromCoverage, statusFromRiskCount, Postures

\* A recorded error is enough for a posture that is not PASS.
LEMMA ErrorNeverPasses ==
  ASSUME NEW raw, NEW analyzed, NEW failed
  PROVE  /\ computeSecurityPosture(computeExecutionStatus(FALSE, raw, TRUE, analyzed), TRUE, failed)
              # "PASS"
         /\ computeSecurityPosture(computeExecutionStatus(FALSE, "PARTIAL", FALSE, analyzed), FALSE,
              failed) # "PASS"
  BY DEF computeExecutionStatus, computeSecurityPosture

\* One more error or one more failed check never improves a posture: what
\* WorseNeverLooksBetter says of the modules of an audit, for any result.
THEOREM PostureMonotone ==
  ASSUME NEW raw \in RawStatuses, NEW analyzed \in Nat, NEW erred \in BOOLEAN,
         NEW failed \in SUBSET Severities, NEW more \in SUBSET Severities
  PROVE  /\ Rank(computeSecurityPosture(computeExecutionStatus(FALSE, raw, erred, analyzed),
                                        erred, failed \cup more))
              >= Rank(computeSecurityPosture(computeExecutionStatus(FALSE, raw, erred, analyzed),
                                             erred, failed))
         /\ Rank(computeSecurityPosture(computeExecutionStatus(FALSE, raw, TRUE, analyzed),
                                        TRUE, failed))
              >= Rank(computeSecurityPosture(computeExecutionStatus(FALSE, raw, erred, analyzed),
                                             erred, failed))
  <1>. DEFINE Verdict(e, f) == computeSecurityPosture(
                                 computeExecutionStatus(FALSE, raw, e, analyzed), e, f)
              now == Verdict(erred, failed)
              checked == Verdict(erred, failed \cup more)
              broken == Verdict(TRUE, failed)
  <1>1. now = "PASS" \/ checked = now \/ checked = "FAIL"
    BY DEF computeSecurityPosture
  <1>2. now = "PASS" \/ broken = now \/ broken = "FAIL"
    BY DEF computeSecurityPosture, computeExecutionStatus
  <1>3. now \in Postures /\ checked \in Postures /\ broken \in Postures
    BY DEF computeSecurityPosture, Postures
  <1>4. Rank("PASS") = 0 /\ Rank("WARN") = 1 /\ Rank("FAIL") = 2
    BY DEF Rank
  <1>. HIDE DEF now, checked, broken
  <1>5. Rank(checked) >= Rank(now) /\ Rank(broken) >= Rank(now)
    BY <1>1, <1>2, <1>3, <1>4 DEF Postures
  <1>. QED BY <1>5 DEF now, checked, broken

\* One more resource that is bad, or one more finding, never improves a KPI, for
\* any thresholds: statusFromCoverage and statusFromRiskCount of kpi-engine.js.
THEOREM KpiMonotone ==
  ASSUME NEW bad \in Nat, NEW more \in Nat, bad <= more, NEW total \in Nat \ {0},
         NEW warning \in Nat, NEW critical \in Nat
  PROVE  /\ Rank(statusFromCoverage(more, total, warning, critical))
              >= Rank(statusFromCoverage(bad, total, warning, critical))
         /\ Rank(statusFromRiskCount(more, warning, critical))
              >= Rank(statusFromRiskCount(bad, warning, critical))
  <1>. DEFINE Compliant(n) == IF n > total THEN 0 ELSE total - n
  <1>1. Compliant(bad) \in Nat /\ Compliant(more) \in Nat /\ Compliant(more) <= Compliant(bad)
    OBVIOUS
  <1>2. Rank("PASS") = 0 /\ Rank("WARN") = 1 /\ Rank("FAIL") = 2
    BY DEF Rank
  <1>3. \A n \in Nat : statusFromCoverage(n, total, warning, critical) =
                         IF 100 * Compliant(n) < critical * total THEN "FAIL"
                         ELSE IF 100 * Compliant(n) < warning * total THEN "WARN"
                         ELSE "PASS"
    BY DEF statusFromCoverage
  <1>. DEFINE least == critical * total
              enough == warning * total
  <1>4. least \in Nat /\ enough \in Nat
    OBVIOUS
  <1>. HIDE DEF Compliant, least, enough
  <1>5. Rank(statusFromCoverage(more, total, warning, critical))
          >= Rank(statusFromCoverage(bad, total, warning, critical))
    BY <1>1, <1>2, <1>3, <1>4 DEF least, enough
  <1>6. Rank(statusFromRiskCount(more, warning, critical))
          >= Rank(statusFromRiskCount(bad, warning, critical))
    BY <1>2 DEF statusFromRiskCount
  <1>. QED BY <1>5, <1>6

\* The posture of a scan is that of its worst module.
THEOREM RollupIsWorst ==
  ASSUME NEW postures \in SUBSET Postures, NEW posture \in postures
  PROVE  /\ Rank(rollupSecurityPosture(postures)) >= Rank(posture)
         /\ rollupSecurityPosture(postures) \in postures
  <1>1. /\ Rank("PASS") = 0 /\ Rank("WARN") = 1 /\ Rank("FAIL") = 2
    BY DEF Rank
  <1>2. posture \in {"PASS", "WARN", "FAIL"}
    BY DEF Postures
  <1>. QED BY <1>1, <1>2 DEF rollupSecurityPosture, Postures

-----------------------------------------------------------------------------
(* Types and the first state.                                              *)

LEMMA RawTypes ==
  ASSUME NEW erred \in BOOLEAN, NEW found
  PROVE  RawStatus(erred, found) \in RawStatuses
  BY DEF RawStatus, RawStatuses

LEMMA VerdictTypes ==
  ASSUME NEW erred \in BOOLEAN, NEW found
  PROVE  /\ Execution(erred, found) \in Executions
         /\ Posture(erred, found) \in Postures \cup {"NONE"}
         /\ {KpiStatus(k) : k \in KpisOf(module)} \subseteq Postures \cup {"UNKNOWN"}
  <1>1. Execution(erred, found) \in Executions
    BY RawTypes DEF Execution, computeExecutionStatus, Executions, RawStatuses
  <1>2. Posture(erred, found) \in Postures \cup {"NONE"}
    BY DEF Posture, computeSecurityPosture, Postures
  <1>3. \A k : KpiStatus(k) \in Postures \cup {"UNKNOWN"}
    BY KpiTypes DEF KpiStatus
  <1>. QED BY <1>1, <1>2, <1>3

LEMMA EstateTypes ==
  ASSUME NEW m \in Modules, NEW S \in SUBSET Positions(m), NEW F \in SUBSET FlawsOf(m),
         Estate(m, S, F), Start(m, S, F)
  PROVE  Inv
  <1>1. Taken = {}
    BY DEF Start, Taken
  <1>2. Cardinality({}) = 0
    BY FS_EmptySet
  <1>3. TypeOK
    BY <1>1, <1>2, NumbersAssumption DEF Start, TypeOK
  <1>4. GraphAsks
    BY DEF Start, GraphAsks
  <1>5. RowsInOrder
    <2>1. SUFFICES ASSUME m \in GraphModules
                   PROVE  /\ \E k \in 0..Rows : present = 1..k
                          /\ \E j \in 0..Rows : /\ Taken = 1..j /\ 1..j \subseteq present
                                                /\ j <= MaxRows
                          /\ query = "complete" => present \subseteq Taken
      BY DEF RowsInOrder, Start
    <2>2. \E k \in 0..Rows : present = 1..k
      BY <2>1 DEF Estate, Start
    <2>3. Taken = 1..0 /\ 0 \in 0..Rows /\ 0 <= MaxRows /\ 1..0 \subseteq present
      BY <1>1, NumbersAssumption
    <2>4. query # "complete"
      BY <2>1 DEF Start
    <2>. QED BY <2>2, <2>3, <2>4
  <1>6. UnreadNeverPasses
    BY DEF Start, UnreadNeverPasses, Passes
  <1>. QED BY <1>3, <1>4, <1>5, <1>6 DEF Inv

LEMMA InitInv == Init => Inv
  BY EstateTypes DEF Init

-----------------------------------------------------------------------------
(* Reading listings: only of modules that do not ask Resource Graph.       *)

\* A module that takes turns has no query, whatever becomes of its positions.
LEMMA ListingStep ==
  ASSUME Inv, verdict = None, query = "none",
         read' \in [Positions(module) -> {"pending", "whole", "cut", "broke", "lost"}],
         UNCHANGED <<estate, report, query, pages, verdict>>
  PROVE  Inv'
  <1>1. module \notin GraphModules
    BY DEF Inv, GraphAsks
  <1>2. TypeOK'
    BY DEF Inv, TypeOK, estate
  <1>3. GraphAsks' /\ RowsInOrder' /\ UnreadNeverPasses'
    BY <1>1 DEF GraphAsks, RowsInOrder, UnreadNeverPasses, Passes, estate
  <1>. QED BY <1>2, <1>3 DEF Inv

LEMMA ReadStep ==
  ASSUME Inv, NEW p \in DOMAIN read,
         ReadWhole(p) \/ ReadCut(p) \/ ReadBreaks(p) \/ ReadFails(p) \/ MembersFail(p)
  PROVE  Inv'
  <1>1. /\ verdict = None /\ query = "none"
        /\ UNCHANGED <<estate, report, query, pages, verdict>>
    BY DEF ReadWhole, ReadCut, ReadBreaks, ReadFails, MembersFail, Turn, Reads
  <1>2. read \in [Positions(module) -> {"pending", "whole", "cut", "broke", "lost"}]
    BY DEF Inv, TypeOK
  <1>3. read' \in [Positions(module) -> {"pending", "whole", "cut", "broke", "lost"}]
    <2>1. CASE MembersFail(p)
      BY <1>2, <2>1 DEF MembersFail
    <2>2. CASE ReadWhole(p) \/ ReadCut(p) \/ ReadBreaks(p) \/ ReadFails(p)
      BY <1>2, <2>2 DEF ReadWhole, ReadCut, ReadBreaks, ReadFails, Reads
    <2>. QED BY <2>1, <2>2
  <1>. QED BY <1>1, <1>3, ListingStep

LEMMA ReportStep ==
  ASSUME Inv, ReadReport
  PROVE  Inv'
  <1>1. verdict' = None /\ UNCHANGED <<estate, read, query, pages, verdict>>
    BY DEF ReadReport
  <1>2. TypeOK'
    BY <1>1 DEF Inv, TypeOK, ReadReport, Taken, estate
  <1>3. GraphAsks' /\ RowsInOrder'
    BY <1>1 DEF Inv, GraphAsks, RowsInOrder, Taken, estate
  <1>4. UnreadNeverPasses'
    BY <1>1 DEF UnreadNeverPasses, Passes
  <1>. QED BY <1>2, <1>3, <1>4 DEF Inv

-----------------------------------------------------------------------------
(* Paging.                                                                 *)

\* The rows of a query, and how many of them a step has to count.
LEMMA OpenQuery ==
  ASSUME Inv, query # "none"
  PROVE  /\ module \in GraphModules /\ DOMAIN read = 1..Rows
         /\ \E k \in 0..Rows, j \in 0..Rows :
              /\ present = 1..k /\ Taken = 1..j /\ j <= k /\ j <= MaxRows
              /\ Cardinality(Taken) = j /\ Remaining = MaxRows - j
              /\ Cardinality(present \ Taken) = k - j
  <1>1. module \in GraphModules /\ Positions(module) = 1..Rows
    BY DEF Inv, GraphAsks, Positions
  <1>2. DOMAIN read = 1..Rows
    BY <1>1 DEF Inv, TypeOK
  <1>3. PICK k \in 0..Rows : present = 1..k
    BY <1>1 DEF Inv, RowsInOrder
  <1>4. PICK j \in 0..Rows : Taken = 1..j /\ 1..j \subseteq present /\ j <= MaxRows
    BY <1>1 DEF Inv, RowsInOrder
  <1>5. j <= k
    BY <1>3, <1>4, NumbersAssumption
  <1>6. Cardinality(1..j) = j
    BY <1>4, NumbersAssumption, FS_Interval
  <1>7. present \ Taken = (j + 1)..k
    BY <1>3, <1>4, <1>5, NumbersAssumption
  <1>8. Cardinality((j + 1)..k) = k - j
    <2>1. j + 1 \in Int /\ k \in Int
      BY NumbersAssumption
    <2>2. Cardinality((j + 1)..k) = IF j + 1 > k THEN 0 ELSE k - (j + 1) + 1
      BY <2>1, FS_Interval
    <2>. QED BY <1>5, <2>1, <2>2
  <1>. QED BY <1>1, <1>2, <1>3, <1>4, <1>5, <1>6, <1>7, <1>8 DEF Remaining

LEMMA PageStep ==
  ASSUME Inv, NEW n \in 0..Rows, NEW token \in BOOLEAN, QueryPage(n, token)
  PROVE  Inv'
  <1>1. query = "open" /\ verdict = None /\ pages < MaxPages
    BY DEF QueryPage
  <1>2. module \in GraphModules /\ DOMAIN read = 1..Rows
    BY <1>1, OpenQuery
  <1>3. PICK k \in 0..Rows, j \in 0..Rows :
              /\ present = 1..k /\ Taken = 1..j /\ j <= k /\ j <= MaxRows
              /\ Cardinality(Taken) = j /\ Remaining = MaxRows - j
              /\ Cardinality(present \ Taken) = k - j
    BY <1>1, OpenQuery
  <1>. DEFINE last == j + Kept(n)
  <1>4. /\ n <= k - j /\ (n < k - j => token)
        /\ read' = [p \in DOMAIN read |-> IF p > j /\ p <= last THEN "whole" ELSE read[p]]
        /\ query' = AfterPage(n, token) /\ pages' = pages + 1
        /\ UNCHANGED <<estate, report, verdict>>
    BY <1>3 DEF QueryPage
  <1>5. Kept(n) = IF n > MaxRows - j THEN MaxRows - j ELSE n
    BY <1>3 DEF Kept
  <1>6. /\ last \in j..k /\ last <= MaxRows /\ last \in 0..Rows
        /\ n <= MaxRows - j /\ n = k - j => last = k
    BY <1>3, <1>4, <1>5, NumbersAssumption
  <1>. HIDE DEF last
  <1>7. Taken' = 1..last
    <2>1. Taken' = {p \in 1..Rows : (p > j /\ p <= last) \/ read[p] = "whole"}
      BY <1>2, <1>4 DEF Taken
    <2>2. \A p \in 1..Rows : read[p] = "whole" <=> p \in 1..j
      BY <1>2, <1>3 DEF Taken
    <2>. QED BY <1>3, <1>6, <2>1, <2>2, NumbersAssumption
  <1>8. Cardinality(Taken') = last
    BY <1>6, <1>7, FS_Interval, NumbersAssumption
  <1>9. /\ query' \in {"open", "complete", "truncated"}
        /\ query' = "complete" => n <= MaxRows - j /\ ~token
    BY <1>3, <1>4 DEF AfterPage
  <1>10. TypeOK'
    <2>1. read' \in [Positions(module) -> {"pending", "whole", "cut", "broke", "lost"}]
      BY <1>4 DEF Inv, TypeOK
    <2>2. pages' \in 0..MaxPages
      BY <1>1, <1>4, NumbersAssumption DEF Inv, TypeOK
    <2>. QED BY <1>4, <1>6, <1>8, <1>9, <2>1, <2>2 DEF Inv, TypeOK, estate
  <1>11. GraphAsks'
    BY <1>2, <1>4, <1>9 DEF GraphAsks, estate
  <1>12. RowsInOrder'
    <2>1. present' = 1..k /\ 1..last \subseteq 1..k
      BY <1>3, <1>4, <1>6, NumbersAssumption DEF estate
    <2>2. query' = "complete" => present' \subseteq Taken'
      BY <1>3, <1>4, <1>6, <1>7, <1>9, <2>1, NumbersAssumption
    <2>. QED BY <1>6, <1>7, <2>1, <2>2 DEF RowsInOrder
  <1>13. UnreadNeverPasses'
    BY <1>1, <1>4 DEF UnreadNeverPasses, Passes
  <1>. QED BY <1>10, <1>11, <1>12, <1>13 DEF Inv

LEMMA CappedStep ==
  ASSUME Inv, QueryCapped
  PROVE  Inv'
  <1>1. /\ verdict = None /\ query = "open" /\ query' = "truncated"
        /\ UNCHANGED <<estate, read, report, pages, verdict>>
    BY DEF QueryCapped
  <1>2. TypeOK'
    BY <1>1 DEF Inv, TypeOK, Taken, estate
  <1>3. GraphAsks' /\ RowsInOrder'
    BY <1>1 DEF Inv, GraphAsks, RowsInOrder, Taken, estate
  <1>4. UnreadNeverPasses'
    BY <1>1 DEF UnreadNeverPasses, Passes
  <1>. QED BY <1>2, <1>3, <1>4 DEF Inv

LEMMA FailsStep ==
  ASSUME Inv, QueryFails
  PROVE  Inv'
  <1>1. /\ verdict = None /\ query = "open" /\ query' = "failed"
        /\ read' = [p \in DOMAIN read |-> "lost"]
        /\ UNCHANGED <<estate, report, pages, verdict>>
    BY DEF QueryFails
  <1>2. Taken' = {} /\ Cardinality({}) = 0
    BY <1>1, FS_EmptySet DEF Taken
  <1>3. TypeOK'
    BY <1>1, <1>2, NumbersAssumption DEF Inv, TypeOK, estate
  <1>4. GraphAsks'
    BY <1>1 DEF Inv, GraphAsks, estate
  <1>5. RowsInOrder'
    <2>1. Taken' = 1..0 /\ 0 \in 0..Rows /\ 0 <= MaxRows /\ 1..0 \subseteq present'
      BY <1>2, NumbersAssumption
    <2>2. module' \in GraphModules => \E k \in 0..Rows : present' = 1..k
      BY <1>1 DEF Inv, RowsInOrder, estate
    <2>. QED BY <1>1, <2>1, <2>2 DEF RowsInOrder
  <1>6. UnreadNeverPasses'
    BY <1>1 DEF UnreadNeverPasses, Passes
  <1>. QED BY <1>3, <1>4, <1>5, <1>6 DEF Inv

-----------------------------------------------------------------------------
(* The verdict.                                                            *)

\* The scanners whose own status has a rule of its own.
LEMMA ExposureRule == ScannerOf("exposure_map").fails = "partial"
  BY DEF ScannerOf, auditExposureMap, Scanner

LEMMA GovernanceRule ==
  ASSUME NEW m \in ModuleNames, ScannerOf(m).fails = "nothing found"
  PROVE  m = "governance" /\ ScannerOf(m).counts = "subscriptions"
  BY DEF ModuleNames, ScannerOf, Scanner, Graph, auditStorage, auditVMs, auditNsg, auditKeyVault,
     auditLogs, auditDb, auditGovernance, auditAppServices, auditFinOps, auditEntraB2B,
     auditEntraID, auditIdentityAdminPosture, auditTags, auditDiagnosticCoverage,
     auditEncryptionCoverage, auditAzureRbacExposure, auditPrivateLinkCoverage,
     auditPolicyCompliance, auditExposureMap

\* The state of the reads when a result that is PASS is given.
LEMMA PassMeansNoError ==
  ASSUME Posture(Erred, Found) = "PASS"
  PROVE  ~Erred
  <1>1. SUFFICES ASSUME Erred PROVE FALSE
    OBVIOUS
  <1>2. Erred = TRUE
    BY <1>1 DEF Erred
  <1>3. module \notin Undecorated
    BY DEF Posture
  <1>. DEFINE raw == RawStatus(TRUE, Found)
  <1>4. CASE module = "exposure_map"
    <2>1. ScannerOf(module).fails = "partial"
      BY <1>4, ExposureRule
    <2>2. raw = "PARTIAL"
      BY <2>1 DEF RawStatus
    <2>3. InDetails(TRUE) = FALSE
      BY <1>4 DEF InDetails
    <2>. QED BY <1>2, <1>3, <2>2, <2>3, ErrorNeverPasses DEF Posture, Execution
  <1>5. CASE module # "exposure_map"
    <2>1. InDetails(TRUE) = TRUE
      BY <1>5 DEF InDetails
    <2>. QED BY <1>2, <1>3, <2>1, ErrorNeverPasses DEF Posture, Execution
  <1>. QED BY <1>4, <1>5

LEMMA FinishStep ==
  ASSUME Inv, Finish
  PROVE  Inv'
  <1>1. /\ Settled /\ UNCHANGED <<estate, read, report, query, pages>>
        /\ verdict'.posture = Posture(Erred, Found)
    BY DEF Finish
  <1>2. Erred \in BOOLEAN
    BY DEF Erred
  <1>3. verdict' \in [ execution: Executions, posture: Postures \cup {"NONE"},
                       kpis: SUBSET (Postures \cup {"UNKNOWN"}), threw: BOOLEAN ]
    BY <1>2, VerdictTypes DEF Finish
  <1>4. TypeOK'
    BY <1>1, <1>3 DEF Inv, TypeOK, Taken, estate
  <1>5. GraphAsks' /\ RowsInOrder'
    BY <1>1 DEF Inv, GraphAsks, RowsInOrder, Taken, estate
  <1>6. ASSUME Passes'
        PROVE  /\ query \in {"none", "complete"} /\ report \in {"none", "whole"}
               /\ \A p \in present : read[p] \in {"whole", "cut"}
               /\ query = "none" => \A p \in DOMAIN read : read[p] \in {"whole", "cut"}
    <2>1. Posture(Erred, Found) = "PASS"
      BY <1>1, <1>6 DEF Passes
    <2>2. ~Erred /\ module # "entra"
      BY <2>1, PassMeansNoError DEF Posture, Undecorated
    <2>3. query \in {"none", "complete"} /\ report \in {"none", "whole"}
      BY <1>1, <2>2 DEF Inv, TypeOK, Settled, Erred
    <2>4. \A p \in DOMAIN read : read[p] \notin {"broke", "lost"}
      BY <2>2 DEF Erred, Failures
    <2>5. query = "none" => \A p \in DOMAIN read : read[p] \in {"whole", "cut"}
      BY <1>1, <2>4 DEF Inv, TypeOK, Settled
    <2>6. present \subseteq DOMAIN read
      BY DEF Inv, TypeOK
    <2>7. query = "complete" => \A p \in present : read[p] = "whole"
      BY DEF Inv, GraphAsks, RowsInOrder, Taken
    <2>. QED BY <2>3, <2>5, <2>6, <2>7
  <1>7. UnreadNeverPasses'
    BY <1>1, <1>6 DEF UnreadNeverPasses, estate
  <1>. QED BY <1>4, <1>5, <1>7 DEF Inv

LEMMA ThrowsStep ==
  ASSUME Inv, Throws
  PROVE  Inv'
  <1>1. /\ UNCHANGED <<estate, read, report, query, pages>>
        /\ verdict' \in [ execution: {"FAILED"}, posture: {"FAIL", "NONE"},
                          kpis: {{}}, threw: {TRUE} ]
    BY DEF Throws, computeExecutionStatus, computeSecurityPosture
  <1>2. verdict' \in [ execution: Executions, posture: Postures \cup {"NONE"},
                       kpis: SUBSET (Postures \cup {"UNKNOWN"}), threw: BOOLEAN ]
    BY <1>1 DEF Executions, Postures
  <1>3. TypeOK'
    BY <1>1, <1>2 DEF Inv, TypeOK, Taken, estate
  <1>4. GraphAsks' /\ RowsInOrder'
    BY <1>1 DEF Inv, GraphAsks, RowsInOrder, Taken, estate
  <1>5. UnreadNeverPasses'
    BY <1>1 DEF UnreadNeverPasses, Passes
  <1>. QED BY <1>3, <1>4, <1>5 DEF Inv

-----------------------------------------------------------------------------
LEMMA StepInv == Inv /\ [Next]_vars => Inv'
  <1>. SUFFICES ASSUME Inv, [Next]_vars PROVE Inv'
    OBVIOUS
  <1>1. CASE \E p \in DOMAIN read :
               ReadWhole(p) \/ ReadCut(p) \/ ReadBreaks(p) \/ ReadFails(p) \/ MembersFail(p)
    BY <1>1, ReadStep
  <1>2. CASE ReadReport
    BY <1>2, ReportStep
  <1>3. CASE \E n \in 0..Rows, token \in BOOLEAN : QueryPage(n, token)
    BY <1>3, PageStep
  <1>4. CASE QueryCapped
    BY <1>4, CappedStep
  <1>5. CASE QueryFails
    BY <1>5, FailsStep
  <1>6. CASE Finish
    BY <1>6, FinishStep
  <1>7. CASE Throws
    BY <1>7, ThrowsStep
  <1>8. CASE UNCHANGED vars
    BY <1>8 DEF vars, Inv, TypeOK, GraphAsks, RowsInOrder, UnreadNeverPasses, Passes, Taken
  <1>. QED BY <1>1, <1>2, <1>3, <1>4, <1>5, <1>6, <1>7, <1>8 DEF Next

LEMMA InvHolds == Spec => []Inv
  BY InitInv, StepInv, PTL DEF Spec

\* Every variable has its type, and a query stays within its caps.
THEOREM TypeCorrect == Spec => []TypeOK
  <1>1. Inv => TypeOK
    BY DEF Inv
  <1>. QED BY <1>1, InvHolds, PTL

\* A module whose listings were not all read is never shown as PASS.
THEOREM UnreadHolds == Spec => []UnreadNeverPasses
  <1>1. Inv => UnreadNeverPasses
    BY DEF Inv
  <1>. QED BY <1>1, InvHolds, PTL

-----------------------------------------------------------------------------
(* More findings and more errors, for the modules of an audit.             *)

\* The posture and the KPIs given to a module are those of the errors and
\* findings it has; a module whose scanner threw does not pass.
Decided ==
  verdict # None =>
    /\ verdict.threw => verdict.posture # "PASS"
    /\ ~verdict.threw => /\ verdict.posture = Posture(Erred, Found)
                         /\ verdict.kpis = {KpiStatus(k) : k \in KpisOf(module)}

\* What the reads say of a module stays the same when nothing is read.
LEMMA ReadsStand ==
  ASSUME UNCHANGED <<estate, read, report, query>>
  PROVE  /\ Posture(Erred, Found)' = Posture(Erred, Found)
         /\ \A k : KpiStatus(k)' = KpiStatus(k)
  <1>1. /\ UNCHANGED <<module, present, flaws, read, report, query>>
    BY DEF estate
  <1>2. Processed' = Processed /\ Failures' = Failures
    BY <1>1 DEF Processed, Failures, Listing, Reading
  <1>3. \A p : AsRead(p)' = AsRead(p)
    BY <1>1 DEF AsRead, Fact, Listing, Reading
  <1>4. FoundAt' = FoundAt
    BY <1>1, <1>2, <1>3 DEF FoundAt, Listing, Reading
  <1>5. Erred' = Erred /\ Found' = Found
    BY <1>1, <1>2, <1>4 DEF Erred, Found
  <1>6. Analyzed' = Analyzed
    BY <1>1, <1>2 DEF Analyzed, Listing, Reading
  <1>7. Posture(Erred, Found)' = Posture(Erred, Found)
    BY <1>1, <1>2, <1>5, <1>6 DEF Posture, Execution, InDetails, RawStatus
  <1>8. KpiTotal' = KpiTotal
    <2>1. Supported' = Supported
      BY <1>1, <1>2 DEF Supported, Fact, Listing, Reading
    <2>. QED BY <1>1, <1>6, <2>1 DEF KpiTotal
  <1>9. \A k : KpiStatus(k)' = KpiStatus(k)
    BY <1>4, <1>8 DEF KpiStatus, Count
  <1>. QED BY <1>7, <1>9

LEMMA DecidedStep == Decided /\ [Next]_vars => Decided'
  <1>. SUFFICES ASSUME Decided, [Next]_vars PROVE Decided'
    OBVIOUS
  <1>1. CASE Finish
    <2>1. /\ verdict'.threw = FALSE /\ verdict'.posture = Posture(Erred, Found)
          /\ verdict'.kpis = {KpiStatus(k) : k \in KpisOf(module)}
          /\ module' = module
      BY <1>1 DEF Finish, estate
    <2>2. /\ Posture(Erred, Found)' = Posture(Erred, Found)
          /\ \A k : KpiStatus(k)' = KpiStatus(k)
      BY <1>1, ReadsStand DEF Finish
    <2>. QED BY <2>1, <2>2 DEF Decided
  <1>2. CASE Throws
    BY <1>2 DEF Decided, Throws, computeSecurityPosture
  <1>3. CASE UNCHANGED vars
    <2>1. /\ Posture(Erred, Found)' = Posture(Erred, Found)
          /\ \A k : KpiStatus(k)' = KpiStatus(k)
          /\ module' = module /\ verdict' = verdict
      BY <1>3, ReadsStand DEF vars, estate
    <2>. QED BY <2>1 DEF Decided
  <1>4. CASE verdict = None /\ verdict' = verdict
    BY <1>4 DEF Decided
  <1>5. CASE \/ \E p \in DOMAIN read :
                  ReadWhole(p) \/ ReadCut(p) \/ ReadBreaks(p) \/ ReadFails(p) \/ MembersFail(p)
             \/ ReadReport
             \/ \E n \in 0..Rows, token \in BOOLEAN : QueryPage(n, token)
             \/ QueryCapped \/ QueryFails
    BY <1>4, <1>5 DEF ReadWhole, ReadCut, ReadBreaks, ReadFails, MembersFail, Turn, Reads,
         ReadReport, QueryPage, QueryCapped, QueryFails
  <1>. QED BY <1>1, <1>2, <1>3, <1>5 DEF Next

LEMMA DecidedHolds == Spec => []Decided
  <1>1. Init => Decided
    BY DEF Init, Start, Decided
  <1>. QED BY <1>1, DecidedStep, PTL DEF Spec

\* A finding more does not change the execution status: only the scanner of
\* governance looks at its findings, and it has always analysed subscriptions.
LEMMA FindingsKeepExecution ==
  ASSUME module \in ModuleNames, NEW erred \in BOOLEAN, NEW found, NEW more
  PROVE  Execution(erred, found) = Execution(erred, more)
  <1>1. CASE ScannerOf(module).fails = "nothing found"
    <2>1. module = "governance" /\ ScannerOf(module).counts = "subscriptions"
      BY <1>1, GovernanceRule
    <2>2. Analyzed # 0 /\ InDetails(erred) = erred /\ module \notin Undecorated
      BY <2>1, NumbersAssumption DEF Analyzed, InDetails, Undecorated
    <2>3. /\ RawStatus(erred, found) \in {"FAILED", "SUCCESS"}
          /\ RawStatus(erred, more) \in {"FAILED", "SUCCESS"}
      BY <1>1 DEF RawStatus
    <2>. QED BY <2>2, <2>3 DEF Execution, computeExecutionStatus
  <1>2. CASE ScannerOf(module).fails # "nothing found"
    <2>1. RawStatus(erred, found) = RawStatus(erred, more)
      BY <1>2 DEF RawStatus
    <2>. QED BY <2>1 DEF Execution
  <1>. QED BY <1>1, <1>2

\* Without an error the scanner's own status is the same or SUCCESS.
LEMMA ErrorsKeepRaw ==
  ASSUME NEW found
  PROVE  RawStatus(FALSE, found) \in {"SUCCESS", RawStatus(TRUE, found)}
  BY DEF RawStatus

LEMMA PostureWorsens ==
  ASSUME module \in ModuleNames \ Undecorated, NEW erred \in BOOLEAN, NEW found, NEW k
  PROVE  /\ Rank(Posture(erred, found \cup {k})) >= Rank(Posture(erred, found))
         /\ Rank(Posture(TRUE, found)) >= Rank(Posture(erred, found))
  <1>. DEFINE failed == FailedChecks(module, found)
              more == FailedChecks(module, found \cup {k})
              now == Posture(erred, found)
              checked == Posture(erred, found \cup {k})
              broken == Posture(TRUE, found)
  <1>1. failed \subseteq more
    BY DEF FailedChecks
  <1>2. Execution(erred, found) = Execution(erred, found \cup {k})
    BY FindingsKeepExecution
  <1>3. now = "PASS" \/ checked = now \/ checked = "FAIL"
    BY <1>1, <1>2 DEF Posture, computeSecurityPosture
  <1>4. now = "PASS" \/ broken = now \/ broken = "FAIL"
    <2>1. CASE erred
      BY <2>1
    <2>2. CASE ~erred
      <3>1. erred = FALSE
        BY <2>2
      <3>2. InDetails(FALSE) = FALSE
        BY DEF InDetails
      <3>3. \/ Execution(FALSE, found) = "SUCCESS" \/ Execution(TRUE, found) = "FAILED"
            \/ Execution(FALSE, found) = "PARTIAL" /\ Execution(TRUE, found) = "PARTIAL"
        BY <3>2, ErrorsKeepRaw DEF Execution, computeExecutionStatus
      <3>. QED BY <3>1, <3>2, <3>3 DEF Posture, computeSecurityPosture
    <2>. QED BY <2>1, <2>2
  <1>5. now \in Postures /\ checked \in Postures /\ broken \in Postures
    BY DEF Posture, computeSecurityPosture, Postures
  <1>6. Rank("PASS") = 0 /\ Rank("WARN") = 1 /\ Rank("FAIL") = 2
    BY DEF Rank
  <1>. HIDE DEF now, checked, broken
  <1>7. Rank(checked) >= Rank(now) /\ Rank(broken) >= Rank(now)
    BY <1>3, <1>4, <1>5, <1>6 DEF Postures
  <1>. QED BY <1>7 DEF now, checked, broken

\* One more finding, or one more error, never improves the posture of a module
\* of an audit, whatever was read of whatever estate.
THEOREM WorseHolds == Spec => []WorseNeverLooksBetter
  <1>1. TypeOK /\ Decided => WorseNeverLooksBetter
    <2>1. TypeOK => module \in ModuleNames
      BY ModulesAssumption DEF TypeOK
    <2>2. Erred \in BOOLEAN
      BY DEF Erred
    <2>. QED BY <2>1, <2>2, PostureWorsens DEF Decided, WorseNeverLooksBetter
  <1>. QED BY <1>1, TypeCorrect, DecidedHolds, PTL

-----------------------------------------------------------------------------
(* Positions.                                                              *)

\* A position of a module is a reading of its scanner.
LEMMA PositionIsReading ==
  ASSUME NEW m \in ModuleNames, NEW p \in Positions(m)
  PROVE  /\ ListingAt(m, p) \in Listings[m]
         /\ m = "logs" => ReadingAt(m, p).recorded = TRUE
  <1>. DEFINE reads == ScannerOf(m).reads
  <1>1. Len(reads) \in Nat \ {0} /\ \A i \in 1..Len(reads) : reads[i].listing \in Listings[m]
    BY AllReads DEF ReadsListings
  <1>2. p \in Nat \ {0}
    BY <1>1, NumbersAssumption DEF Positions
  <1>. HIDE DEF reads
  <1>3. ((p - 1) % Len(reads)) + 1 \in 1..Len(reads)
    BY <1>1, <1>2
  <1>4. ReadingAt(m, p) = reads[((p - 1) % Len(reads)) + 1]
    BY DEF ReadingAt, reads
  <1>5. m = "logs" => reads[1].recorded = TRUE /\ Len(reads) = 1
    BY ScannersAre, SubscriptionReads DEF reads
  <1>. QED BY <1>1, <1>3, <1>4, <1>5 DEF ListingAt

-----------------------------------------------------------------------------
(* What a defect of a resource is, and that the scanner finds it.          *)

LEMMA StoreDefectsAre ==
  ASSUME NEW m
  PROVE  /\ Defects("exposure_map", "storage") = {{"network", "acl"}, {"blob"}}
         /\ Defects(m, "storage") \subseteq
              {{"network", "acl"}, {"blob"}, {"https"}, {"network", "endpoint"}, {"key"},
               {"tls"}, {"users"}}
         /\ Defects("exposure_map", "keyvault") = {{"access", "acl"}}
         /\ Defects(m, "keyvault") \subseteq {{"access", "acl"}, {"purge"}, {"soft"}}
         /\ Defects("exposure_map", "sql") = {{"access"}}
         /\ Defects(m, "sql") \subseteq {{"access"}, {"tls"}}
         /\ Defects(m, "postgres") = {{"access"}}
  BY DEF Defects

LEMMA HostDefectsAre ==
  ASSUME NEW m
  PROVE  /\ Defects("exposure_map", "vms") = {{"ports"}}
         /\ Defects(m, "vms") \subseteq
              {{"ports"}, {"disk"}, {"launch"}, {"identity"}, {"password"}}
         /\ Defects(m, "nsg") =
              {{"source", "management"}, {"source", "wildcard"}, {"source", "dbPort"}}
         /\ Defects("exposure_map", "apps") = {{"https"}}
         /\ Defects(m, "apps") \subseteq {{"https"}, {"ftps"}, {"basic"}}
  BY DEF Defects

LEMMA OtherDefectsAre ==
  ASSUME NEW m
  PROVE  /\ Defects(m, "guests") = {{"signIn"}}
         /\ Defects(m, "assignments") = {{"role", "scope"}}
         /\ Defects(m, "links") = {}
  BY DEF Defects

SingleListings ==
  { "logs", "defender", "policy", "disks", "ips", "plans", "power", "guestRoles", "tags",
    "diagnostics", "encryption", "states" }

LEMMA SingleDefects ==
  ASSUME NEW m, NEW l \in SingleListings
  PROVE  Defects(m, l) = {{f} : f \in Fields[l]}
  BY DEF Defects, SingleListings

\* A resource with all the properties of a defect is on a list whose check fails,
\* in every module that has a posture: no XFindings lets a resource with a flaw of
\* one of its checks slip between its lists.
THEOREM DefectIsFound ==
  ASSUME NEW m \in ModuleNames \ Undecorated, NEW l \in Listings[m], NEW D \in Defects(m, l),
         NEW r, \A f \in D : r[f] = "bad"
  PROVE  FailsCheck(FindingsOf(l, r), ScannerOf(m).checks)
  <1>1. CASE l = "storage"
    <2>1. CASE m = "storage"
      <3>1. D \in {{"network", "acl"}, {"blob"}, {"https"}, {"network", "endpoint"}, {"key"},
                   {"tls"}, {"users"}}
        BY <1>1, StoreDefectsAre
      <3>2. FailsCheck(StorageFindings(r), StorageChecks)
        BY <3>1, StorageDefects
      <3>3. FindingsOf(l, r) = StorageFindings(r) /\ ScannerOf(m).checks = StorageChecks
        BY <1>1, <2>1, ListingFindings, ScannersAre, SubscriptionChecks
      <3>. QED BY <3>2, <3>3
    <2>2. CASE m = "exposure_map"
      <3>1. D \in {{"network", "acl"}, {"blob"}}
        BY <1>1, <2>2, StoreDefectsAre
      <3>2. FailsCheck(StorageFindings(r), ExposureChecks)
        BY <3>1, StorageDefects
      <3>3. FindingsOf(l, r) = StorageFindings(r) /\ ScannerOf(m).checks = ExposureChecks
        BY <1>1, <2>2, ListingFindings, ScannersAre, SubscriptionChecks
      <3>. QED BY <3>2, <3>3
    <2>. QED BY <1>1, <2>1, <2>2 DEF Listings, ModuleNames
  <1>2. CASE l = "vms"
    <2>1. CASE m = "vms"
      <3>1. D \in {{"ports"}, {"disk"}, {"launch"}, {"identity"}, {"password"}}
        BY <1>2, HostDefectsAre
      <3>2. FailsCheck(VmFindings(r), VmChecks)
        BY <3>1, VmDefects
      <3>3. FindingsOf(l, r) = VmFindings(r) /\ ScannerOf(m).checks = VmChecks
        BY <1>2, <2>1, ListingFindings, ScannersAre, SubscriptionChecks
      <3>. QED BY <3>2, <3>3
    <2>2. CASE m = "exposure_map"
      <3>1. D \in {{"ports"}}
        BY <1>2, <2>2, HostDefectsAre
      <3>2. FailsCheck(VmFindings(r), ExposureChecks)
        BY <3>1, VmDefects
      <3>3. FindingsOf(l, r) = VmFindings(r) /\ ScannerOf(m).checks = ExposureChecks
        BY <1>2, <2>2, ListingFindings, ScannersAre, SubscriptionChecks
      <3>. QED BY <3>2, <3>3
    <2>. QED BY <1>2, <2>1, <2>2 DEF Listings, ModuleNames
  <1>3. CASE l = "nsg"
    <2>1. CASE m = "nsg"
      <3>1. D \in {{"source", "management"}, {"source", "wildcard"}, {"source", "dbPort"}}
        BY <1>3, HostDefectsAre
      <3>2. FailsCheck(NsgFindings(r), NsgChecks)
        BY <3>1, NsgDefects
      <3>3. FindingsOf(l, r) = NsgFindings(r) /\ ScannerOf(m).checks = NsgChecks
        BY <1>3, <2>1, ListingFindings, ScannersAre, SubscriptionChecks
      <3>. QED BY <3>2, <3>3
    <2>2. CASE m = "exposure_map"
      <3>1. D \in {{"source", "management"}, {"source", "wildcard"}, {"source", "dbPort"}}
        BY <1>3, <2>2, HostDefectsAre
      <3>2. FailsCheck(NsgFindings(r), ExposureChecks)
        BY <3>1, NsgDefects
      <3>3. FindingsOf(l, r) = NsgFindings(r) /\ ScannerOf(m).checks = ExposureChecks
        BY <1>3, <2>2, ListingFindings, ScannersAre, SubscriptionChecks
      <3>. QED BY <3>2, <3>3
    <2>. QED BY <1>3, <2>1, <2>2 DEF Listings, ModuleNames
  <1>4. CASE l = "keyvault"
    <2>1. CASE m = "keyvault"
      <3>1. D \in {{"access", "acl"}, {"purge"}, {"soft"}}
        BY <1>4, StoreDefectsAre
      <3>2. FailsCheck(KeyVaultFindings(r), KeyVaultChecks)
        BY <3>1, KeyVaultDefects
      <3>3. FindingsOf(l, r) = KeyVaultFindings(r) /\ ScannerOf(m).checks = KeyVaultChecks
        BY <1>4, <2>1, ListingFindings, ScannersAre, SubscriptionChecks
      <3>. QED BY <3>2, <3>3
    <2>2. CASE m = "exposure_map"
      <3>1. D \in {{"access", "acl"}}
        BY <1>4, <2>2, StoreDefectsAre
      <3>2. FailsCheck(KeyVaultFindings(r), ExposureChecks)
        BY <3>1, KeyVaultDefects
      <3>3. FindingsOf(l, r) = KeyVaultFindings(r) /\ ScannerOf(m).checks = ExposureChecks
        BY <1>4, <2>2, ListingFindings, ScannersAre, SubscriptionChecks
      <3>. QED BY <3>2, <3>3
    <2>. QED BY <1>4, <2>1, <2>2 DEF Listings, ModuleNames
  <1>5. CASE l = "sql"
    <2>1. CASE m = "db"
      <3>1. D \in {{"access"}, {"tls"}}
        BY <1>5, StoreDefectsAre
      <3>2. FailsCheck(SqlFindings(r), DbChecks)
        BY <3>1, DbDefects
      <3>3. FindingsOf(l, r) = SqlFindings(r) /\ ScannerOf(m).checks = DbChecks
        BY <1>5, <2>1, ListingFindings, ScannersAre, SubscriptionChecks
      <3>. QED BY <3>2, <3>3
    <2>2. CASE m = "exposure_map"
      <3>1. D \in {{"access"}}
        BY <1>5, <2>2, StoreDefectsAre
      <3>2. FailsCheck(SqlFindings(r), ExposureChecks)
        BY <3>1, DbDefects
      <3>3. FindingsOf(l, r) = SqlFindings(r) /\ ScannerOf(m).checks = ExposureChecks
        BY <1>5, <2>2, ListingFindings, ScannersAre, SubscriptionChecks
      <3>. QED BY <3>2, <3>3
    <2>. QED BY <1>5, <2>1, <2>2 DEF Listings, ModuleNames
  <1>6. CASE l = "postgres"
    <2>1. CASE m = "db"
      <3>1. D \in {{"access"}}
        BY <1>6, StoreDefectsAre
      <3>2. FailsCheck(PostgresFindings(r), DbChecks)
        BY <3>1, DbDefects
      <3>3. FindingsOf(l, r) = PostgresFindings(r) /\ ScannerOf(m).checks = DbChecks
        BY <1>6, <2>1, ListingFindings, ScannersAre, SubscriptionChecks
      <3>. QED BY <3>2, <3>3
    <2>2. CASE m = "exposure_map"
      <3>1. D \in {{"access"}}
        BY <1>6, <2>2, StoreDefectsAre
      <3>2. FailsCheck(PostgresFindings(r), ExposureChecks)
        BY <3>1, DbDefects
      <3>3. FindingsOf(l, r) = PostgresFindings(r) /\ ScannerOf(m).checks = ExposureChecks
        BY <1>6, <2>2, ListingFindings, ScannersAre, SubscriptionChecks
      <3>. QED BY <3>2, <3>3
    <2>. QED BY <1>6, <2>1, <2>2 DEF Listings, ModuleNames
  <1>7. CASE l = "apps"
    <2>1. CASE m = "appservices"
      <3>1. D \in {{"https"}, {"ftps"}, {"basic"}}
        BY <1>7, HostDefectsAre
      <3>2. FailsCheck(AppFindings(r), AppChecks)
        BY <3>1, AppDefects
      <3>3. FindingsOf(l, r) = AppFindings(r) /\ ScannerOf(m).checks = AppChecks
        BY <1>7, <2>1, ListingFindings, ScannersAre, SubscriptionChecks
      <3>. QED BY <3>2, <3>3
    <2>2. CASE m = "exposure_map"
      <3>1. D \in {{"https"}}
        BY <1>7, <2>2, HostDefectsAre
      <3>2. FailsCheck(AppFindings(r), ExposureChecks)
        BY <3>1, AppDefects
      <3>3. FindingsOf(l, r) = AppFindings(r) /\ ScannerOf(m).checks = ExposureChecks
        BY <1>7, <2>2, ListingFindings, ScannersAre, SubscriptionChecks
      <3>. QED BY <3>2, <3>3
    <2>. QED BY <1>7, <2>1, <2>2 DEF Listings, ModuleNames
  <1>8. CASE l = "guests"
    <2>1. m = "entra_b2b"
      BY <1>8 DEF Listings, ModuleNames
    <2>2. D \in {{"signIn"}}
      BY <1>8, OtherDefectsAre
    <2>3. FailsCheck(GuestFindings(r), GuestChecks)
      BY <2>2, DirectoryDefects
    <2>4. FindingsOf(l, r) = GuestFindings(r) /\ ScannerOf(m).checks = GuestChecks
      BY <1>8, <2>1, ListingFindings, ScannersAre, TenantChecks
    <2>. QED BY <2>3, <2>4
  <1>9. CASE l = "guestRoles"
    <2>1. m = "entra_b2b"
      BY <1>9 DEF Listings, ModuleNames
    <2>2. D \in {{"admin"}}
      BY <1>9, SingleDefects DEF SingleListings, Fields
    <2>3. FailsCheck(GuestRoleFindings(r), GuestChecks)
      BY <2>2, DirectoryDefects
    <2>4. FindingsOf(l, r) = GuestRoleFindings(r) /\ ScannerOf(m).checks = GuestChecks
      BY <1>9, <2>1, ListingFindings, ScannersAre, TenantChecks
    <2>. QED BY <2>3, <2>4
  <1>10. CASE l = "tags"
    <2>1. m = "tags"
      BY <1>10 DEF Listings, ModuleNames
    <2>2. D \in {{"tags"}, {"mandatory"}}
      BY <1>10, SingleDefects DEF SingleListings, Fields
    <2>3. FailsCheck(TagFindings(r), TagChecks)
      BY <2>2, DirectoryDefects
    <2>4. FindingsOf(l, r) = TagFindings(r) /\ ScannerOf(m).checks = TagChecks
      BY <1>10, <2>1, ListingFindings, ScannersAre, TenantChecks
    <2>. QED BY <2>3, <2>4
  <1>11. CASE l = "diagnostics"
    <2>1. m = "diagnostic_coverage"
      BY <1>11 DEF Listings, ModuleNames
    <2>2. D \in {{"setting"}}
      BY <1>11, SingleDefects DEF SingleListings, Fields
    <2>3. FailsCheck(DiagnosticFindings(r), DiagnosticChecks)
      BY <2>2, DirectoryDefects
    <2>4. FindingsOf(l, r) = DiagnosticFindings(r) /\ ScannerOf(m).checks = DiagnosticChecks
      BY <1>11, <2>1, ListingFindings, ScannersAre, TenantChecks
    <2>. QED BY <2>3, <2>4
  <1>12. CASE l = "encryption"
    <2>1. m = "encryption_coverage"
      BY <1>12 DEF Listings, ModuleNames
    <2>2. D \in {{"encryption"}}
      BY <1>12, SingleDefects DEF SingleListings, Fields
    <2>3. FailsCheck(evaluateEncryption(r), EncryptionChecks)
      BY <2>2, DirectoryDefects
    <2>4. FindingsOf(l, r) = evaluateEncryption(r) /\ ScannerOf(m).checks = EncryptionChecks
      BY <1>12, <2>1, ListingFindings, ScannersAre, TenantChecks
    <2>. QED BY <2>3, <2>4
  <1>13. CASE l = "assignments"
    <2>1. m = "azure_rbac_exposure"
      BY <1>13 DEF Listings, ModuleNames
    <2>2. D \in {{"role", "scope"}}
      BY <1>13, OtherDefectsAre
    <2>3. FailsCheck(AssignmentFindings(r), AssignmentChecks)
      BY <2>2, DirectoryDefects
    <2>4. FindingsOf(l, r) = AssignmentFindings(r) /\ ScannerOf(m).checks = AssignmentChecks
      BY <1>13, <2>1, ListingFindings, ScannersAre, TenantChecks
    <2>. QED BY <2>3, <2>4
  <1>14. CASE l = "states"
    <2>1. m = "policy_compliance"
      BY <1>14 DEF Listings, ModuleNames
    <2>2. D \in {{"state"}}
      BY <1>14, SingleDefects DEF SingleListings, Fields
    <2>3. FailsCheck(PolicyStateFindings(r), PolicyStateChecks)
      BY <2>2, DirectoryDefects
    <2>4. FindingsOf(l, r) = PolicyStateFindings(r) /\ ScannerOf(m).checks = PolicyStateChecks
      BY <1>14, <2>1, ListingFindings, ScannersAre, TenantChecks
    <2>. QED BY <2>3, <2>4
  <1>15. CASE l = "logs"
    <2>1. m = "logs"
      BY <1>15 DEF Listings, ModuleNames
    <2>2. D \in {{"retention"}}
      BY <1>15, SingleDefects DEF SingleListings, Fields
    <2>3. FailsCheck(LogFindings(r), LogChecks)
      BY <2>2, SettingDefects
    <2>4. FindingsOf(l, r) = LogFindings(r) /\ ScannerOf(m).checks = LogChecks
      BY <1>15, <2>1, ListingFindings, ScannersAre, SubscriptionChecks
    <2>. QED BY <2>3, <2>4
  <1>16. CASE l = "defender"
    <2>1. m = "governance"
      BY <1>16 DEF Listings, ModuleNames
    <2>2. D \in {{"plan"}}
      BY <1>16, SingleDefects DEF SingleListings, Fields
    <2>3. FailsCheck(DefenderFindings(r), GovernanceChecks)
      BY <2>2, SettingDefects
    <2>4. FindingsOf(l, r) = DefenderFindings(r) /\ ScannerOf(m).checks = GovernanceChecks
      BY <1>16, <2>1, ListingFindings, ScannersAre, SubscriptionChecks
    <2>. QED BY <2>3, <2>4
  <1>17. CASE l = "policy"
    <2>1. m = "governance"
      BY <1>17 DEF Listings, ModuleNames
    <2>2. D \in {{"initiative"}}
      BY <1>17, SingleDefects DEF SingleListings, Fields
    <2>3. FailsCheck(PolicyFindings(r), GovernanceChecks)
      BY <2>2, SettingDefects
    <2>4. FindingsOf(l, r) = PolicyFindings(r) /\ ScannerOf(m).checks = GovernanceChecks
      BY <1>17, <2>1, ListingFindings, ScannersAre, SubscriptionChecks
    <2>. QED BY <2>3, <2>4
  <1>18. CASE l = "disks"
    <2>1. m = "finops"
      BY <1>18 DEF Listings, ModuleNames
    <2>2. D \in {{"attached"}}
      BY <1>18, SingleDefects DEF SingleListings, Fields
    <2>3. FailsCheck(DiskFindings(r), FinOpsChecks)
      BY <2>2, SettingDefects
    <2>4. FindingsOf(l, r) = DiskFindings(r) /\ ScannerOf(m).checks = FinOpsChecks
      BY <1>18, <2>1, ListingFindings, ScannersAre, SubscriptionChecks
    <2>. QED BY <2>3, <2>4
  <1>19. CASE l = "ips"
    <2>1. m = "finops"
      BY <1>19 DEF Listings, ModuleNames
    <2>2. D \in {{"attached"}}
      BY <1>19, SingleDefects DEF SingleListings, Fields
    <2>3. FailsCheck(IpFindings(r), FinOpsChecks)
      BY <2>2, SettingDefects
    <2>4. FindingsOf(l, r) = IpFindings(r) /\ ScannerOf(m).checks = FinOpsChecks
      BY <1>19, <2>1, ListingFindings, ScannersAre, SubscriptionChecks
    <2>. QED BY <2>3, <2>4
  <1>20. CASE l = "plans"
    <2>1. m = "finops"
      BY <1>20 DEF Listings, ModuleNames
    <2>2. D \in {{"sites"}}
      BY <1>20, SingleDefects DEF SingleListings, Fields
    <2>3. FailsCheck(PlanFindings(r), FinOpsChecks)
      BY <2>2, SettingDefects
    <2>4. FindingsOf(l, r) = PlanFindings(r) /\ ScannerOf(m).checks = FinOpsChecks
      BY <1>20, <2>1, ListingFindings, ScannersAre, SubscriptionChecks
    <2>. QED BY <2>3, <2>4
  <1>21. CASE l = "power"
    <2>1. m = "finops"
      BY <1>21 DEF Listings, ModuleNames
    <2>2. D \in {{"power"}}
      BY <1>21, SingleDefects DEF SingleListings, Fields
    <2>3. FailsCheck(PowerFindings(r), FinOpsChecks)
      BY <2>2, SettingDefects
    <2>4. FindingsOf(l, r) = PowerFindings(r) /\ ScannerOf(m).checks = FinOpsChecks
      BY <1>21, <2>1, ListingFindings, ScannersAre, SubscriptionChecks
    <2>. QED BY <2>3, <2>4
  <1>22. l # "links"
    BY OtherDefectsAre
  <1>. QED
    BY <1>1, <1>2, <1>3, <1>4, <1>5, <1>6, <1>7, <1>8, <1>9, <1>10, <1>11, <1>12, <1>13, <1>14, <1>15, <1>16, <1>17, <1>18, <1>19, <1>20, <1>21, <1>22
       DEF Listings, ModuleNames, Undecorated

\* The properties of a defect are those of the resource.
LEMMA DefectsAreFields ==
  ASSUME NEW m \in ModuleNames \ Undecorated, NEW l \in Listings[m], NEW D \in Defects(m, l)
  PROVE  D \subseteq Fields[l]
  <1>1. CASE l \in {"storage", "keyvault", "sql", "postgres"}
    BY <1>1, StoreDefectsAre DEF Fields
  <1>2. CASE l \in {"vms", "nsg", "apps"}
    BY <1>2, HostDefectsAre DEF Fields
  <1>3. CASE l \in {"guests", "assignments", "links"}
    BY <1>3, OtherDefectsAre DEF Fields
  <1>4. CASE l \in SingleListings
    BY <1>4, SingleDefects
  <1>. QED
    BY <1>1, <1>2, <1>3, <1>4 DEF Listings, ModuleNames, Undecorated, SingleListings

-----------------------------------------------------------------------------
(* What a posture of PASS says of the estate.                              *)

\* A result that passes has no check FAILED.
LEMMA PassMeansNoCheck ==
  ASSUME NEW erred, NEW found, Posture(erred, found) = "PASS"
  PROVE  module \notin Undecorated /\ \A k \in found : k \notin DOMAIN ScannerOf(module).checks
  <1>1. module \notin Undecorated /\ FailedChecks(module, found) = {}
    BY DEF Posture, computeSecurityPosture
  <1>. QED BY <1>1 DEF FailedChecks

LEMMA PassEarned == TypeOK /\ GraphAsks /\ UnreadNeverPasses /\ Decided => PassIsEarned
  <1>. SUFFICES ASSUME TypeOK, GraphAsks, UnreadNeverPasses, Decided, Passes
                PROVE  /\ \A p \in present : \A D \in Defects(module, Listing(p)) :
                            Flawed(p, D) => Hidden(p, D) \/ Unrecognized(p, D)
                       /\ module = "logs" => present = DOMAIN read
    BY DEF PassIsEarned
  <1>1. Posture(Erred, Found) = "PASS"
    BY DEF Decided, Passes
  <1>2. Failures = {} /\ report # "lost"
    BY <1>1, PassMeansNoError DEF Erred
  <1>3. module \in ModuleNames \ Undecorated
    BY <1>1, PassMeansNoCheck, ModulesAssumption DEF TypeOK
  <1>4. ASSUME NEW p \in DOMAIN read, NEW k \in FoundAt[p]
        PROVE  k \notin DOMAIN ScannerOf(module).checks
    BY <1>1, <1>4, PassMeansNoCheck DEF Found
  <1>5. DOMAIN read = Positions(module) /\ present \subseteq Positions(module)
    BY DEF TypeOK
  <1>6. ASSUME NEW p \in present, NEW D \in Defects(module, Listing(p)),
               Flawed(p, D), ~Hidden(p, D), ~Unrecognized(p, D)
        PROVE  FALSE
    <2>0. \A f \in D : Fact(p)[f] = "bad"
      BY <1>6 DEF Flawed, Unrecognized
    <2>1. read[p] \in {"whole", "cut"}
      BY DEF UnreadNeverPasses
    <2>2. Listing(p) \in Listings[module]
      BY <1>3, <1>5, PositionIsReading DEF Listing, Reading, ListingAt
    <2>3. read[p] = "cut" => D \cap DOMAIN Reading(p).detail = {}
      BY <1>2, <1>5, <1>6 DEF Failures, Hidden
    <2>4. D \subseteq Fields[Listing(p)]
      BY <1>3, <2>2, DefectsAreFields
    <2>5. \A f \in D : AsRead(p)[f] = "bad"
      BY <1>2, <2>0, <2>3, <2>4 DEF AsRead
    <2>6. FailsCheck(FindingsOf(Listing(p), AsRead(p)), ScannerOf(module).checks)
      BY <1>3, <2>2, <2>5, DefectIsFound
    <2>7. FoundAt[p] = Findings(Listing(p), AsRead(p))
      BY <1>5, <2>1 DEF FoundAt, Processed
    <2>. QED BY <1>4, <1>5, <2>6, <2>7 DEF FailsCheck, Findings
  <1>7. ASSUME module = "logs", NEW p \in DOMAIN read, p \notin present
        PROVE  FALSE
    <2>1. query = "none"
      BY <1>7 DEF GraphAsks, GraphModules
    <2>2. Reading(p).recorded = TRUE /\ Listing(p) \in Listings["logs"]
      BY <1>3, <1>5, <1>7, PositionIsReading DEF Reading, Listing, ListingAt
    <2>3. read[p] \in {"whole", "cut"}
      BY <2>1 DEF UnreadNeverPasses
    <2>4. read[p] = "whole"
      BY <1>2, <2>2, <2>3 DEF Failures
    <2>5. Listing(p) = "logs"
      BY <2>2 DEF Listings
    <2>6. NothingThere("logs") = {"noWorkspace"}
      BY DEF NothingThere
    <2>7. FoundAt[p] = {"noWorkspace"}
      BY <1>7, <2>4, <2>5, <2>6 DEF FoundAt, Processed
    <2>8. ScannerOf(module).checks = LogChecks
      BY <1>7, ScannersAre, SubscriptionChecks
    <2>. QED BY <1>4, <2>7, <2>8 DEF LogChecks
  <1>. QED BY <1>5, <1>6, <1>7

\* In any estate of any size, a resource with a flaw that a check names escapes a
\* PASS in two ways only: a swallowed detail request hid it, or it shows in a value
\* the scanner compares with nothing (Owner's id, a range of ports, ::/0).
THEOREM PassHolds == Spec => []PassIsEarned
  <1>1. Inv => TypeOK /\ GraphAsks /\ UnreadNeverPasses
    BY DEF Inv
  <1>. QED BY <1>1, PassEarned, InvHolds, DecidedHolds, PTL

-----------------------------------------------------------------------------
(* What a module shows of an estate with nothing wrong, wholly read.       *)

\* The listings a module has to itself, and those with properties.
LEMMA ListingOwners ==
  ASSUME NEW m \in ModuleNames
  PROVE  /\ Listings[m] \subseteq DOMAIN Fields
         /\ "logs" \in Listings[m] => m = "logs"
         /\ "policySet" \in Listings[m] => m = "entra"
  BY DEF Listings, ModuleNames, Fields

LEMMA ProductPositive ==
  ASSUME NEW a \in Nat \ {0}, NEW b \in Nat \ {0}
  PROVE  1 \in 1..a /\ 1 \in 1..(a * b)
  <1>1. a * b >= 1
    OBVIOUS
  <1>. QED BY <1>1

\* The scanners that give up when nothing was read have positions to read.
LEMMA ListedSomewhere ==
  ASSUME NEW m \in ModuleNames, ScannerOf(m).fails = "nothing read"
  PROVE  Positions(m) # {}
  <1>1. m \notin GraphModules
    BY DEF GraphModules, ScannerOf, Scanner, Graph, auditTags, auditDiagnosticCoverage,
       auditEncryptionCoverage, auditAzureRbacExposure, auditPrivateLinkCoverage,
       auditPolicyCompliance
  <1>. DEFINE length == Len(ScannerOf(m).reads)
  <1>2. length \in Nat \ {0}
    BY AllReads DEF ReadsListings
  <1>. HIDE DEF length
  <1>3. 1 \in 1..length /\ 1 \in 1..(length * Copies)
    BY <1>2, NumbersAssumption, ProductPositive
  <1>. QED BY <1>1, <1>3 DEF Positions, length

LEMMA PositionsFinite ==
  ASSUME NEW m \in ModuleNames
  PROVE  IsFiniteSet(Positions(m))
  <1>. DEFINE length == Len(ScannerOf(m).reads)
  <1>1. length \in Nat \ {0}
    BY AllReads DEF ReadsListings
  <1>. HIDE DEF length
  <1>2. length * Copies \in Int /\ length \in Int /\ Rows \in Int /\ 1 \in Int
    BY <1>1, NumbersAssumption
  <1>. QED BY <1>2, FS_Interval DEF Positions, length

LEMMA TotalIsNatural == TypeOK => KpiTotal \in Nat
  <1>. SUFFICES ASSUME TypeOK PROVE KpiTotal \in Nat
    OBVIOUS
  <1>1. IsFiniteSet(Positions(module)) /\ present \subseteq Positions(module)
    BY PositionsFinite, ModulesAssumption DEF TypeOK
  <1>2. ASSUME NEW P \in SUBSET Processed PROVE Cardinality(P) \in Nat
    <2>1. P \subseteq Positions(module)
      BY <1>1 DEF Processed
    <2>. QED BY <1>1, <2>1, FS_Subset, FS_CardinalityType
  <1>. DEFINE kept == {p \in Processed : Listing(p) = "guests" /\ read[p] # "broke"}
  <1>3. Cardinality(kept) \in Nat /\ Cardinality(Processed) \in Nat
    BY <1>2
  <1>4. Analyzed \in {Copies, 0, Cardinality(kept), Cardinality(Processed)}
    BY DEF Analyzed
  <1>5. Cardinality(Supported) \in Nat
    BY <1>2 DEF Supported
  <1>. QED BY <1>3, <1>4, <1>5, NumbersAssumption DEF KpiTotal

\* No KPI alerts when it counts nothing.
LEMMA NothingNeverAlerts ==
  ASSUME NEW k, KpiBounds(k), NEW total \in Nat
  PROVE  /\ k.share => statusFromCoverage(0, total, k.warning, k.critical) \notin {"WARN", "FAIL"}
         /\ ~k.share => statusFromRiskCount(0, k.warning, k.critical) \notin {"WARN", "FAIL"}
  <1>1. CASE k.share
    <2>1. k.warning \in 0..100 /\ k.critical \in 0..100
      BY <1>1 DEF KpiBounds
    <2>2. ASSUME NEW c \in 0..100 PROVE ~(100 * total < c * total)
      OBVIOUS
    <2>3. ~(0 > total) /\ total - 0 = total
      OBVIOUS
    <2>. QED BY <1>1, <2>1, <2>2, <2>3 DEF statusFromCoverage
  <1>2. CASE ~k.share
    BY <1>2 DEF KpiBounds, statusFromRiskCount
  <1>. QED BY <1>1, <1>2

LEMMA NothingCounted ==
  ASSUME NEW kinds, \A p \in DOMAIN FoundAt : FoundAt[p] = {}
  PROVE  Count(FoundAt, kinds) = 0
  <1>1. {x \in (DOMAIN FoundAt) \X kinds : x[2] \in FoundAt[x[1]]} = {}
    OBVIOUS
  <1>. QED BY <1>1, FS_EmptySet DEF Count

\* Without a flaw, the listings of a module that were read give no finding.
LEMMA FlawlessFindsNothing ==
  ASSUME TypeOK, flaws = {}, report # "lost", \A p \in DOMAIN read : read[p] \in {"whole", "pending"},
         module \in {"logs", "entra"} => present = DOMAIN read
  PROVE  \A p \in DOMAIN read : FoundAt[p] = {}
  <1>. SUFFICES ASSUME NEW p \in DOMAIN read PROVE FoundAt[p] = {}
    OBVIOUS
  <1>1. module \in ModuleNames /\ p \in Positions(module)
    BY ModulesAssumption DEF TypeOK
  <1>2. Listing(p) \in Listings[module]
    BY <1>1, PositionIsReading DEF Listing, Reading, ListingAt
  <1>3. CASE p \in Processed
    <2>1. \A f \in Fields[Listing(p)] : Fact(p)[f] = "good"
      BY DEF Fact, Listing, Reading, ListingAt
    <2>2. \A f \in Fields[Listing(p)] : AsRead(p)[f] = "good"
      BY <2>1 DEF AsRead
    <2>3. Findings(Listing(p), AsRead(p)) = {}
      BY <1>1, <1>2, <2>2, ListingOwners, GoodFindsNothing
    <2>. QED BY <1>3, <2>3 DEF FoundAt
  <1>4. CASE p \notin Processed
    <2>1. read[p] = "whole" => Listing(p) \notin {"logs", "policySet"}
      BY <1>1, <1>2, <1>4, ListingOwners DEF Processed
    <2>2. Listing(p) \notin {"logs", "policySet"} => NothingThere(Listing(p)) = {}
      BY DEF NothingThere
    <2>. QED BY <1>4, <2>1, <2>2 DEF FoundAt
  <1>. QED BY <1>3, <1>4

LEMMA AlarmEarned == TypeOK /\ Decided => AlarmIsReal
  <1>. SUFFICES ASSUME TypeOK, Decided, verdict # None, ~verdict.threw,
                       query \in {"none", "complete"}, report # "lost",
                       \A p \in DOMAIN read : read[p] \in {"whole", "pending"},
                       flaws = {}, module \in {"logs", "entra"} => present = DOMAIN read
                PROVE  /\ verdict.posture \notin {"WARN", "FAIL"}
                       /\ {"WARN", "FAIL"} \cap verdict.kpis = {}
    BY DEF AlarmIsReal
  <1>1. module \in ModuleNames
    BY ModulesAssumption DEF TypeOK
  <1>2. \A p \in DOMAIN read : FoundAt[p] = {}
    BY FlawlessFindsNothing
  <1>3. Found = {}
    BY <1>2 DEF Found
  <1>4. Failures = {} /\ Erred = FALSE
    BY DEF Failures, Erred
  <1>5. RawStatus(FALSE, {}) = "SUCCESS"
    <2>1. ScannerOf(module).fails = "nothing read" => Failures # DOMAIN read
      BY <1>1, <1>4, ListedSomewhere DEF TypeOK
    <2>. QED BY <2>1 DEF RawStatus
  <1>6. Posture(FALSE, {}) \in {"PASS", "NONE"}
    <2>1. FailedChecks(module, {}) = {}
      BY DEF FailedChecks
    <2>2. module \notin Undecorated => Execution(FALSE, {}) = "SUCCESS"
      BY <1>5 DEF Execution, computeExecutionStatus, InDetails
    <2>. QED BY <2>1, <2>2 DEF Posture, computeSecurityPosture, InDetails
  <1>7. ASSUME NEW k \in KpisOf(module) PROVE KpiStatus(k) \notin {"WARN", "FAIL"}
    <2>1. Count(FoundAt, k.of) = 0
      <3>1. DOMAIN FoundAt = DOMAIN read
        BY DEF FoundAt
      <3>. QED BY <1>2, <3>1, NothingCounted
    <2>2. KpiBounds(k)
      BY <1>1, KpisBounded DEF AllBounded
    <2>3. k.share \in BOOLEAN
      BY <2>2 DEF KpiBounds
    <2>. QED BY <2>1, <2>2, <2>3, TotalIsNatural, NothingNeverAlerts DEF KpiStatus
  <1>8. /\ verdict.posture = Posture(FALSE, {})
        /\ verdict.kpis = {KpiStatus(k) : k \in KpisOf(module)}
    BY <1>3, <1>4 DEF Decided
  <1>. QED BY <1>6, <1>7, <1>8

\* When everything was read, a posture that is not PASS and a KPI that alerts
\* come from a resource of the estate with some property that is not good.
THEOREM AlarmHolds == Spec => []AlarmIsReal
  BY AlarmEarned, TypeCorrect, DecidedHolds, PTL
=============================================================================
