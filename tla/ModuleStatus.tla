---------------------------- MODULE ModuleStatus ----------------------------
(***************************************************************************)
(* The verdict the worker gives a module of an audit: the execution status *)
(* and the security posture of src/lib/status-semantics.js and the KPI     *)
(* statuses of src/lib/kpi-engine.js.  Pure operators on what a scanner    *)
(* leaves behind: its own status, whether it recorded errors, how many     *)
(* resources it analysed and the severities of its FAILED checks.          *)
(***************************************************************************)
EXTENDS Naturals

Severities == {"CRITICAL", "HIGH", "MEDIUM", "LOW", "INFO"}
RawStatuses == {"SUCCESS", "PARTIAL", "FAILED"}
Executions == {"SUCCESS", "PARTIAL", "FAILED"}
Postures == {"PASS", "WARN", "FAIL"}

\* threw: the result carries an error; erred: details.partialErrors is not
\* empty; analyzed: what getAnalyzedCount finds.
computeExecutionStatus(threw, raw, erred, analyzed) ==
  IF threw \/ (analyzed = 0 /\ (erred \/ raw = "FAILED")) THEN "FAILED"
  ELSE IF erred \/ raw = "PARTIAL" THEN "PARTIAL"
  ELSE "SUCCESS"

\* Mutant: what the execution says is looked at before the checks.
PostureByExecution(execution, erred, failed) ==
  IF execution = "FAILED" THEN "FAIL"
  ELSE IF execution = "PARTIAL" \/ erred THEN "WARN"
  ELSE IF failed \cap {"HIGH", "CRITICAL"} # {} THEN "FAIL"
  ELSE IF failed # {} THEN "WARN"
  ELSE "PASS"

\* failed: the severities of the checks whose status is FAILED; a check with
\* any other status, WARNING included, does not count.
computeSecurityPosture(execution, erred, failed) ==
  IF execution = "FAILED" \/ failed \cap {"HIGH", "CRITICAL"} # {} THEN "FAIL"
  ELSE IF execution = "PARTIAL" \/ erred \/ failed # {} THEN "WARN"
  ELSE "PASS"

\* The verdict on all the modules, from the set of theirs.
rollupExecutionStatus(executions) ==
  CASE "FAILED" \in executions -> "FAILED"
    [] "FAILED" \notin executions /\ "PARTIAL" \in executions -> "PARTIAL"
    [] OTHER -> "SUCCESS"

rollupSecurityPosture(postures) ==
  CASE "FAIL" \in postures -> "FAIL"
    [] "FAIL" \notin postures /\ "WARN" \in postures -> "WARN"
    [] OTHER -> "PASS"

Rank(posture) == CASE posture = "PASS" -> 0
                   [] posture = "WARN" -> 1
                   [] posture = "FAIL" -> 2

\* Mutant: nothing to cover is no coverage.
CoverageOfNothing(bad, total, warningBelow, criticalBelow) ==
  IF total = 0 \/ 100 * (total - bad) < criticalBelow * total THEN "FAIL"
  ELSE IF 100 * (total - bad) < warningBelow * total THEN "WARN"
  ELSE "PASS"

\* A coverage KPI: the share of total resources that are not among the bad.
statusFromCoverage(bad, total, warningBelow, criticalBelow) ==
  LET compliant == IF bad > total THEN 0 ELSE total - bad
  IN  IF total = 0 THEN "UNKNOWN"
      ELSE IF 100 * compliant < criticalBelow * total THEN "FAIL"
      ELSE IF 100 * compliant < warningBelow * total THEN "WARN"
      ELSE "PASS"

statusFromRiskCount(count, warningAt, criticalAt) ==
  IF count >= criticalAt THEN "FAIL"
  ELSE IF count >= warningAt THEN "WARN"
  ELSE "PASS"
=============================================================================
