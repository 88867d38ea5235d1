----------------------------- MODULE ModuleAudit ----------------------------
(***************************************************************************)
(* One attempt of a worker to audit one module: the scanner reads its      *)
(* listings, or pages through Resource Graph, against an Azure that may    *)
(* fail each request, and its result becomes a verdict.  The estate of the *)
(* customer is chosen in the initial state; what the properties compare is *)
(* the verdict with that estate and with what was read of it.              *)
(*                                                                         *)
(* The positions of a module are the listings it reads, one after the      *)
(* other; each holds at most one resource.  Those of a Resource Graph      *)
(* module are the rows of its query.                                       *)
(***************************************************************************)
EXTENDS Scanners, ModuleStatus

CONSTANTS
  Modules,        \* the modules audited
  Copies,         \* subscriptions (privileged roles, for the identity module)
  Rows,           \* rows Resource Graph may hold
  MaxRows,        \* rows a query keeps, AZURE_RESOURCE_GRAPH_MAX_ROWS
  MaxPages,       \* pages a query asks for, AZURE_RESOURCE_GRAPH_MAX_PAGES
  None

ASSUME ModulesAssumption == Modules \subseteq ModuleNames
ASSUME NumbersAssumption ==
  /\ Copies \in Nat \ {0} /\ Rows \in Nat
  /\ MaxRows \in Nat \ {0} /\ MaxPages \in Nat \ {0}
ASSUME NoneAssumption == None \notin [execution: Executions, posture: Postures \cup {"NONE"},
                                      kpis: SUBSET STRING, threw: BOOLEAN]

VARIABLES
  module,         \* the module audited
  present,        \* the positions that hold a resource
  flaws,          \* <<position, field, value>>: the properties that are not good
  read,           \* how each position was read
  report,         \* the report read once for all resources, where there is one
  query,          \* the Resource Graph query, where there is one
  pages,          \* pages it has processed
  verdict         \* the decorated result of the module

estate == <<module, present, flaws>>
vars == <<module, present, flaws, read, report, query, pages, verdict>>

GraphModules ==
  { "tags", "diagnostic_coverage", "encryption_coverage", "azure_rbac_exposure",
    "private_link_coverage", "policy_compliance" }
\* The tenant's own modules, and the exposure map, whose scanners run at once:
\* what each of them reads of all the subscriptions is one position.
SingleModules == {"entra", "entra_b2b", "exposure_map"}
\* Results that do not pass through decorateModuleStatus.
Undecorated == {"entra", "identity_admin_posture"}
Reports == {"diagnostic_coverage", "identity_admin_posture"}

Positions(m) ==
  IF m \in GraphModules THEN 1..Rows
  ELSE LET length == Len(ScannerOf(m).reads) IN
       IF m \in SingleModules THEN 1..length ELSE 1..(length * Copies)

\* The reading at position p: a scanner goes through its listings for each
\* subscription in turn.
ReadingAt(m, p) == LET reads == ScannerOf(m).reads IN reads[((p - 1) % Len(reads)) + 1]
ListingAt(m, p) == ReadingAt(m, p).listing

FlawsOf(m) ==
  { x \in Positions(m) \X (UNION {Fields[l] : l \in DOMAIN Fields}) \X (Values \ {"good"}) :
      x[2] \in Fields[ListingAt(m, x[1])] /\ x[3] \in ValuesOf(x[2]) }

\* A subscription itself is what the governance scanner reads of it.
Estate(m, S, F) ==
  /\ m = "governance" => S = Positions(m)
  /\ m \in GraphModules => \E k \in 0..Rows : S = 1..k
  /\ \A x \in F : x[1] \in S
  /\ \A x, y \in F : x[1] = y[1] /\ x[2] = y[2] => x = y

Fact(p) ==
  [f \in Fields[ListingAt(module, p)] |->
     IF \E v \in Values : <<p, f, v>> \in flaws
     THEN CHOOSE v \in Values : <<p, f, v>> \in flaws
     ELSE "good"]

Start(m, S, F) ==
  /\ module = m /\ present = S /\ flaws = F
  /\ read = [p \in Positions(m) |-> "pending"]
  /\ report = IF m \in Reports THEN "pending" ELSE "none"
  /\ query = IF m \in GraphModules THEN "open" ELSE "none"
  /\ pages = 0 /\ verdict = None

Init == \E m \in Modules :
          \E S \in SUBSET Positions(m), F \in SUBSET FlawsOf(m) :
            Estate(m, S, F) /\ Start(m, S, F)
-----------------------------------------------------------------------------
(***************************************************************************)
(* Reading.                                                                *)
(***************************************************************************)
\* The listings are read in order, each once the one before has settled.
Turn(p) ==
  /\ verdict = None /\ query = "none"
  /\ p \in DOMAIN read /\ read[p] = "pending"
  /\ \A q \in DOMAIN read : q < p => read[q] # "pending"

Reading(p) == ReadingAt(module, p)
Listing(p) == Reading(p).listing

Reads(p, how) ==
  /\ read' = [read EXCEPT ![p] = how]
  /\ UNCHANGED <<estate, report, query, pages, verdict>>

ReadWhole(p) == Turn(p) /\ Reads(p, "whole")

\* The firewall of a server is asked for only if it is open to the network.
AsksDetail(p) ==
  /\ p \in present /\ DOMAIN Reading(p).detail # {}
  /\ Listing(p) = "sql" => ~Good(Fact(p).access)
  /\ Listing(p) = "postgres" => Bad(Fact(p).access)

\* The listing is read and the request for the details of its resource fails.
ReadCut(p) == Turn(p) /\ AsksDetail(p) /\ Reads(p, "cut")

\* The listing fails after its resource was processed.
ReadBreaks(p) == Turn(p) /\ p \in present /\ Reading(p).streamed /\ Reads(p, "broke")

\* The listing fails before any resource of it was processed.
ReadFails(p) == Turn(p) /\ Reads(p, "lost")

\* The members of the Global Administrator role fail to load: the catch block
\* is outside the request for the risky sign-ins, which is never made.
MembersFail(p) ==
  /\ Turn(p) /\ Listing(p) = "admins" /\ p \in present
  /\ read' = [q \in DOMAIN read |->
                IF q = p \/ Listing(q) = "signIns" THEN "lost" ELSE read[q]]
  /\ UNCHANGED <<estate, report, query, pages, verdict>>

\* The registrations of the members, the diagnostic settings of the resources.
ReadReport ==
  /\ verdict = None /\ report = "pending"
  /\ report' \in {"whole", "lost"}
  /\ UNCHANGED <<estate, read, query, pages, verdict>>

(***************************************************************************)
(* Paging through Resource Graph (src/lib/resource-graph.js).              *)
(***************************************************************************)
Taken == {p \in DOMAIN read : read[p] = "whole"}
Remaining == MaxRows - Cardinality(Taken)

\* Mutant: a page that brings too much is kept whole.
KeptAsSent(n) == n

\* What is kept of a page of n rows.
Kept(n) == IF n > Remaining THEN Remaining ELSE n

\* Mutant: a page that fills the last row ends the query as complete.
AfterPageUnflagged(n, token) ==
  IF n > Remaining THEN "truncated"
  ELSE IF ~token \/ n = Remaining THEN "complete"
  ELSE "open"

AfterPage(n, token) ==
  IF n > Remaining THEN "truncated"
  ELSE IF ~token THEN "complete"
  ELSE IF n = Remaining THEN "truncated"
  ELSE "open"

\* The server answers with the next n rows, which may be more or less than the
\* page asked for, and with a token if there are more or if it cannot tell.
QueryPage(n, token) ==
  LET left == present \ Taken
      first == Cardinality(Taken)
  IN  /\ verdict = None /\ query = "open" /\ pages < MaxPages
      /\ n <= Cardinality(left) /\ (n < Cardinality(left) => token)
      /\ read' = [p \in DOMAIN read |->
                    IF p > first /\ p <= first + Kept(n) THEN "whole" ELSE read[p]]
      /\ query' = AfterPage(n, token)
      /\ pages' = pages + 1
      /\ UNCHANGED <<estate, report, verdict>>

QueryCapped ==
  /\ verdict = None /\ query = "open" /\ pages >= MaxPages
  /\ query' = "truncated"
  /\ UNCHANGED <<estate, read, report, pages, verdict>>

\* A request is refused, or the server repeats a token: the rows are dropped.
QueryFails ==
  /\ verdict = None /\ query = "open"
  /\ query' = "failed"
  /\ read' = [p \in DOMAIN read |-> "lost"]
  /\ UNCHANGED <<estate, report, pages, verdict>>
-----------------------------------------------------------------------------
(***************************************************************************)
(* The result of the scanner and the verdict on it.                        *)
(***************************************************************************)
AsRead(p) ==
  LET l == Listing(p) IN
  [f \in Fields[l] |->
     IF read[p] = "cut" /\ f \in DOMAIN Reading(p).detail THEN Reading(p).detail[f]
     ELSE IF report = "lost" /\ f \in DOMAIN ReportLost[l] THEN ReportLost[l][f]
     ELSE Fact(p)[f]]

Processed == {p \in present : read[p] \in {"whole", "cut", "broke"}}

\* What the scanner found at each position.
FoundAt ==
  [p \in DOMAIN read |->
     IF p \in Processed THEN Findings(Listing(p), AsRead(p))
     ELSE IF read[p] = "whole" \/ (read[p] = "lost" /\ Listing(p) = "policySet")
     THEN NothingThere(Listing(p))
     ELSE {}]

Found == UNION {FoundAt[p] : p \in DOMAIN read}

Count(at, kinds) == Cardinality({x \in (DOMAIN at) \X kinds : x[2] \in at[x[1]]})

\* The positions with an entry in details.partialErrors.
Failures ==
  { p \in DOMAIN read :
      \/ read[p] = "broke"
      \/ read[p] = "lost" /\ module # "entra"
      \/ read[p] = "cut" /\ Reading(p).recorded }
Erred == Failures # {} \/ query \in {"truncated", "failed"} \/ report = "lost"

\* What getAnalyzedCount finds in the result: nothing when the scanner's counters
\* have names it does not know.
Analyzed ==
  LET counts == ScannerOf(module).counts IN
  CASE counts = "subscriptions" -> Copies
    [] counts = "nothing" -> 0
    [] counts = "guests" ->
         Cardinality({p \in Processed : Listing(p) = "guests" /\ read[p] # "broke"})
    [] OTHER -> Cardinality(Processed)

\* The status the scanner gives its own result; erred and found as parameters.
RawStatus(erred, found) ==
  LET fails == ScannerOf(module).fails
      failed == \/ fails = "nothing read" /\ Failures = DOMAIN read
                \/ fails = "nothing found" /\ erred /\ found = {}
                \/ fails = "nothing processed" /\ erred /\ Processed = {}
                \/ fails = "nothing analysed" /\ erred /\ Analyzed = 0
                \/ fails = "query failed" /\ query = "failed"
  IN  IF failed THEN "FAILED"
      ELSE IF fails \in {"partial", "query failed"} /\ erred THEN "PARTIAL"
      ELSE "SUCCESS"

\* The errors of the exposure map are counted in its summary only.
InDetails(erred) == erred /\ module # "exposure_map"

Execution(erred, found) ==
  IF module \in Undecorated THEN RawStatus(erred, found)
  ELSE computeExecutionStatus(FALSE, RawStatus(erred, found), InDetails(erred), Analyzed)

Posture(erred, found) ==
  IF module \in Undecorated THEN "NONE"
  ELSE computeSecurityPosture(Execution(erred, found), InDetails(erred),
                              FailedChecks(module, found))

\* The totals of the KPIs, in the summary whatever its counters are called; that
\* of the encryption is the number of resources it supports.
Supported == {p \in Processed : \A f \in Fields[Listing(p)] : Fact(p)[f] # "unsupported"}
KpiTotal ==
  IF module \in {"identity_admin_posture", "encryption_coverage"} THEN Cardinality(Supported)
  ELSE Analyzed

KpiStatus(k) ==
  LET count == Count(FoundAt, k.of) IN
  IF k.share THEN statusFromCoverage(count, KpiTotal, k.warning, k.critical)
  ELSE statusFromRiskCount(count, k.warning, k.critical)

Settled ==
  /\ report # "pending" /\ query # "open"
  /\ query = "none" => \A p \in DOMAIN read : read[p] # "pending"

Finish ==
  /\ verdict = None /\ Settled
  /\ verdict' = [ execution |-> Execution(Erred, Found),
                  posture |-> Posture(Erred, Found),
                  kpis |-> {KpiStatus(k) : k \in KpisOf(module)},
                  threw |-> FALSE ]
  /\ UNCHANGED <<estate, read, report, query, pages>>

\* The scanner throws and its error is not to be retried, or it answers with an
\* error of its own: the result carries an error and no check.
Throws ==
  /\ verdict = None
  /\ verdict' = [ execution |-> computeExecutionStatus(TRUE, "FAILED", TRUE, 0),
                  posture |-> IF module \in Undecorated THEN "NONE"
                              ELSE computeSecurityPosture("FAILED", TRUE, {}),
                  kpis |-> {}, threw |-> TRUE ]
  /\ UNCHANGED <<estate, read, report, query, pages>>

Next ==
  \/ \E p \in DOMAIN read :
       ReadWhole(p) \/ ReadCut(p) \/ ReadBreaks(p) \/ ReadFails(p) \/ MembersFail(p)
  \/ ReadReport
  \/ \E n \in 0..Rows, token \in BOOLEAN : QueryPage(n, token)
  \/ QueryCapped \/ QueryFails
  \/ Finish \/ Throws

Spec == Init /\ [][Next]_vars
-----------------------------------------------------------------------------
(***************************************************************************)
(* Properties.                                                             *)
(***************************************************************************)
\* Every variable has its type, and a query never asks for a page, nor keeps a
\* row, beyond its caps, whatever the server sends.
TypeOK ==
  /\ module \in Modules
  /\ present \subseteq Positions(module) /\ flaws \subseteq FlawsOf(module)
  /\ read \in [Positions(module) -> {"pending", "whole", "cut", "broke", "lost"}]
  /\ report \in {"none", "pending", "whole", "lost"}
  /\ query \in {"none", "open", "complete", "truncated", "failed"}
  /\ pages \in 0..MaxPages
  /\ query # "none" => Cardinality(Taken) <= MaxRows
  /\ verdict \in [ execution: Executions, posture: Postures \cup {"NONE"},
                   kpis: SUBSET (Postures \cup {"UNKNOWN"}), threw: BOOLEAN ]
                 \cup {None}

Passes == verdict # None /\ verdict.posture = "PASS"

\* A module whose listings were not all read is never shown as PASS: each lost,
\* interrupted or truncated read leaves a trace the verdict takes into account.
UnreadNeverPasses ==
  Passes => /\ query \in {"none", "complete"} /\ report \in {"none", "whole"}
            /\ \A p \in present : read[p] \in {"whole", "cut"}
            /\ query = "none" => \A p \in DOMAIN read : read[p] \in {"whole", "cut"}

\* The sets of properties that together are a flaw a FAILED check is about. The
\* Private Link and identity modules have none: they only warn.
Defects(m, l) ==
  CASE l = "storage" -> {{"network", "acl"}, {"blob"}}
                        \cup (IF m = "exposure_map" THEN {}
                              ELSE {{"https"}, {"network", "endpoint"}, {"key"}, {"tls"}, {"users"}})
    [] l = "vms" -> {{"ports"}} \cup (IF m = "exposure_map" THEN {}
                                      ELSE {{"disk"}, {"launch"}, {"identity"}, {"password"}})
    [] l = "nsg" -> {{"source", "management"}, {"source", "wildcard"}, {"source", "dbPort"}}
    [] l = "keyvault" -> {{"access", "acl"}} \cup (IF m = "exposure_map" THEN {}
                                                   ELSE {{"purge"}, {"soft"}})
    [] l = "sql" -> {{"access"}} \cup (IF m = "exposure_map" THEN {} ELSE {{"tls"}})
    [] l = "postgres" -> {{"access"}}
    [] l = "apps" -> {{"https"}} \cup (IF m = "exposure_map" THEN {} ELSE {{"ftps"}, {"basic"}})
    [] l = "guests" -> {{"signIn"}}
    [] l = "assignments" -> {{"role", "scope"}}
    [] l \in {"links", "members"} -> {}
    [] OTHER -> {{f} : f \in Fields[l]}

\* The requests whose failure no scanner records hide the properties they read.
Hidden(p, D) ==
  read[p] = "cut" /\ ~Reading(p).recorded /\ D \cap DOMAIN Reading(p).detail # {}

Flawed(p, D) == \A f \in D : Fact(p)[f] \in {"bad", "unlisted"}

\* The flaw shows in a value that the scanner compares with nothing: the id of
\* Owner, a range of ports, the source ::/0.
Unrecognized(p, D) == \E f \in D : Fact(p)[f] = "unlisted"

\* A module shown as PASS has a resource with a flaw a check is about only if a
\* swallowed detail request hid it, or in a form the scanner does not recognize;
\* and every subscription has a workspace.
PassIsEarned ==
  Passes =>
    /\ \A p \in present : \A D \in Defects(module, Listing(p)) :
         Flawed(p, D) => Hidden(p, D) \/ Unrecognized(p, D)
    /\ module = "logs" => present = DOMAIN read

\* What the description of the PASSED check of azure_rbac_exposure.js:85 says ("did
\* not detect Owner, Contributor or User Access Administrator assignments at
\* subscription root scope"), and that of nsg.js:139 of the ports: a module shown
\* as PASS has no resource with a flaw its checks name, in whatever form.
PassedTextsHold ==
  Passes => \A p \in present : \A D \in Defects(module, Listing(p)) : ~Flawed(p, D)

\* When everything was read, a posture that is not PASS and a KPI that alerts
\* come from a resource of the estate with some property that is not good.
AlarmIsReal ==
  (/\ verdict # None /\ ~verdict.threw
   /\ query \in {"none", "complete"} /\ report # "lost"
   /\ \A p \in DOMAIN read : read[p] \in {"whole", "pending"}
   /\ verdict.posture \in {"WARN", "FAIL"} \/ {"WARN", "FAIL"} \cap verdict.kpis # {})
  => flaws # {} \/ (module \in {"logs", "entra"} /\ present # DOMAIN read)

\* One more finding, or one more error, never improves the posture of a module.
WorseNeverLooksBetter ==
  (verdict # None /\ ~verdict.threw /\ module \notin Undecorated) =>
    LET found == Found  erred == Erred IN
    /\ \A k \in DOMAIN ScannerOf(module).checks :
         Rank(Posture(erred, found \cup {k})) >= Rank(verdict.posture)
    /\ Rank(Posture(TRUE, found)) >= Rank(verdict.posture)
=============================================================================
