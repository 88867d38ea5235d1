---------------------------- MODULE ScanRequest ----------------------------
(***************************************************************************)
(* The admission of scans: concurrent calls of createScanRequest, each one *)
(* a READ COMMITTED transaction that looks its idempotency key up, takes   *)
(* the advisory lock of its tenant and month, checks the active scans and  *)
(* the quota, and inserts the scan, its ledger entry, its key and its      *)
(* outbox row.                                                             *)
(*                                                                         *)
(* A call draws one scan id (randomUUID), so the call r stands for that id *)
(* and for the key the server generates when the client sends none.  A     *)
(* retry of the client is another call.  Rows a transaction has inserted   *)
(* are in the tables once it has committed.  Plans do not change.          *)
(***************************************************************************)
EXTENDS Integers, FiniteSets

CONSTANTS
  Requests,     (* calls of createScanRequest                               *)
  Tenants,      (* tenants                                                  *)
  Payg,         (* the tenants whose plan has no quota                      *)
  Keys,         (* Idempotency-Key values of clients                        *)
  Prints,       (* fingerprints of authorized requests                      *)
  Units,        (* the billing units of each                                *)
  MaxUnits,     (* bound on the units of a request                          *)
  Quota,        (* monthly quota of the other tenants                       *)
  ActiveLimit,  (* active scans a tenant may have                           *)
  MaxMonth,     (* bound on the months that pass                            *)
  None          (* no scan, no lock holder                                  *)

Months == 1..MaxMonth
Slots == Tenants \X (Keys \cup Requests)

ASSUME NumbersAssumption ==
  Quota \in Nat /\ ActiveLimit \in Nat \ {0} /\ MaxMonth \in Nat \ {0}
ASSUME UnitsAssumption == MaxUnits \in Nat /\ Units \in [Prints -> 1..MaxUnits]
ASSUME RequestsAssumption == IsFiniteSet(Requests) /\ Keys \cap Requests = {}
ASSUME NoneAssumption == None \notin Requests

VARIABLES
  request,  (* control point, body and answer of each call                  *)
  scan,     (* table scans                                                  *)
  keyed,    (* table scan_request_idempotency: the scan of a tenant's key   *)
  lock,     (* advisory locks: the call that holds a tenant's month         *)
  month     (* the current quota month                                      *)

vars == <<request, scan, keyed, lock, month>>
tables == <<scan, keyed>>

\* PENDING and IN_PROGRESS are ACTIVE; a deleted row keeps its columns here.
Status == {"ABSENT", "ACTIVE", "DONE", "FAILED", "DELETED"}
Points == {"new", "select", "lock", "count", "usage", "insert", "commit", "lookup", "answered"}
Answers == {"none", "rejected", "limited", "blocked", "created", "reused", "conflict", "error"}

At(r, point) == request[r].point = point
Slot(r) == <<request[r].tenant, request[r].key>>
Continue(r, point) == request' = [request EXCEPT ![r].point = point]

\* COMMIT and ROLLBACK both release the lock.
\* Mutant: the transaction is left open.
ReleaseNothing(r) == UNCHANGED lock

Release(r) ==
  lock' = [x \in Tenants \X Months |-> IF lock[x] = r THEN None ELSE lock[x]]

Answer(r, answer, s) ==
  /\ request' = [request EXCEPT ![r].point = "answered", ![r].answer = answer, ![r].scan = s]
  /\ Release(r)

-----------------------------------------------------------------------------
(* The statements.                                                         *)

\* Mutant: the fingerprint is not compared.
SamePrintAlways(r, s) == TRUE

SamePrint(r, s) == scan[s].print = request[r].print

\* The answer of a call whose key is in the table.
Replay(r) ==
  LET s == keyed[Slot(r)] IN
  \/ SamePrint(r, s) /\ Answer(r, "reused", s)
  \/ ~SamePrint(r, s) /\ Answer(r, "conflict", s)

Active(t) == {s \in Requests : scan[s].status = "ACTIVE" /\ scan[s].tenant = t}

\* The units of the scans of a month that count, as a set.
Used(t, m) ==
  {u \in Requests \X (1..MaxUnits) :
     /\ scan[u[1]].status \in {"ACTIVE", "DONE"}
     /\ scan[u[1]].tenant = t /\ scan[u[1]].month = m
     /\ u[2] <= Units[scan[u[1]].print]}

\* Mutant: one active scan too many.
LimitPassed(r) == Cardinality(Active(request[r].tenant)) > ActiveLimit

LimitReached(r) == Cardinality(Active(request[r].tenant)) >= ActiveLimit

\* Mutant: the units of the request itself are not added.
QuotaPassed(r) ==
  /\ request[r].tenant \notin Payg
  /\ Cardinality(Used(request[r].tenant, request[r].month)) > Quota

QuotaExceeded(r) ==
  /\ request[r].tenant \notin Payg
  /\ Cardinality(Used(request[r].tenant, request[r].month)) + Units[request[r].print] > Quota

-----------------------------------------------------------------------------
(* createScanRequest.                                                      *)

Init ==
  /\ \E t \in Tenants, p \in Prints :  \* placeholders
       /\ request = [r \in Requests |->
            [point |-> "new", tenant |-> t, key |-> r, print |-> p, month |-> 1,
             answer |-> "none", scan |-> None]]
       /\ scan = [s \in Requests |->
            [status |-> "ABSENT", tenant |-> t, print |-> p, month |-> 1]]
  /\ keyed = [x \in Slots |-> None]
  /\ lock = [x \in Tenants \X Months |-> None]
  /\ month = 1

Submit(r) ==
  /\ At(r, "new")
  /\ \E t \in Tenants, k \in Keys \cup {r}, p \in Prints :
       request' = [request EXCEPT ![r].point = "select", ![r].tenant = t,
                                  ![r].key = k, ![r].print = p]
  /\ UNCHANGED <<tables, lock, month>>

\* The targets are not authorized, or the tenant turns out to be inactive.
Reject(r) ==
  /\ At(r, "select") \/ At(r, "count")
  /\ Answer(r, "rejected", None)
  /\ UNCHANGED <<tables, month>>

SelectExisting(r) ==
  /\ At(r, "select")
  /\ \/ keyed[Slot(r)] # None /\ Replay(r)
     \/ /\ keyed[Slot(r)] = None
        /\ request' = [request EXCEPT ![r].point = "lock", ![r].month = month]
        /\ UNCHANGED lock
  /\ UNCHANGED <<tables, month>>

\* Mutant: the lock is requested and not awaited.
LockTenantMonthTried(r) ==
  /\ At(r, "lock")
  /\ lock' = [lock EXCEPT ![<<request[r].tenant, request[r].month>>] = r]
  /\ Continue(r, "count")
  /\ UNCHANGED <<tables, month>>

LockTenantMonth(r) ==
  LET x == <<request[r].tenant, request[r].month>> IN
  /\ At(r, "lock")
  /\ lock[x] = None
  /\ lock' = [lock EXCEPT ![x] = r]
  /\ Continue(r, "count")
  /\ UNCHANGED <<tables, month>>

AssertBackpressure(r) ==
  /\ At(r, "count")
  /\ \/ LimitReached(r) /\ Answer(r, "limited", None)
     \/ ~LimitReached(r) /\ Continue(r, "usage") /\ UNCHANGED lock
  /\ UNCHANGED <<tables, month>>

\* The ledger entry of a blocked request is rolled back with the rest.
CheckQuota(r) ==
  /\ At(r, "usage")
  /\ \/ QuotaExceeded(r) /\ Answer(r, "blocked", None)
     \/ ~QuotaExceeded(r) /\ Continue(r, "insert") /\ UNCHANGED lock
  /\ UNCHANGED <<tables, month>>

\* Mutant: ON CONFLICT DO UPDATE.
InsertAnyway(r) ==
  /\ At(r, "insert")
  /\ Continue(r, "commit")
  /\ UNCHANGED <<tables, lock, month>>

\* The inserts.  The one of the key waits for a transaction that has inserted
\* the same key; a committed one is error 23505, which rolls everything back.
Insert(r) ==
  /\ At(r, "insert")
  /\ \A q \in Requests : At(q, "commit") => Slot(q) # Slot(r)
  /\ \/ keyed[Slot(r)] = None /\ Continue(r, "commit") /\ UNCHANGED lock
     \/ keyed[Slot(r)] # None /\ Continue(r, "lookup") /\ Release(r)
  /\ UNCHANGED <<tables, month>>

\* Mutant: the INSERT has the values of status and billing_state swapped.
StoreSwapped(r) ==
  /\ scan' = [scan EXCEPT ![r] = [status |-> "RESERVED", tenant |-> request[r].tenant,
                                  print |-> request[r].print, month |-> request[r].month]]
  /\ keyed' = [keyed EXCEPT ![Slot(r)] = r]

Store(r) ==
  /\ scan' = [scan EXCEPT ![r] = [status |-> "ACTIVE", tenant |-> request[r].tenant,
                                  print |-> request[r].print, month |-> request[r].month]]
  /\ keyed' = [keyed EXCEPT ![Slot(r)] = r]

Commit(r) ==
  /\ At(r, "commit")
  /\ Store(r)
  /\ Answer(r, "created", r)
  /\ UNCHANGED month

\* The catch block after 23505, in a new transaction.
Lookup(r) ==
  /\ At(r, "lookup")
  /\ \/ keyed[Slot(r)] # None /\ Replay(r)
     \/ keyed[Slot(r)] = None /\ Answer(r, "error", None)
  /\ UNCHANGED <<tables, month>>

\* A statement or the connection fails, or the process dies: rolled back, or
\* committed if it was the COMMIT whose acknowledgement is lost.
Fail(r) ==
  /\ request[r].point \notin {"new", "answered"}
  /\ \/ At(r, "commit") /\ Store(r)
     \/ UNCHANGED tables
  /\ Answer(r, "error", None)
  /\ UNCHANGED month

-----------------------------------------------------------------------------
(* The worker, the retention sweep and the calendar.                       *)

\* What the worker makes of a scan.
ScanEnds(s) ==
  /\ scan[s].status = "ACTIVE"
  /\ \E status \in {"DONE", "FAILED"} : scan' = [scan EXCEPT ![s].status = status]
  /\ UNCHANGED <<request, keyed, lock, month>>

\* Old scans go, with their keys; old keys go also without their scan.
Sweep ==
  \E gone \in SUBSET {s \in Requests : scan[s].status \in {"DONE", "FAILED"}},
     old \in SUBSET {x \in Slots : keyed[x] # None} :
       /\ gone # {} \/ old # {}
       /\ scan' = [s \in Requests |->
            IF s \in gone THEN [scan[s] EXCEPT !.status = "DELETED"] ELSE scan[s]]
       /\ keyed' = [x \in Slots |-> IF x \in old \/ keyed[x] \in gone THEN None ELSE keyed[x]]
       /\ UNCHANGED <<request, lock, month>>

NextMonth ==
  /\ month < MaxMonth
  /\ month' = month + 1
  /\ UNCHANGED <<request, tables, lock>>

Step(r) ==
  \/ Reject(r) \/ SelectExisting(r) \/ LockTenantMonth(r) \/ AssertBackpressure(r)
  \/ CheckQuota(r) \/ Insert(r) \/ Commit(r) \/ Lookup(r)

Next ==
  \/ \E r \in Requests : Submit(r) \/ Step(r) \/ Fail(r) \/ ScanEnds(r)
  \/ Sweep \/ NextMonth

Spec == Init /\ [][Next]_vars

\* A submitted call runs on, unless it waits for a lock or a key; none has to fail.
FairSpec == Spec /\ \A r \in Requests : WF_vars(Step(r))

-----------------------------------------------------------------------------
(* Properties.                                                             *)

TypeOK ==
  /\ request \in [Requests -> [point : Points, tenant : Tenants, key : Keys \cup Requests,
                               print : Prints, month : Months, answer : Answers,
                               scan : Requests \cup {None}]]
  /\ scan \in [Requests -> [status : Status, tenant : Tenants, print : Prints, month : Months]]
  /\ keyed \in [Slots -> Requests \cup {None}]
  /\ lock \in [Tenants \X Months -> Requests \cup {None}]
  /\ month \in Months

\* The stored scans of a month never use more units than the quota, however many
\* calls read the usage before they insert: the check-then-act of authorizeScan is
\* covered by the advisory lock until the commit.
QuotaNeverExceeded ==
  \A t \in Tenants \ Payg, m \in Months : Cardinality(Used(t, m)) <= Quota

\* The limit on active scans is checked under the lock of one month only, so it
\* may be passed, but by no more than one scan for each month that has turned.
ActiveScansBounded ==
  \A t \in Tenants : Cardinality(Active(t)) < ActiveLimit + month

\* An accepted call names a scan of its own tenant, key and content, and a 409
\* one of other content: a key never hands out the scan of another request, also
\* when the duplicate is only found by the failing insert.
AnswerMatches ==
  \A r \in Requests :
    LET s == request[r].scan IN
    /\ request[r].answer \in {"created", "reused", "conflict"} =>
         s # None /\ scan[s].status # "ABSENT" /\ Slot(s) = Slot(r)
    /\ request[r].answer \in {"created", "reused"} => scan[s].print = request[r].print
    /\ request[r].answer = "conflict" => scan[s].print # request[r].print

\* A scan comes into being only while its key is free, and takes it: of any number
\* of concurrent calls with one key, one creates a scan.
KeyDecidesOnce ==
  [][\A s \in Requests :
       scan[s].status = "ABSENT" /\ scan'[s].status # "ABSENT" =>
         keyed[Slot(s)] = None /\ keyed'[Slot(s)] = s]_vars

\* VALIDATION_MATRIX_V6_2_0.md:12 says that the same request is replayed and a
\* different one gets a deterministic 409: no call whose key is in the table is
\* refused for the limits.
SameRequestReplays ==
  [][\A r \in Requests :
       ~At(r, "answered") /\ request'[r].answer \in {"limited", "blocked"} =>
         keyed[Slot(r)] = None]_vars

\* Every call is answered: calls that wait for the lock of a month and for the key
\* of another transaction do not block each other for ever.
RequestAnswered == \A r \in Requests : At(r, "select") ~> At(r, "answered")

\* To the tables, every call is one atomic decision.
Admitted == INSTANCE Admission
ImplementsAdmission == Admitted!Spec

=============================================================================
