----------------------------- MODULE Admission -----------------------------
(***************************************************************************)
(* What the admission of scans promises to the tables: a scan is stored in *)
(* one step, in which its key is free and its units still fit the quota of *)
(* its month.  ScanRequest implements this module.                         *)
(***************************************************************************)
EXTENDS Integers, FiniteSets

CONSTANTS
  Requests,    (* scan ids                                                  *)
  Tenants,     (* tenants                                                   *)
  Payg,        (* the tenants without a quota                               *)
  Keys,        (* idempotency keys of clients                               *)
  Prints,      (* fingerprints of requests                                  *)
  Units,       (* the billing units of each                                 *)
  MaxUnits,    (* bound on the units of a request                           *)
  Quota,       (* monthly quota of the other tenants                        *)
  MaxMonth,    (* bound on the months that pass                             *)
  None         (* no scan                                                   *)

VARIABLES
  scan,        (* status, tenant, content and month of each scan            *)
  keyed        (* the scan of each tenant's key                             *)

Slots == Tenants \X (Keys \cup Requests)

\* The units of the scans that count in a month.
Counted(t, m) ==
  {u \in Requests \X (1..MaxUnits) :
     LET row == scan[u[1]] IN
     /\ row.status \in {"ACTIVE", "DONE"} /\ row.tenant = t /\ row.month = m
     /\ u[2] <= Units[row.print]}

Init ==
  /\ \A s \in Requests : scan[s].status = "ABSENT"
  /\ keyed = [x \in Slots |-> None]

Admit(s, t, k, p, m) ==
  /\ scan[s].status = "ABSENT"
  /\ keyed[<<t, k>>] = None
  /\ t \in Payg \/ Cardinality(Counted(t, m)) + Units[p] <= Quota
  /\ scan' = [scan EXCEPT ![s] = [status |-> "ACTIVE", tenant |-> t, print |-> p, month |-> m]]
  /\ keyed' = [keyed EXCEPT ![<<t, k>>] = s]

End(s, status) ==
  /\ scan[s].status = "ACTIVE"
  /\ scan' = [scan EXCEPT ![s].status = status]
  /\ UNCHANGED keyed

\* Ended scans and keys are forgotten.
Forget ==
  /\ \E gone \in SUBSET {s \in Requests : scan[s].status \in {"DONE", "FAILED"}} :
       scan' = [s \in Requests |->
         IF s \in gone THEN [scan[s] EXCEPT !.status = "DELETED"] ELSE scan[s]]
  /\ \E old \in SUBSET Slots :
       keyed' = [x \in Slots |-> IF x \in old THEN None ELSE keyed[x]]

Next ==
  \/ \E s \in Requests, t \in Tenants, k \in Keys \cup Requests, p \in Prints, m \in 1..MaxMonth :
       Admit(s, t, k, p, m)
  \/ \E s \in Requests, status \in {"DONE", "FAILED"} : End(s, status)
  \/ Forget

Spec == Init /\ [][Next]_<<scan, keyed>>

=============================================================================
