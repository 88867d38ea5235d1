---------------------------- MODULE ScanContract ----------------------------
(***************************************************************************)
(* What the scan store promises for a scan, whatever the queue and the     *)
(* workers do: a scan is run by one attempt at a time, an attempt may be   *)
(* superseded or give the scan back, one attempt ends it, and the charge   *)
(* is settled in the very step that ends it, once.  A finished scan only   *)
(* ever disappears.  ScanWorker implements this module.                    *)
(***************************************************************************)
CONSTANTS
  Scans,       (* scan ids                                                  *)
  Attempts,    (* attempt ids                                               *)
  Unledgered,  (* scans that were never reserved in the ledger              *)
  None         (* no attempt                                                *)

VARIABLES
  phase,       (* the status of each scan                                   *)
  runner,      (* the attempt that owns it                                  *)
  verdict,     (* the attempt whose result is stored                        *)
  charge       (* what the ledger says: open, charged, refunded, unledgered *)

cvars == <<phase, runner, verdict, charge>>

Settled(s, outcome) == IF s \in Unledgered THEN "unledgered" ELSE outcome

Init ==
  /\ phase = [s \in Scans |-> "PENDING"]
  /\ runner = [s \in Scans |-> None]
  /\ verdict = [s \in Scans |-> None]
  /\ charge = [s \in Scans |-> Settled(s, "open")]

\* A new attempt takes a waiting scan, or takes it over from another attempt.
Take(s, a) ==
  /\ phase[s] \in {"PENDING", "IN_PROGRESS"}
  /\ runner[s] # a
  /\ phase' = [phase EXCEPT ![s] = "IN_PROGRESS"]
  /\ runner' = [runner EXCEPT ![s] = a]
  /\ UNCHANGED <<verdict, charge>>

GiveBack(s) ==
  /\ phase[s] = "IN_PROGRESS"
  /\ phase' = [phase EXCEPT ![s] = "PENDING"]
  /\ runner' = [runner EXCEPT ![s] = None]
  /\ UNCHANGED <<verdict, charge>>

Succeed(s) ==
  /\ phase[s] = "IN_PROGRESS"
  /\ phase' = [phase EXCEPT ![s] = "DONE"]
  /\ verdict' = [verdict EXCEPT ![s] = runner[s]]
  /\ charge' = [charge EXCEPT ![s] = Settled(s, "charged")]
  /\ UNCHANGED runner

\* The owner fails the scan, or a message is rejected before any attempt ran.
Fail(s, a) ==
  /\ \/ phase[s] = "IN_PROGRESS" /\ runner[s] = a
     \/ phase[s] = "PENDING" /\ runner[s] = None
  /\ phase' = [phase EXCEPT ![s] = "FAILED"]
  /\ verdict' = [verdict EXCEPT ![s] = a]
  /\ charge' = [charge EXCEPT ![s] = Settled(s, "refunded")]
  /\ UNCHANGED runner

Forget(s) ==
  /\ phase[s] \in {"DONE", "FAILED"}
  /\ phase' = [phase EXCEPT ![s] = "DELETED"]
  /\ runner' = [runner EXCEPT ![s] = None]
  /\ verdict' = [verdict EXCEPT ![s] = None]
  /\ UNCHANGED charge

Next ==
  \E s \in Scans :
    \/ GiveBack(s) \/ Succeed(s) \/ Forget(s)
    \/ \E a \in Attempts : Take(s, a) \/ Fail(s, a)

Spec == Init /\ [][Next]_cvars

=============================================================================
