----------------------------- MODULE MCAuditRun -----------------------------
(* Instances of AuditRun for TLC: the constants are given in the .cfg.     *)
EXTENDS AuditRun

=============================================================================
