----------------------------- MODULE MCBilling -----------------------------
(* Instances of Billing for TLC.                                           *)
EXTENDS Billing, TLC

CONSTANTS s1, s2, t1, t2

\* A scan of each tenant; that of the second may be an older release's.
TenantOfTwo == s1 :> t1 @@ s2 :> t2

Symmetry == Permutations(Callers)

=============================================================================
