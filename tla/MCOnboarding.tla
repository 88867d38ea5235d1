--------------------------- MODULE MCOnboarding ---------------------------
(* Instances of Onboarding for TLC: the constants are given in the .cfg.   *)
EXTENDS Onboarding

=============================================================================
