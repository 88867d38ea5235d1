--------------------------- MODULE MCScanRequest ---------------------------
(* Instances of ScanRequest for TLC.                                       *)
EXTENDS ScanRequest, TLC

CONSTANTS small, large

\* A web scan, and an infra scan of two subscriptions.
UnitsOfTwo == small :> 1 @@ large :> 2
UnitsOfOne == small :> 1

\* The calls are interchangeable; used by safety runs only.
Symmetry == Permutations(Requests)

=============================================================================
