---------------------------- MODULE MCScanWorker ----------------------------
(* Instances of ScanWorker for TLC: the constants are given in the .cfg.   *)
EXTENDS ScanWorker, TLC

\* Copies and slots are interchangeable; used by safety runs only.
Symmetry == Permutations(Messages) \cup Permutations(Workers)

=============================================================================
