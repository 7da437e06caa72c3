-------------------------- MODULE MCOperationLease --------------------------
(***************************************************************************)
(* Small instances of OperationLease for TLC.                              *)
(***************************************************************************)
EXTENDS OperationLease, TLC

Symmetry == Permutations(Instances) \cup Permutations(Requests)
                \cup Permutations(Versions)
=============================================================================
