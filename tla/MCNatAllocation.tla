-------------------------- MODULE MCNatAllocation --------------------------
(***************************************************************************)
(* Small instances of NatAllocation for TLC.                               *)
(***************************************************************************)
EXTENDS NatAllocation, FiniteSets, TLC

Symmetry == Permutations(QemuInstances) \cup Permutations(IncusInstances)

\* Bound: operations that run at the same time.  Any two of them meet, on one bridge
\* or on two.
TwoAtATime == Cardinality({i \in Instances : phase[i] # "idle"}) <= 2
=============================================================================
