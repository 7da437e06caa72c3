------------------------- MODULE AddressPool_proofs -------------------------
(***************************************************************************)
(* What follows from the promise about addresses alone, and so holds of    *)
(* everything that implements it.                                          *)
(***************************************************************************)
EXTENDS AddressPool, TLAPS

\* Rivalry is between different instances, and mutual.
MutualRivals ==
    /\ Rivals \in [Instances -> SUBSET Instances]
    /\ \A i, j \in Instances : j \in Rivals[i] => i \in Rivals[j] /\ i # j

PoolInv == TypeOK /\ HeldOnce /\ UsedIsHeld

LEMMA StepInv ==
    ASSUME MutualRivals, None \notin Addresses, PoolInv, [Next]_vars
    PROVE  PoolInv'
<1> USE DEF PoolInv, TypeOK, HeldOnce, UsedIsHeld, MutualRivals
<1>1. ASSUME NEW i \in Instances, NEW a \in Addresses, Claim(i, a) PROVE PoolInv'
  <2>1. HeldOnce'
    BY <1>1 DEF Claim
  <2>2. UsedIsHeld'
    BY <1>1 DEF Claim
  <2> QED BY <1>1, <2>1, <2>2 DEF Claim
<1>2. ASSUME NEW i \in Instances, Use(i) PROVE PoolInv'
  <2>1. used' \subseteq used \cup {<<i, held[i]>>} /\ held' = held /\ held[i] \in Addresses
    BY <1>2 DEF Use, Mine
  <2> QED BY <2>1
<1>3. ASSUME NEW i \in Instances, Release(i) PROVE PoolInv'
  <2>1. \A u \in used : u[1] # i
    BY <1>3 DEF Release, Mine
  <2> QED BY <1>3, <2>1 DEF Release
<1>4. CASE Restart
  BY <1>4 DEF Restart
<1>5. CASE UNCHANGED vars
  BY <1>5 DEF vars
<1> QED BY <1>1, <1>2, <1>3, <1>4, <1>5 DEF Next

\* In every behaviour that keeps the promise, an address has one holder among rivals,
\* and whoever uses an address holds it, unless it has moved in between.
THEOREM PoolInvariant ==
    ASSUME MutualRivals, None \notin Addresses
    PROVE  Spec => []PoolInv
<1>1. Init => PoolInv
  BY DEF Init, PoolInv, TypeOK, HeldOnce, UsedIsHeld, MutualRivals
<1>2. PoolInv /\ [Next]_vars => PoolInv'
  BY StepInv
<1> QED BY <1>1, <1>2, PTL DEF Spec

\* Where nobody moves, no two rivals ever use the same address.
THEOREM NoSharedUse ==
    ASSUME MutualRivals, None \notin Addresses
    PROVE  Spec => []UsedOnce
<1>1. PoolInv => UsedOnce
  BY DEF PoolInv, TypeOK, HeldOnce, UsedIsHeld, UsedOnce, MutualRivals
<1> QED BY <1>1, PoolInvariant, PTL
=============================================================================
