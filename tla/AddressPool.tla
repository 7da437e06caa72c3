---------------------------- MODULE AddressPool ----------------------------
(***************************************************************************)
(* What the agent promises about addresses, without tables, commands or    *)
(* failures: an address is held by one instance among those it matters to, *)
(* an instance puts only the address it holds to use, takes no use away    *)
(* from another, and gives its address back only when nothing uses it any  *)
(* more.  The NAT table (NatAllocation) and the records of dedicated       *)
(* networks (DedicatedNetwork) implement it.                               *)
(***************************************************************************)
CONSTANTS Instances,
          Addresses,    \* the addresses there are to hold
          Rivals,       \* Rivals[i]: the instances that must not hold i's address
          Moves,        \* whether an address may be exchanged while it is held
          None

VARIABLES held,         \* held[i]: the address of i, or None
          used          \* the pairs <<i, a>> such that i makes use of a

vars == <<held, used>>

Mine(i) == {u \in used : u[1] = i}

Init ==
    /\ held = [i \in Instances |-> None]
    /\ used = {}

\* Whoever claims an address may cease to use those it has held.
Claim(i, a) ==
    /\ held[i] = None \/ Moves
    /\ \A j \in Rivals[i] : held[j] # a
    /\ held' = [held EXCEPT ![i] = a]
    /\ used \ Mine(i) \subseteq used' /\ used' \subseteq used

\* An instance begins to use the address it holds, and ceases to use what it likes: one
\* that has moved may go on to use the addresses it held before.
Use(i) ==
    /\ UNCHANGED held
    /\ held[i] # None
    /\ used \ Mine(i) \subseteq used'
    /\ used' \subseteq used \cup {<<i, held[i]>>}

Release(i) ==
    /\ Mine(i) = {}
    /\ held' = [held EXCEPT ![i] = None]
    /\ UNCHANGED used

\* The host restarts.
Restart ==
    /\ UNCHANGED held
    /\ used' = {}

Next ==
    \/ \E i \in Instances :
          Use(i) \/ Release(i) \/ \E a \in Addresses : Claim(i, a)
    \/ Restart

Spec == Init /\ [][Next]_vars

-----------------------------------------------------------------------------
TypeOK ==
    /\ held \in [Instances -> Addresses \cup {None}]
    /\ used \subseteq Instances \X Addresses

\* No address is held twice where it matters.
HeldOnce ==
    \A i \in Instances : \A j \in Rivals[i] : held[i] # None => held[j] # held[i]

\* Whoever uses an address holds one, and it is that one unless it has moved; so, where
\* nobody moves, an address is used by one instance.
UsedIsHeld ==
    \A u \in used : held[u[1]] # None /\ (~Moves => held[u[1]] = u[2])

UsedOnce ==
    ~Moves => \A u, w \in used : w[1] \in Rivals[u[1]] => u[2] # w[2]
=============================================================================
