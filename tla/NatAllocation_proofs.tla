------------------------ MODULE NatAllocation_proofs ------------------------
(***************************************************************************)
(* Proofs about NAT addresses, for any number of instances of each driver  *)
(* and any subnet.                                                         *)
(***************************************************************************)
EXTENDS NatAllocation, WellFoundedInduction, TLAPS

\* What an operation knows between its steps, whatever the others do meanwhile:
\* a qemu create has its record (and, once reserved, its DHCP entry) and no guest
\* yet; a delete that has removed the guest finds none; the reconciliation runs
\* for a defined qemu guest.  DHCP entries pair instances and addresses one to one.
PhaseInv ==
    /\ \A i \in Instances :
        /\ phase[i] = "allocated" => i \in QemuInstances
        /\ phase[i] \in {"allocated", "reserved"} /\ i \in QemuInstances
               => guest[i] = NoAddress /\ address[i] \in Addresses /\ records[i] = address[i]
        /\ phase[i] = "reserved" /\ i \in QemuInstances => <<i, address[i]>> \in dhcp
        /\ phase[i] \in {"removed", "released"} => guest[i] = NoAddress
        /\ phase[i] \in {"identifying", "aligning"}
               => i \in QemuInstances /\ guest[i] # NoAddress
    /\ \A d, e \in dhcp : d[1] = e[1] <=> d[2] = e[2]

\* A defined qemu guest has its record and its DHCP entry.
GuestInv ==
    \A i \in QemuInstances : guest[i] # NoAddress
        => records[i] = guest[i] /\ <<i, guest[i]>> \in dhcp

NatInv == TypeOK /\ PhaseInv /\ GuestInv

\* What allocateNATIP returns: the record there is, or an address of the subnet
\* that no other instance of the bridge holds.
LEMMA AllocationIsFree ==
    ASSUME TypeOK, NEW i \in Instances, NEW requested \in Requested,
           NEW a \in Allocation(i, requested)
    PROVE  /\ a \in Addresses
           /\ records[i] # NoAddress => a = records[i]
           /\ records[i] = NoAddress => a \notin Used(i)
BY AddressesAssumption DEF Allocation, FreeSlots, TypeOK, Requested

\* A set of addresses that is not empty has a smallest one.
LEMMA SmallestAddress ==
    ASSUME NEW S \in SUBSET Addresses, S # {}
    PROVE  \E a \in S : \A b \in S : a <= b
<1> DEFINE R == {d \in Nat \X Nat : d[1] < d[2]}
<1>1. S \subseteq Nat
  BY AddressesAssumption
<1>2. IsWellFoundedOn(R, Nat)
  BY NatLessThanWellFounded, SMT DEF OpToRel
<1>3. PICK a \in S : \A b \in S : <<b, a>> \notin R
  BY <1>1, <1>2, WFMin
<1>4. ASSUME NEW b \in S PROVE a <= b
  <2>1. a \in Nat /\ b \in Nat /\ <<b, a>> \notin R
    BY <1>1, <1>3
  <2>2. <<b, a>> \in Nat \X Nat => ~(b < a)
    BY <2>1
  <2> QED BY <2>1, <2>2
<1> QED BY <1>4

\* allocateNATIP leaves nothing to chance: it returns one address or fails, and without a
\* record and a request it fails only when every managed slot of the bridge is taken; a
\* request that is free is granted.
THEOREM AllocationDecides ==
    ASSUME TypeOK, NEW i \in Instances, NEW requested \in Requested, records[i] = NoAddress
    PROVE  /\ \A a, b \in Allocation(i, requested) : a = b
           /\ requested = NoAddress => (Allocation(i, requested) = {} <=> Managed \subseteq Used(i))
           /\ requested # NoAddress => (Allocation(i, requested) = {} <=> requested \in Used(i))
<1>1. CASE requested # NoAddress
  BY <1>1 DEF Allocation
<1>2. CASE requested = NoAddress
  <2>1. FreeSlots(i) \subseteq Addresses /\ Addresses \subseteq Nat
    BY AddressesAssumption DEF FreeSlots
  <2>2. Allocation(i, requested) = {a \in FreeSlots(i) : \A b \in FreeSlots(i) : a <= b}
    BY <1>2 DEF Allocation
  <2>3. \A a, b \in Allocation(i, requested) : a = b
    <3> SUFFICES ASSUME NEW a \in Allocation(i, requested), NEW b \in Allocation(i, requested)
                 PROVE  a = b
      OBVIOUS
    <3>1. a \in Nat /\ b \in Nat /\ a <= b /\ b <= a
      BY <2>1, <2>2
    <3> QED BY <3>1
  <2>4. Allocation(i, requested) = {} <=> FreeSlots(i) = {}
    BY <2>1, <2>2, SmallestAddress
  <2> QED BY <1>2, <2>3, <2>4 DEF FreeSlots
<1> QED BY <1>1, <1>2

\* Before the first request there is no record, no DHCP entry and no guest.
LEMMA InitInv == Init => NatInv /\ TableConsistent
BY DEF Init, NatInv, TypeOK, PhaseInv, GuestInv, TableConsistent, Requested, Jobs, Phases,
   Instances

\* Every step keeps the types, the knowledge of the operations and the claims of
\* the qemu guests.
LEMMA StepInv == NatInv /\ [Next]_vars => NatInv'
<1> SUFFICES ASSUME NatInv, [Next]_vars PROVE NatInv'
  OBVIOUS
<1> USE DEF NatInv, TypeOK, PhaseInv, GuestInv, disk, Advance, Finish, Jobs, Phases, Requested
<1>0. QemuInstances \subseteq Instances /\ NoAddress \notin Addresses
  BY AddressesAssumption DEF Instances
<1>1. ASSUME NEW i \in Instances, Request(i) PROVE NatInv'
  <2>1. ASSUME NEW j \in Jobs, NEW p \in {"creating", "removing"},
               NEW requested \in SUBSET Requested, Begin(i, j, p, requested)
        PROVE  NatInv'
    BY <1>0, <2>1 DEF Begin
  <2>2. CASE BeginIdentity(i)
    BY <1>0, <2>2 DEF BeginIdentity, Begin
  <2> QED BY <1>1, <2>1, <2>2 DEF Request, BeginCreate, BeginDelete, BeginReinstall
<1>2. ASSUME NEW i \in Instances, CreateStep(i) PROVE NatInv'
  <2>1. CASE QemuReuse(i)
    BY <1>0, <2>1 DEF QemuReuse, Made
  <2>2. CASE QemuAllocate(i)
    <3>1. PICK a \in Allocation(i, address[i]) :
              records' = [records EXCEPT ![i] = a] /\ address' = [address EXCEPT ![i] = a]
      BY <2>2 DEF QemuAllocate, Allocate
    <3>2. a \in Addresses
      BY AllocationIsFree
    <3> QED BY <1>0, <2>2, <3>1, <3>2 DEF QemuAllocate
  <2>3. CASE QemuReserve(i)
    <3>1. i \in QemuInstances /\ address[i] \in Addresses
      BY <2>3 DEF QemuReserve
    <3>2. /\ \A e \in dhcp : e[1] = i <=> e[2] = address[i]
          /\ dhcp' = dhcp \cup {<<i, address[i]>>}
      BY <2>3 DEF QemuReserve, AddReservation
    <3> QED BY <1>0, <2>3, <3>1, <3>2 DEF QemuReserve
  <2>4. CASE IncusAllocate(i)
    <3>1. /\ records' \in [Instances -> Requested] /\ address' \in [Instances -> Requested]
          /\ \A j \in Instances : j # i => records'[j] = records[j] /\ address'[j] = address[j]
      BY <2>4, AllocationIsFree DEF IncusAllocate, Allocate
    <3> QED BY <1>0, <2>4, <3>1, DriversAssumption DEF IncusAllocate
  <2>5. CASE MakeGuest(i)
    BY <1>0, <2>5 DEF MakeGuest, Made
  <2>6. CASE Register(i)
    BY <1>0, <2>6 DEF Register
  <2> QED BY <1>2, <2>1, <2>2, <2>3, <2>4, <2>5, <2>6 DEF CreateStep
<1>3. ASSUME NEW i \in Instances, DeleteStep(i) PROVE NatInv'
  <2>1. CASE RemoveGuest(i)
    BY <1>0, <2>1 DEF RemoveGuest
  <2>2. CASE ReleaseAllocation(i)
    BY <1>0, <2>2 DEF ReleaseAllocation
  <2>3. CASE Unregister(i)
    BY <1>0, <2>3 DEF Unregister
  <2>4. CASE Recreate(i)
    BY <1>0, <2>4 DEF Recreate
  <2> QED BY <1>3, <2>1, <2>2, <2>3, <2>4 DEF DeleteStep
<1>4. ASSUME NEW i \in Instances, IdentityStep(i) PROVE NatInv'
  <2>0. /\ i \in QemuInstances /\ guest[i] # NoAddress
        /\ records[i] = guest[i] /\ <<i, records[i]>> \in dhcp
    <3>1. phase[i] \in {"identifying", "aligning"}
      BY <1>4 DEF IdentityStep, Identify, DropOutdated, Align
    <3>2. i \in QemuInstances /\ guest[i] # NoAddress
      BY <3>1
    <3> QED BY <3>2
  <2>1. CASE Identify(i)
    <3>1. Allocation(i, address[i]) = {records[i]}
      BY <2>0 DEF Allocation
    <3>2. records' = records
      BY <2>1, <3>1 DEF Identify
    <3> QED BY <1>0, <2>0, <2>1, <3>2 DEF Identify
  <2>2. CASE DropOutdated(i)
    <3>1. address[i] # records[i] /\ dhcp' = dhcp \ {<<i, address[i]>>}
      BY <2>2 DEF DropOutdated
    <3>2. ASSUME NEW j \in QemuInstances, guest[j] # NoAddress
          PROVE  records[j] = guest[j] /\ <<j, guest[j]>> \in dhcp'
      BY <2>0, <3>1, <3>2
    <3>3. ASSUME NEW j \in Instances, phase[j] = "reserved", j \in QemuInstances
          PROVE  <<j, address[j]>> \in dhcp'
      <4>1. j # i
        BY <2>2, <3>3 DEF DropOutdated
      <4> QED BY <3>1, <3>3, <4>1
    <3>4. PhaseInv'
      BY <1>0, <2>2, <3>1, <3>3 DEF DropOutdated
    <3>5. GuestInv'
      BY <2>2, <3>2 DEF DropOutdated
    <3>6. TypeOK'
      BY <2>2, <3>1 DEF DropOutdated
    <3> QED BY <3>4, <3>5, <3>6
  <2>3. CASE Align(i)
    <3>1. CASE address[i] = records[i]
      BY <1>0, <2>3, <3>1 DEF Align
    <3>2. CASE address[i] # records[i]
      <4>1. dhcp' = dhcp \cup {<<i, records[i]>>}
        BY <2>3, <3>2 DEF Align, AddReservation
      <4>2. dhcp' = dhcp
        BY <2>0, <4>1
      <4> QED BY <1>0, <2>3, <4>2 DEF Align
    <3> QED BY <3>1, <3>2
  <2> QED BY <1>4, <2>1, <2>2, <2>3 DEF IdentityStep
<1>5. ASSUME NEW i \in Instances, Fail(i) PROVE NatInv'
  BY <1>0, <1>5 DEF Fail
<1>6. CASE Crash
  BY <1>0, <1>6 DEF Crash
<1>7. CASE UNCHANGED vars
  BY <1>7 DEF vars
<1> QED BY <1>1, <1>2, <1>3, <1>4, <1>5, <1>6, <1>7 DEF Next

\* The strengthened invariant.
LEMMA NatInvariant == Spec => []NatInv
BY InitInv, StepInv, PTL DEF Spec

\* Type correctness of the table, the DHCP entries, the guests and the operations.
THEOREM TypeCorrect == Spec => []TypeOK
<1>1. NatInv => TypeOK
  BY DEF NatInv
<1> QED BY <1>1, NatInvariant, PTL

\* A defined qemu guest always holds the record of its address.
THEOREM QemuClaims == Spec => []QemuGuestsClaimed
<1>1. NatInv => QemuGuestsClaimed
  BY DEF NatInv, GuestInv, QemuGuestsClaimed
<1> QED BY <1>1, NatInvariant, PTL

\* The DHCP server answers a defined qemu guest, and nobody else, with its address.
THEOREM QemuReserved == Spec => []QemuGuestsReserved
<1>1. NatInv => QemuGuestsReserved
  <2> SUFFICES ASSUME NatInv, NEW i \in QemuInstances, guest[i] # NoAddress,
                      NEW j \in QemuInstances, NEW a \in Addresses, j = i \/ a = guest[i]
               PROVE  <<j, a>> \in dhcp <=> j = i /\ a = guest[i]
    BY DEF QemuGuestsReserved
  <2>1. <<i, guest[i]>> \in dhcp /\ \A d, e \in dhcp : d[1] = e[1] <=> d[2] = e[2]
    BY DEF NatInv, GuestInv, PhaseInv
  <2> QED BY <2>1
<1> QED BY <1>1, NatInvariant, PTL

\* A reservation that outlives its record belongs to no guest: the record of a guest, and
\* with it the only entry that may bear its instance or its address, is there.
THEOREM StaleEntriesHarmless == Spec => []StaleEntriesUnused
<1>1. NatInv => StaleEntriesUnused
  <2> SUFFICES ASSUME NatInv, NEW i \in QemuInstances, NEW a \in Addresses,
                      <<i, a>> \in dhcp, \A j \in QemuInstances : records[j] # a
               PROVE  guest[i] = NoAddress /\ \A j \in QemuInstances : guest[j] # a
    BY DEF StaleEntriesUnused
  <2>1. a # NoAddress
    BY AddressesAssumption
  <2>2. \A j \in QemuInstances : guest[j] # a
    BY <2>1 DEF NatInv, GuestInv
  <2>3. ASSUME guest[i] # NoAddress PROVE FALSE
    <3>1. <<i, guest[i]>> \in dhcp
      BY <2>3 DEF NatInv, GuestInv
    <3>2. guest[i] = a
      BY <3>1 DEF NatInv, PhaseInv
    <3> QED BY <2>2, <3>2
  <2> QED BY <2>2, <2>3
<1> QED BY <1>1, NatInvariant, PTL

-----------------------------------------------------------------------------
(* The table.                                                              *)

\* Every step keeps the table free of conflicts: only an allocation adds to it,
\* and it adds an address nobody on the bridge holds.
LEMMA StepTable == NatInv /\ TableConsistent /\ [Next]_vars => TableConsistent'
<1> SUFFICES ASSUME NatInv, TableConsistent, [Next]_vars PROVE TableConsistent'
  OBVIOUS
<1>1. ASSUME UNCHANGED records PROVE TableConsistent'
  BY <1>1 DEF TableConsistent
<1>2. ASSUME NEW i \in Instances, NEW a \in Allocation(i, address[i]),
             records' = [records EXCEPT ![i] = a]
      PROVE  TableConsistent'
  <2>1. a \in Addresses /\ (records[i] # NoAddress => a = records[i])
        /\ (records[i] = NoAddress => a \notin Used(i))
    BY AllocationIsFree DEF NatInv, TypeOK
  <2>2. CASE records[i] # NoAddress
    <3>1. records' = records
      BY <1>2, <2>1, <2>2 DEF NatInv, TypeOK
    <3> QED BY <1>1, <3>1
  <2>3. CASE records[i] = NoAddress
    BY <1>2, <2>1, <2>3, DriversAssumption
       DEF TableConsistent, Used, SameBridge, Instances, NatInv, TypeOK
  <2> QED BY <2>2, <2>3
<1>3. ASSUME NEW i \in Instances, ReleaseAllocation(i) PROVE TableConsistent'
  BY <1>3, AddressesAssumption
     DEF ReleaseAllocation, TableConsistent, SameBridge, Instances, NatInv, TypeOK
<1>4. ASSUME NEW i \in Instances, CreateStep(i) PROVE TableConsistent'
  BY <1>1, <1>2, <1>4 DEF CreateStep, QemuReuse, QemuAllocate, QemuReserve, IncusAllocate,
     MakeGuest, Made, Register, Allocate, disk
<1>5. ASSUME NEW i \in Instances, DeleteStep(i) PROVE TableConsistent'
  BY <1>1, <1>3, <1>5 DEF DeleteStep, RemoveGuest, Unregister, Recreate, disk
<1>6. ASSUME NEW i \in Instances, IdentityStep(i) PROVE TableConsistent'
  BY <1>1, <1>2, <1>6 DEF IdentityStep, Identify, DropOutdated, Align
<1>7. ASSUME NEW i \in Instances, Request(i) \/ Fail(i) PROVE TableConsistent'
  BY <1>1, <1>7 DEF Request, BeginCreate, BeginDelete, BeginReinstall, BeginIdentity, Begin,
     Fail, disk
<1>8. CASE Crash \/ UNCHANGED vars
  BY <1>1, <1>8 DEF Crash, vars, disk
<1> QED BY <1>4, <1>5, <1>6, <1>7, <1>8 DEF Next

\* The table the agent saves is always one that it accepts when it loads it.
THEOREM TableAccepted == Spec => []TableConsistent
BY InitInv, StepInv, StepTable, PTL DEF Spec

\* A record is never exchanged, and is removed only when the guest is gone.
THEOREM SlotsKept == Spec => SlotKeptWhileUsed
<1> DEFINE Kept == \A i \in Instances : records[i] # NoAddress =>
                      \/ records'[i] = records[i]
                      \/ records'[i] = NoAddress /\ guest[i] = NoAddress
<1>1. NatInv /\ [Next]_vars => [Kept]_vars
  <2> SUFFICES ASSUME NatInv, Next PROVE Kept
    BY DEF vars, disk
  <2>1. ASSUME UNCHANGED records PROVE Kept
    BY <2>1
  <2>2. ASSUME NEW i \in Instances, NEW a \in Allocation(i, address[i]),
               records' = [records EXCEPT ![i] = a]
        PROVE  Kept
    BY <2>2, AllocationIsFree DEF NatInv, TypeOK
  <2>3. ASSUME NEW i \in Instances, ReleaseAllocation(i) PROVE Kept
    BY <2>3 DEF ReleaseAllocation, NatInv, TypeOK, PhaseInv
  <2> HIDE DEF Kept
  <2>4. ASSUME NEW i \in Instances, CreateStep(i) PROVE Kept
    BY <2>1, <2>2, <2>4 DEF CreateStep, QemuReuse, QemuAllocate, QemuReserve, IncusAllocate,
       MakeGuest, Made, Register, Allocate, disk
  <2>5. ASSUME NEW i \in Instances, DeleteStep(i) PROVE Kept
    BY <2>1, <2>3, <2>5 DEF DeleteStep, RemoveGuest, Unregister, Recreate, disk
  <2>6. ASSUME NEW i \in Instances, IdentityStep(i) PROVE Kept
    BY <2>1, <2>2, <2>6 DEF IdentityStep, Identify, DropOutdated, Align
  <2>7. ASSUME NEW i \in Instances, Request(i) \/ Fail(i) PROVE Kept
    BY <2>1, <2>7 DEF Request, BeginCreate, BeginDelete, BeginReinstall, BeginIdentity,
       Begin, Fail, disk
  <2>8. CASE Crash
    BY <2>1, <2>8 DEF Crash, disk
  <2> QED BY <2>4, <2>5, <2>6, <2>7, <2>8 DEF Next
<1> QED BY <1>1, NatInvariant, PTL DEF Spec, SlotKeptWhileUsed

-----------------------------------------------------------------------------
(* The promise of AddressPool.                                             *)

\* Allocating is claiming, unless there is a record already.
LEMMA AllocateRefines ==
    ASSUME NatInv, NEW i \in Instances, NEW a \in Allocation(i, address[i]),
           records' = [records EXCEPT ![i] = a], UNCHANGED guest
    PROVE  Pool!Next \/ UNCHANGED Pool!vars
<1>1. /\ a \in Addresses /\ (records[i] # NoAddress => a = records[i])
      /\ (records[i] = NoAddress => a \notin Used(i))
  BY AllocationIsFree DEF NatInv, TypeOK
<1>2. InUse' = InUse
  BY DEF InUse
<1>3. CASE records[i] # NoAddress
  BY <1>1, <1>2, <1>3 DEF NatInv, TypeOK, Pool!vars
<1>4. CASE records[i] = NoAddress
  <2>1. a \in Addresses \ {Gateway} /\ \A j \in SameBridge(i) \ {i} : records[j] # a
    BY <1>1, <1>4 DEF Used
  <2>2. Pool!Claim(i, a)
    BY <1>2, <1>4, <2>1 DEF Pool!Claim
  <2> QED BY <2>1, <2>2 DEF Pool!Next
<1> QED BY <1>3, <1>4

\* A guest that is made or removed begins or ceases to use the address of its record.
LEMMA GuestRefines ==
    ASSUME NatInv, NEW i \in Instances, NEW g, guest' = [guest EXCEPT ![i] = g],
           UNCHANGED records,
           i \in QemuInstances => records[i] # NoAddress /\ g \in {records[i], NoAddress}
    PROVE  Pool!Next \/ UNCHANGED Pool!vars
<1> USE DEF NatInv, TypeOK
<1>1. CASE i \notin QemuInstances
  <2>1. InUse' = InUse
    BY <1>1 DEF InUse
  <2> QED BY <2>1 DEF Pool!vars
<1>2. CASE i \in QemuInstances
  <2>1. InUse \ Pool!Mine(i) \subseteq InUse'
    BY <1>2 DEF InUse, Pool!Mine
  <2>2. InUse' \subseteq InUse \cup {<<i, records[i]>>}
    BY <1>2 DEF InUse
  <2>3. Pool!Use(i)
    BY <1>2, <2>1, <2>2 DEF Pool!Use
  <2> QED BY <2>3 DEF Pool!Next
<1> QED BY <1>1, <1>2

\* Giving the slot back is releasing it: the delete has removed the guest before.
LEMMA ReleaseRefines ==
    ASSUME NatInv, NEW i \in Instances, ReleaseAllocation(i)
    PROVE  Pool!Next
<1>1. guest[i] = NoAddress /\ UNCHANGED guest
  BY DEF NatInv, PhaseInv, ReleaseAllocation
<1>2. InUse' = InUse /\ Pool!Mine(i) = {}
  BY <1>1 DEF InUse, Pool!Mine
<1>3. Pool!Release(i)
  BY <1>2 DEF ReleaseAllocation, Pool!Release
<1> QED BY <1>3 DEF Pool!Next

\* Every step hands out, uses or gives back an address as the pool does, or leaves all
\* three alone.
LEMMA StepRefines == NatInv /\ [Next]_vars => [Pool!Next]_(Pool!vars)
<1> SUFFICES ASSUME NatInv, [Next]_vars PROVE Pool!Next \/ UNCHANGED Pool!vars
  OBVIOUS
<1>0. ASSUME UNCHANGED <<records, guest>> PROVE UNCHANGED Pool!vars
  BY <1>0 DEF Pool!vars, InUse
<1>1. ASSUME NEW i \in Instances, Request(i) \/ Fail(i) PROVE UNCHANGED Pool!vars
  BY <1>0, <1>1 DEF Request, BeginCreate, BeginDelete, BeginReinstall, BeginIdentity, Begin,
     Fail, disk
<1>2. ASSUME NEW i \in Instances, CreateStep(i) PROVE Pool!Next \/ UNCHANGED Pool!vars
  <2>1. CASE QemuReuse(i) \/ QemuReserve(i) \/ Register(i)
    BY <1>0, <2>1 DEF QemuReuse, QemuReserve, Register, disk
  <2>2. CASE QemuAllocate(i) \/ IncusAllocate(i)
    <3>1. CASE UNCHANGED records
      BY <1>0, <2>2, <3>1 DEF QemuAllocate, IncusAllocate
    <3>2. CASE Allocate(i)
      BY <2>2, <3>2, AllocateRefines DEF QemuAllocate, IncusAllocate, Allocate
    <3> QED BY <2>2, <3>1, <3>2 DEF QemuAllocate, IncusAllocate
  <2>3. CASE MakeGuest(i)
    <3>1. i \in QemuInstances => records[i] # NoAddress /\ address[i] = records[i]
      BY <2>3, AddressesAssumption DEF NatInv, PhaseInv, MakeGuest
    <3> QED BY <2>3, <3>1, GuestRefines DEF MakeGuest
  <2> QED BY <1>2, <2>1, <2>2, <2>3 DEF CreateStep
<1>3. ASSUME NEW i \in Instances, DeleteStep(i) PROVE Pool!Next \/ UNCHANGED Pool!vars
  <2>1. CASE RemoveGuest(i)
    <3>1. CASE guest[i] = NoAddress
      <4>1. guest' = guest
        BY <2>1, <3>1 DEF RemoveGuest, NatInv, TypeOK
      <4> QED BY <1>0, <2>1, <4>1 DEF RemoveGuest
    <3>2. CASE guest[i] # NoAddress
      <4>1. i \in QemuInstances => records[i] # NoAddress
        BY <3>2 DEF NatInv, GuestInv
      <4> QED BY <2>1, <4>1, GuestRefines DEF RemoveGuest
    <3> QED BY <3>1, <3>2
  <2>2. CASE ReleaseAllocation(i)
    BY <2>2, ReleaseRefines
  <2>3. CASE Unregister(i) \/ Recreate(i)
    BY <1>0, <2>3 DEF Unregister, Recreate, disk
  <2> QED BY <1>3, <2>1, <2>2, <2>3 DEF DeleteStep
<1>4. ASSUME NEW i \in Instances, IdentityStep(i) PROVE Pool!Next \/ UNCHANGED Pool!vars
  <2>1. CASE Identify(i)
    BY <2>1, AllocateRefines DEF Identify
  <2>2. CASE DropOutdated(i) \/ Align(i)
    BY <1>0, <2>2 DEF DropOutdated, Align
  <2> QED BY <1>4, <2>1, <2>2 DEF IdentityStep
<1>5. CASE Crash \/ UNCHANGED vars
  BY <1>0, <1>5 DEF Crash, vars, disk
<1> QED BY <1>1, <1>2, <1>3, <1>4, <1>5 DEF Next

\* The allocation table and the guests implement the pool, whatever fails and whenever
\* the agent dies.
THEOREM NatImplementsPool == Spec => ImplementsPool
<1>1. Init => Pool!Init
  BY DEF Init, Pool!Init, InUse, Instances
<1>2. Spec => [][Pool!Next]_(Pool!vars)
  BY StepRefines, NatInvariant, PTL DEF Spec
<1> QED BY <1>1, <1>2 DEF Spec, ImplementsPool, Pool!Spec

\* What the pool promises of every implementation, here of the table and the guests.
Promise == INSTANCE AddressPool_proofs
    WITH Addresses <- Addresses \ {Gateway},
         Rivals <- [i \in Instances |-> SameBridge(i) \ {i}],
         Moves <- FALSE,
         None <- NoAddress,
         held <- records,
         used <- InUse

\* Two qemu guests never have the same address: it follows from the promise alone.
THEOREM NoSharedAddress == Spec => []GuestsDiffer
<1>1. Promise!MutualRivals
  BY DriversAssumption DEF Promise!MutualRivals, SameBridge, Instances
<1>2. NoAddress \notin Addresses \ {Gateway}
  BY AddressesAssumption
<1>3. Promise!Spec => []Promise!UsedOnce
  BY <1>1, <1>2, Promise!NoSharedUse
<1>4. ImplementsPool => Promise!Spec
  BY DEF ImplementsPool, Pool!Spec, Pool!Init, Pool!Next, Pool!Claim, Pool!Use, Pool!Release,
     Pool!Restart, Pool!Mine, Pool!vars, Promise!Spec, Promise!Init, Promise!Next,
     Promise!Claim, Promise!Use, Promise!Release, Promise!Restart, Promise!Mine, Promise!vars
<1>5. Promise!UsedOnce => GuestsDiffer
  <2> SUFFICES ASSUME Promise!UsedOnce, NEW i \in QemuInstances, NEW j \in QemuInstances,
                      guest[i] # NoAddress, guest[j] = guest[i], j # i
               PROVE  FALSE
    BY DEF GuestsDiffer
  <2>1. <<i, guest[i]>> \in InUse /\ <<j, guest[j]>> \in InUse
    BY DEF InUse
  <2>2. j \in SameBridge(i) \ {i} /\ i \in Instances
    BY DEF SameBridge, Instances
  <2> QED BY <2>1, <2>2 DEF Promise!UsedOnce
<1> QED BY <1>3, <1>4, <1>5, NatImplementsPool, PTL
=============================================================================
