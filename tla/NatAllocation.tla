--------------------------- MODULE NatAllocation ---------------------------
(***************************************************************************)
(* The addresses of NAT guests: the table nat-allocations.json             *)
(* (internal/driver/nat_allocation.go) and the four operations that use    *)
(* it -- Create, Delete and Reinstall of both drivers, and the identity    *)
(* reconciliation QEMU runs before it installs port mappings.              *)
(*                                                                         *)
(* An operation runs under the lease of its instance (OperationLease), so  *)
(* an instance has at most one, but operations of different instances      *)
(* interleave between their steps and meet in the table, which is read,    *)
(* changed and renamed into place under natAllocationMu, and in the static *)
(* host entries of libvirt's DHCP server.  Any step may fail, and the      *)
(* agent may crash between two of them.                                    *)
(***************************************************************************)
EXTENDS Integers

CONSTANTS QemuInstances,    \* instances of the qemu driver, bridge virbr0
          IncusInstances,   \* instances of the incus driver, bridge incusbr0
          Addresses,        \* the host addresses of a bridge's subnet
          Gateway,          \* the bridge's own address
          Managed,          \* the slots the agent hands out (.100 to .239)
          NoAddress         \* no address requested, no record, no guest

ASSUME DriversAssumption == QemuInstances \cap IncusInstances = {}
ASSUME AddressesAssumption ==
    /\ Addresses \subseteq Nat
    /\ Gateway \in Addresses
    /\ Managed \subseteq Addresses
    /\ NoAddress \notin Addresses

Instances == QemuInstances \cup IncusInstances
Requested == Addresses \cup {NoAddress}

\* Instances whose addresses come from the same bridge as those of i.
SameBridge(i) == IF i \in QemuInstances THEN QemuInstances ELSE IncusInstances

Jobs   == {"none", "create", "reinstall", "delete", "identity"}
Phases == {"idle",
           "creating", "allocated", "reserved", "made",     \* Create
           "removing", "removed", "released",               \* Delete
           "identifying", "aligning"}                       \* EnsureNATIdentity

VARIABLES
    records,    \* nat-allocations.json: the address of each instance's record
    dhcp,       \* static entries <<instance, address>> of libvirt's network
    guest,      \* the address a defined guest is configured with
    owned,      \* instances with an ownership file
    job,        \* job[i]: the operation running on i
    phase,      \* phase[i]: how far it has come
    address     \* address[i]: inst.Network.IPv4 of that operation

disk == <<records, dhcp, guest, owned>>
vars == <<disk, job, phase, address>>

TypeOK ==
    /\ records \in [Instances -> Requested]
    /\ dhcp \subseteq QemuInstances \X Addresses
    /\ guest \in [Instances -> Requested]
    /\ owned \subseteq Instances
    /\ job \in [Instances -> Jobs]
    /\ phase \in [Instances -> Phases]
    /\ address \in [Instances -> Requested]

Init ==
    /\ records = [i \in Instances |-> NoAddress]
    /\ dhcp = {}
    /\ guest = [i \in Instances |-> NoAddress]
    /\ owned = {}
    /\ job = [i \in Instances |-> "none"]
    /\ phase = [i \in Instances |-> "idle"]
    /\ address = [i \in Instances |-> NoAddress]

-----------------------------------------------------------------------------
(* The table.                                                              *)

\* Fault: the bridge's own address is not taken into account.
UsedByGuests(i) == {records[j] : j \in SameBridge(i)}

Used(i) == {Gateway} \cup {records[j] : j \in SameBridge(i)}

FreeSlots(i) == Managed \ Used(i)

\* Fault: an existing record does not win over the request.
AllocationAnew(i, requested) ==
    IF requested # NoAddress THEN {requested} \ Used(i)
    ELSE {a \in FreeSlots(i) : \A b \in FreeSlots(i) : a <= b}

\* allocateNATIP: the address it returns, or nothing when it fails.  An existing
\* record wins over the request, a request must be free, and without one the
\* first free slot is taken; there may be none left.
Allocation(i, requested) ==
    IF records[i] # NoAddress THEN {records[i]}
    ELSE IF requested # NoAddress THEN {requested} \ Used(i)
    ELSE {a \in FreeSlots(i) : \A b \in FreeSlots(i) : a <= b}

\* The allocation of the operation on i, saved before anybody else may allocate.
Allocate(i) ==
    \E a \in Allocation(i, address[i]) :
        /\ records' = [records EXCEPT ![i] = a]
        /\ address' = [address EXCEPT ![i] = a]

\* virsh net-update add-last: an entry that shares only the MAC or only the
\* address with the new one is refused; adding an entry again is no error.
AddReservation(i, a) ==
    /\ \A e \in dhcp : e[1] = i <=> e[2] = a
    /\ dhcp' = dhcp \cup {<<i, a>>}

Advance(i, p) == phase' = [phase EXCEPT ![i] = p]

\* The handler answers, whether the operation has succeeded or failed.
Finish(i) ==
    /\ Advance(i, "idle")
    /\ job' = [job EXCEPT ![i] = "none"]
    /\ address' = [address EXCEPT ![i] = NoAddress]

-----------------------------------------------------------------------------
(* Requests.                                                               *)

Begin(i, j, p, requested) ==
    /\ phase[i] = "idle"
    /\ job' = [job EXCEPT ![i] = j]
    /\ Advance(i, p)
    /\ \E a \in requested : address' = [address EXCEPT ![i] = a]
    /\ UNCHANGED disk

\* createInstance refuses an id that is registered, deleteInstance one that is
\* not; a reinstall and the reconciliation ask nothing of the ownership file.  A
\* delete makes no use of an address.
BeginCreate(i)    == i \notin owned /\ Begin(i, "create", "creating", Requested)
BeginDelete(i)    == i \in owned /\ Begin(i, "delete", "removing", {NoAddress})
BeginReinstall(i) == Begin(i, "reinstall", "removing", Requested)
BeginIdentity(i)  == /\ i \in QemuInstances /\ guest[i] # NoAddress
                     /\ Begin(i, "identity", "identifying", Requested)

\* Any driver call, file write or check of an operation may fail.
Fail(i) ==
    /\ phase[i] # "idle"
    /\ Finish(i)
    /\ UNCHANGED disk

-----------------------------------------------------------------------------
(* Create.                                                                 *)

\* Nothing that follows the guest's creation depends on the address any more.
Made(i) == Advance(i, "made") /\ address' = [address EXCEPT ![i] = NoAddress]

\* A qemu domain that exists already is used as it is.
QemuReuse(i) ==
    /\ phase[i] = "creating" /\ i \in QemuInstances /\ guest[i] # NoAddress
    /\ Made(i)
    /\ UNCHANGED <<disk, job>>

QemuAllocate(i) ==
    /\ phase[i] = "creating" /\ i \in QemuInstances /\ guest[i] = NoAddress
    /\ Allocate(i)
    /\ Advance(i, "allocated")
    /\ UNCHANGED <<dhcp, guest, owned, job>>

QemuReserve(i) ==
    /\ phase[i] = "allocated"
    /\ AddReservation(i, address[i])
    /\ Advance(i, "reserved")
    /\ UNCHANGED <<records, guest, owned, job, address>>

\* Incus allocates only when the request declares no address.
IncusAllocate(i) ==
    /\ phase[i] = "creating" /\ i \in IncusInstances
    /\ IF address[i] = NoAddress THEN Allocate(i) ELSE UNCHANGED <<records, address>>
    /\ Advance(i, "reserved")
    /\ UNCHANGED <<dhcp, guest, owned, job>>

\* virsh define, incus launch: neither replaces a guest that exists.
MakeGuest(i) ==
    /\ phase[i] = "reserved" /\ guest[i] = NoAddress
    /\ guest' = [guest EXCEPT ![i] = address[i]]
    /\ Made(i)
    /\ UNCHANGED <<records, dhcp, owned, job>>

\* A create registers its instance; a reinstall leaves the ownership file alone.
Register(i) ==
    /\ phase[i] = "made"
    /\ owned' = IF job[i] = "create" THEN owned \cup {i} ELSE owned
    /\ Finish(i)
    /\ UNCHANGED <<records, dhcp, guest>>

-----------------------------------------------------------------------------
(* Delete, and the Delete a Reinstall begins with.                         *)

\* Fault: the error of removing the guest is ignored.
RemoveGuestOrNot(i) ==
    /\ phase[i] = "removing"
    /\ guest' \in {guest, [guest EXCEPT ![i] = NoAddress]}
    /\ Advance(i, "removed")
    /\ UNCHANGED <<records, dhcp, owned, job, address>>

RemoveGuest(i) ==
    /\ phase[i] = "removing"
    /\ guest' = [guest EXCEPT ![i] = NoAddress]
    /\ Advance(i, "removed")
    /\ UNCHANGED <<records, dhcp, owned, job, address>>

ReleaseAllocation(i) ==
    /\ phase[i] = "removed"
    /\ records' = [records EXCEPT ![i] = NoAddress]
    /\ Advance(i, "released")
    /\ UNCHANGED <<dhcp, guest, owned, job, address>>

Unregister(i) ==
    /\ phase[i] = "released" /\ job[i] = "delete"
    /\ owned' = owned \ {i}
    /\ Finish(i)
    /\ UNCHANGED <<records, dhcp, guest>>

Recreate(i) ==
    /\ phase[i] = "released" /\ job[i] = "reinstall"
    /\ Advance(i, "creating")
    /\ UNCHANGED <<disk, job, address>>

-----------------------------------------------------------------------------
(* EnsureNATIdentity of a defined qemu guest.                              *)

\* The address the request came with is remembered: it may be reserved still.
Identify(i) ==
    /\ phase[i] = "identifying"
    /\ \E a \in Allocation(i, address[i]) : records' = [records EXCEPT ![i] = a]
    /\ Advance(i, "aligning")
    /\ UNCHANGED <<dhcp, guest, owned, job, address>>

\* Fault: the reservation is dropped although it is current.
DropReservation(i) ==
    /\ phase[i] = "aligning" /\ address[i] # NoAddress
    /\ dhcp' = dhcp \ {<<i, address[i]>>}
    /\ address' = [address EXCEPT ![i] = NoAddress]
    /\ UNCHANGED <<records, guest, owned, job, phase>>

\* An outdated reservation is dropped, and the reservation is renewed.
DropOutdated(i) ==
    /\ phase[i] = "aligning" /\ address[i] \notin {records[i], NoAddress}
    /\ dhcp' = dhcp \ {<<i, address[i]>>}
    /\ address' = [address EXCEPT ![i] = NoAddress]
    /\ UNCHANGED <<records, guest, owned, job, phase>>

Align(i) ==
    /\ phase[i] = "aligning" /\ address[i] \in {records[i], NoAddress}
    /\ IF address[i] = records[i] THEN UNCHANGED dhcp ELSE AddReservation(i, records[i])
    /\ Finish(i)
    /\ UNCHANGED <<records, guest, owned>>

-----------------------------------------------------------------------------
\* The agent dies: operations are lost, files and hypervisor state remain.
Crash ==
    /\ phase' = [i \in Instances |-> "idle"]
    /\ job' = [i \in Instances |-> "none"]
    /\ address' = [i \in Instances |-> NoAddress]
    /\ UNCHANGED disk

Request(i) == BeginCreate(i) \/ BeginDelete(i) \/ BeginReinstall(i) \/ BeginIdentity(i)
CreateStep(i) ==
    \/ QemuReuse(i) \/ QemuAllocate(i) \/ QemuReserve(i) \/ IncusAllocate(i)
    \/ MakeGuest(i) \/ Register(i)
DeleteStep(i) == RemoveGuest(i) \/ ReleaseAllocation(i) \/ Unregister(i) \/ Recreate(i)
IdentityStep(i) == Identify(i) \/ DropOutdated(i) \/ Align(i)

Next ==
    \/ \E i \in Instances :
        Request(i) \/ CreateStep(i) \/ DeleteStep(i) \/ IdentityStep(i) \/ Fail(i)
    \/ Crash

Spec == Init /\ [][Next]_vars

-----------------------------------------------------------------------------
(* Properties.                                                             *)

\* The table never holds an address twice on a bridge, nor the bridge's own
\* address: loadNATAllocations would refuse the whole table, and with it every
\* later create and delete of the node.
TableConsistent ==
    \A i \in Instances : records[i] # NoAddress =>
        /\ records[i] # Gateway
        /\ \A j \in SameBridge(i) : records[j] = records[i] => j = i

\* A defined qemu guest holds the record of its address, through reinstalls,
\* failed and repeated creates and deletes, and crashes between their steps:
\* nobody else is given the address while the guest may use it.
QemuGuestsClaimed ==
    \A i \in QemuInstances : guest[i] # NoAddress => records[i] = guest[i]

\* The DHCP server answers a defined qemu guest, and nobody else, with the
\* address port mappings are sent to.
QemuGuestsReserved ==
    \A i \in QemuInstances : guest[i] # NoAddress =>
        \A j \in QemuInstances, a \in Addresses :
            (j = i \/ a = guest[i]) => (<<j, a>> \in dhcp <=> j = i /\ a = guest[i])

\* An address is given back only when the guest that used it is gone, and is
\* never exchanged for another one while it is held: a create that is repeated
\* after a failure gets the address of its first attempt.
SlotKeptWhileUsed ==
    [][\A i \in Instances : records[i] # NoAddress =>
        \/ records'[i] = records[i]
        \/ records'[i] = NoAddress /\ guest[i] = NoAddress]_vars

\* qemu.go:256-257 says that a delete returns the slot to the pool, so that the
\* managed range does not leak: a slot no record holds is not reserved by DHCP for
\* a guest of the past, which would make AddReservation refuse the next one.
FreeSlotsUsable ==
    \A i \in QemuInstances, a \in Addresses :
        <<i, a>> \in dhcp => \E j \in QemuInstances : records[j] = a

\* What such a stale entry may not do: it is never the entry of a guest, nor has a
\* guest its address, so that all it costs is the slot.
StaleEntriesUnused ==
    \A i \in QemuInstances, a \in Addresses :
        <<i, a>> \in dhcp /\ (\A j \in QemuInstances : records[j] # a)
            => guest[i] = NoAddress /\ \A j \in QemuInstances : guest[j] # a

\* Two qemu guests never have the same address.
GuestsDiffer ==
    \A i, j \in QemuInstances : guest[i] # NoAddress /\ guest[j] = guest[i] => j = i

-----------------------------------------------------------------------------
(* The promise: a record is a claim, and a defined qemu guest makes use of *)
(* the address it is configured with.  The guests of incus that declare an *)
(* address have no record, and are not spoken of.                          *)

InUse == {<<i, guest[i]>> : i \in {j \in QemuInstances : guest[j] # NoAddress}}

Pool == INSTANCE AddressPool
    WITH Addresses <- Addresses \ {Gateway},
         Rivals <- [i \in Instances |-> SameBridge(i) \ {i}],
         Moves <- FALSE,
         None <- NoAddress,
         held <- records,
         used <- InUse

\* Create, delete, reinstall and reconciliation, cut into steps that interleave, fail and
\* are lost in crashes, hand out addresses as the pool does: a qemu guest only ever uses
\* the address its instance holds, and no address goes back while a guest uses it.
ImplementsPool == Pool!Spec
=============================================================================
