------------------------------ MODULE DiskQuota ------------------------------
(***************************************************************************)
(* The root disk of an Incus instance: the storage pool it is on, and its  *)
(* size (internal/driver/incus.go, resize.go).  A pool of its own is made  *)
(* for an instance where the host can, else its root is put on a shared    *)
(* one; the profile has the root device, with the size as its quota.  A    *)
(* resize grows the pool and copies the device to the instance, where it   *)
(* overrides that of the profile from then on.  Configuring the network    *)
(* goes through the same code as a create, and sets the size again.        *)
(*                                                                         *)
(* The operations of an instance exclude each other (OperationLease), and  *)
(* no other one touches its profile or its device, so there is one         *)
(* instance.  Of the others it sees that their pools come and go: a shared *)
(* pool is chosen from all that there are, theirs included, and one of     *)
(* them may put its root on the pool of this one.  Every command may fail, *)
(* and the agent may crash.  The size comes from the master, who may have  *)
(* missed that a resize has succeeded, or from the table, which a restart  *)
(* fills from a file that only create and import write.                    *)
(***************************************************************************)
EXTENDS Integers

CONSTANTS QuotaPools, DirPools, \* shared pools by driver: dir ignores a quota
          Own,                  \* vdisk-<id>, a btrfs pool
          Others,               \* the same of other instances
          Lost,                 \* a pool that an older profile names and that has gone
          Sizes,                \* in GiB; 0 asks for no quota
          MaxFaults,            \* bound: failed commands and crashes, in all
          None

Shared == QuotaPools \cup DirPools
Pools  == Shared \cup Others \cup {Own}
Limits == Sizes \cup {0}

ASSUME PoolsAssumption ==
    /\ QuotaPools \cap DirPools = {}
    /\ Others \cap Shared = {}
    /\ Own \notin Shared \cup Others
    /\ Lost \notin Pools /\ None \notin Pools \cup {Lost}
ASSUME SizesAssumption == Sizes \subseteq Nat \ {0} /\ None \notin Limits
ASSUME FaultsAssumption == MaxFaults \in Nat

Jobs   == {"none", "create", "import", "configure", "start", "delete", "reinstall", "resize"}
Phases == {"idle", "profile", "pool", "add", "ready", "launched",
           "remove", "unprofile", "unpool", "grow", "put"}

VARIABLES
    present,    \* the pools that there are, but for Own
    btrfs,      \* the host can make pools
    own,        \* the size of the pool Own, 0 if there is none
    lodger,     \* another instance has its root on Own
    profile,    \* virtualis-p-<id> exists
    root, limit,    \* the pool and the size of its root device
    device, grown,  \* the same of the instance's own root device
    volume,     \* the pool where the guest's root is, or None without a guest
    wish,       \* the size the master knows
    stored,     \* the size in the table
    owned,      \* the size in owned-instances/<id>.json
    job, phase, \* the operation that holds the lease, and how far it is
    size, pool, \* the size it goes by, and the pool it has chosen
    astray,     \* history: an operation has gone by another size than the master's
    leftover,   \* history: a pool has outlived its guest
    unseen,     \* history: a pool's driver could not be told
    faults      \* the faults so far

host    == <<present, btrfs, own, lodger>>
devices == <<profile, root, limit, device, grown, volume>>
sizes   == <<wish, stored, owned>>
control == <<job, phase, size, pool>>
past    == <<astray, leftover, unseen>>
history == <<past, faults>>
vars    == <<host, devices, sizes, control, history>>

TypeOK ==
    /\ present \subseteq Shared \cup Others
    /\ btrfs \in BOOLEAN
    /\ own \in Limits
    /\ lodger \in BOOLEAN
    /\ profile \in BOOLEAN
    /\ root \in Pools \cup {Lost, None}
    /\ limit \in Limits
    /\ device \in Pools \cup {None}
    /\ grown \in Limits
    /\ volume \in Pools \cup {None}
    /\ wish \in Limits
    /\ stored \in Limits \cup {None}
    /\ owned \in Limits \cup {None}
    /\ job \in Jobs
    /\ phase \in Phases
    /\ size \in Limits
    /\ pool \in Pools \cup {None}
    /\ astray \in BOOLEAN
    /\ leftover \in BOOLEAN
    /\ unseen \in BOOLEAN
    /\ faults \in 0..MaxFaults

\* A profile may be there from an older agent, on a pool without quotas or one that has gone.
Init ==
    /\ present \in SUBSET (Shared \cup Others)
    /\ btrfs \in BOOLEAN
    /\ own = 0 /\ lodger = FALSE
    /\ root \in (present \cap DirPools) \cup {Lost, None}
    /\ profile = (root # None)
    /\ limit = 0
    /\ device = None /\ grown = 0
    /\ volume = None
    /\ wish \in Limits
    /\ stored = None /\ owned = None
    /\ job = "none" /\ phase = "idle" /\ size = 0 /\ pool = None
    /\ astray = FALSE /\ leftover = FALSE /\ unseen = FALSE /\ faults = 0

-----------------------------------------------------------------------------
(* What Incus goes by.                                                     *)

\* expanded_devices: the instance's own device overrides that of the profile.
RootPool == IF device # None THEN device ELSE root
Quota    == IF device # None THEN grown ELSE limit

\* storageDriverSupportsQuota.
SupportsQuota(p) == p \in QuotaPools \cup Others \cup {Own}

\* listStoragePools.
Existing == present \cup (IF own > 0 THEN {Own} ELSE {})
PoolExists(p) == p \in Existing

-----------------------------------------------------------------------------
(* The other instances: a pool goes with its instance, if nobody else's    *)
(* root is on it.                                                          *)

OtherPool ==
    /\ \E p \in Others \ {root, device, volume} :
          present' = IF p \in present THEN present \ {p} ELSE present \cup {p}
    /\ UNCHANGED <<btrfs, own, lodger, devices, sizes, control, history>>

OtherRoot ==
    /\ own > 0
    /\ lodger' = ~lodger
    /\ UNCHANGED <<present, btrfs, own, devices, sizes, control, history>>

-----------------------------------------------------------------------------
(* Control.                                                                *)

Begin(j, s, p) ==
    /\ phase = "idle"
    /\ job' = j /\ size' = s /\ phase' = p
    /\ UNCHANGED pool

Continue(p) == phase' = p /\ UNCHANGED <<job, size, pool>>

Finish == job' = "none" /\ phase' = "idle" /\ size' = 0 /\ pool' = None

\* An operation ends with an error.  An import removes its guest and its profile.  (Where
\* that fails as well, it leaves what a crash leaves.)
Abort ==
    /\ Finish
    /\ IF job = "import"
       THEN /\ profile' = FALSE /\ root' = None /\ limit' = 0 /\ volume' = None
            /\ UNCHANGED <<device, grown>>
       ELSE UNCHANGED devices

Fault == faults < MaxFaults /\ faults' = faults + 1

GoBy(s) == astray' = (astray \/ s # wish) /\ UNCHANGED <<leftover, unseen, faults>>

-----------------------------------------------------------------------------
(* Requests, and the enforcer.                                             *)

\* createInstance comes again after a failure.  Import wants neither a guest nor a profile.
BeginCreate ==
    /\ owned = None
    /\ \/ Begin("create", wish, "profile")
       \/ volume = None /\ ~profile /\ Begin("import", wish, "profile")
    /\ UNCHANGED <<host, devices, sizes, history>>

\* configureNetwork, and Start on a dedicated network, go by what the master sends;
\* the enforcer, and requests without an instance, by the table.
BeginConfigure(s) ==
    /\ \E j \in {"configure", "start"} : Begin(j, s, "profile")
    /\ GoBy(s)
    /\ UNCHANGED <<host, devices, sizes>>

BeginReinstall(s) ==
    /\ owned # None
    /\ Begin("reinstall", s, "remove")
    /\ GoBy(s)
    /\ UNCHANGED <<host, devices, sizes>>

BeginDelete ==
    /\ owned # None
    /\ Begin("delete", 0, "remove")
    /\ UNCHANGED <<host, devices, sizes, history>>

\* Mutant: a pool is never grown.
BeginResizeInPlace(s) ==
    /\ volume # None
    /\ s >= wish /\ Quota > 0 /\ s >= Quota
    /\ s > Quota => SupportsQuota(RootPool)
    /\ Begin("resize", s, "put")
    /\ UNCHANGED <<host, devices, sizes, history>>

\* ValidateResize compares with what the master knows, Resize with what Incus has.
BeginResize(s) ==
    /\ volume # None
    /\ s >= wish /\ Quota > 0 /\ s >= Quota
    /\ s > Quota => SupportsQuota(RootPool)
    /\ Begin("resize", s, IF s > Quota /\ RootPool = Own /\ s > own THEN "grow" ELSE "put")
    /\ UNCHANGED <<host, devices, sizes, history>>

\* A status request stores what the master sends.
Observe ==
    /\ phase = "idle" /\ volume # None
    /\ stored' = wish
    /\ UNCHANGED <<host, devices, wish, owned, control, history>>

-----------------------------------------------------------------------------
(* ensureProfile.                                                          *)

\* The size of a root device that there is.
SetLimit == limit' = (IF size > 0 THEN size ELSE limit)

\* Mutant: the pool is not asked for its driver.
KeepRootAnywhere ==
    /\ phase = "profile" /\ root # None /\ PoolExists(root)
    /\ SetLimit
    /\ Continue("ready")
    /\ UNCHANGED <<host, profile, root, device, grown, volume, sizes, history>>

\* The root of an existing profile stays where it is, and gets the size.
KeepRoot ==
    /\ phase = "profile" /\ root # None /\ PoolExists(root)
    /\ size > 0 => SupportsQuota(root)
    /\ SetLimit
    /\ Continue("ready")
    /\ UNCHANGED <<host, profile, root, device, grown, volume, sizes, history>>

\* The pool of the root or its driver cannot be told, and the size is set all the same.
KeepRootUnseen ==
    /\ phase = "profile" /\ root # None
    /\ Fault
    /\ SetLimit
    /\ Continue("ready")
    /\ unseen' = TRUE
    /\ UNCHANGED <<host, profile, root, device, grown, volume, sizes, astray, leftover>>

RefuseRoot ==
    /\ phase = "profile" /\ root # None /\ PoolExists(root)
    /\ size > 0 /\ ~SupportsQuota(root)
    /\ Abort
    /\ UNCHANGED <<host, sizes, history>>

\* Incus does not take the root device from a guest that has no other.
RemoveDevice ==
    IF volume # None /\ device = None
    THEN UNCHANGED <<root, limit>>
    ELSE root' = None /\ limit' = 0

\* The root is on a pool that does not exist (or does not answer): it is removed, if it can.
ReplaceRoot ==
    /\ phase = "profile" /\ root # None
    /\ \/ ~PoolExists(root) /\ UNCHANGED faults /\ RemoveDevice
       \/ Fault /\ \/ RemoveDevice
                   \/ UNCHANGED <<root, limit>>
    /\ Continue("pool")
    /\ UNCHANGED <<host, profile, device, grown, volume, sizes, past>>

NewRoot ==
    /\ phase = "profile" /\ root = None
    /\ profile' = TRUE
    /\ Continue("pool")
    /\ UNCHANGED <<host, root, limit, device, grown, volume, sizes, history>>

\* Create and configureNetwork make a pool for the instance.
WantsOwn == job \in {"create", "reinstall", "configure"} /\ size > 0

Choose(p) == pool' = p /\ phase' = "add" /\ UNCHANGED <<job, size>>

\* ensureDedicatedPool: a pool that is there is taken whatever its size.
ChooseOwn ==
    /\ phase = "pool" /\ WantsOwn
    /\ own > 0 \/ btrfs
    /\ own' = IF own > 0 THEN own ELSE size
    /\ Choose(Own)
    /\ UNCHANGED <<present, btrfs, lodger, devices, sizes, history>>

\* Mutant: any pool will do.
SelectableAll == Existing

\* selectStoragePool: "default" or the first that there is, whosever it is.
Selectable == IF size > 0 THEN {p \in Existing : SupportsQuota(p)} ELSE Existing

NeedsShared ==
    \/ (~WantsOwn \/ (own = 0 /\ ~btrfs)) /\ UNCHANGED faults
    \/ WantsOwn /\ Fault

ChooseShared ==
    /\ phase = "pool" /\ NeedsShared
    /\ \E p \in Selectable : Choose(p)
    /\ UNCHANGED <<host, devices, sizes, past>>

\* Without any pool, the pool "default" is made, which is of no use for a quota.
MakeDefault ==
    /\ phase = "pool" /\ NeedsShared
    /\ Existing = {} /\ size = 0
    /\ \E p \in DirPools : present' = {p} /\ Choose(p)
    /\ UNCHANGED <<btrfs, own, lodger, devices, sizes, past>>

RefusePool ==
    /\ phase = "pool" /\ NeedsShared
    /\ Selectable = {} /\ size > 0
    /\ Abort
    /\ UNCHANGED <<host, sizes, past>>

\* Mutant: a root device that is still there is set to the new pool.
AddRootOver ==
    /\ phase = "add"
    /\ root' = pool /\ limit' = size
    /\ Continue("ready")
    /\ UNCHANGED <<host, profile, device, grown, volume, sizes, history>>

AddRoot ==
    /\ phase = "add" /\ root = None
    /\ root' = pool /\ limit' = size
    /\ Continue("ready")
    /\ UNCHANGED <<host, profile, device, grown, volume, sizes, history>>

\* There is a root device still.
RefuseAdd ==
    /\ phase = "add" /\ root # None
    /\ Abort
    /\ UNCHANGED <<host, sizes, history>>

-----------------------------------------------------------------------------
(* After ensureProfile.                                                    *)

\* The guest is launched, or imported, with the profile alone.
Launch ==
    /\ phase = "ready" /\ job \in {"create", "import", "reinstall"}
    /\ volume = None /\ PoolExists(root)
    /\ volume' = root
    /\ Continue("launched")
    /\ UNCHANGED <<host, profile, root, limit, device, grown, sizes, history>>

\* There is a guest already, or no pool for it; or none to assign the profile to, or to start.
Refuse ==
    /\ phase = "ready"
    /\ \/ job \in {"configure", "start"} /\ volume = None
       \/ job \notin {"configure", "start"} /\ (volume # None \/ ~PoolExists(root))
    /\ Abort
    /\ UNCHANGED <<host, sizes, history>>

\* A reinstall stores the instance, but does not rewrite its file.
Register ==
    /\ phase = "launched"
    /\ stored' = size
    /\ owned' = IF job = "reinstall" THEN owned ELSE size
    /\ Finish
    /\ UNCHANGED <<host, devices, wish, history>>

Configured ==
    /\ phase = "ready" /\ job \in {"configure", "start"}
    /\ volume # None
    /\ stored' = size
    /\ Finish
    /\ UNCHANGED <<host, devices, wish, owned, history>>

-----------------------------------------------------------------------------
(* Resize.                                                                 *)

GrowPool ==
    /\ phase = "grow"
    /\ own' = size
    /\ Continue("put")
    /\ UNCHANGED <<present, btrfs, lodger, devices, sizes, history>>

\* The answer may not reach the master.
Resized ==
    /\ stored' = size
    /\ wish' \in {wish, size}
    /\ UNCHANGED owned
    /\ Finish

\* Mutant: the size is set in the profile, where the next request sets it again.
PutProfile ==
    /\ phase = "put"
    /\ limit' = size
    /\ Resized
    /\ UNCHANGED <<host, profile, root, device, grown, volume, history>>

\* The instance gets a root device of its own.
PutDevice ==
    /\ phase = "put"
    /\ device' = RootPool /\ grown' = size
    /\ Resized
    /\ UNCHANGED <<host, profile, root, limit, volume, history>>

-----------------------------------------------------------------------------
(* Incus.Delete: the guest, then the profile, then the pool.  Failures of  *)
(* the last two are ignored.                                               *)

RemoveGuest ==
    /\ phase = "remove"
    /\ volume' = None /\ device' = None /\ grown' = 0
    /\ Continue("unprofile")
    /\ UNCHANGED <<host, profile, root, limit, sizes, history>>

DropProfile ==
    /\ phase = "unprofile"
    /\ \/ profile' = FALSE /\ root' = None /\ limit' = 0 /\ UNCHANGED faults
       \/ Fault /\ UNCHANGED <<profile, root, limit>>
    /\ Continue("unpool")
    /\ UNCHANGED <<host, device, grown, volume, sizes, past>>

\* Create follows, or deleteInstance removes the file.
Deleted ==
    IF job = "reinstall"
    THEN Continue("profile") /\ UNCHANGED sizes
    ELSE Finish /\ stored' = None /\ owned' = None /\ UNCHANGED wish

\* A pool that a profile names, or where another's root is, is in use.
DropPool ==
    /\ phase = "unpool"
    /\ \/ own' = (IF root = Own \/ lodger THEN own ELSE 0) /\ UNCHANGED faults
       \/ Fault /\ UNCHANGED own
    /\ leftover' = (leftover \/ own' > 0)
    /\ Deleted
    /\ UNCHANGED <<present, btrfs, lodger, devices, astray, unseen>>

-----------------------------------------------------------------------------
(* Failures.                                                               *)

\* A command fails, and with it the operation.
Fail ==
    /\ phase \notin {"idle", "unprofile", "unpool"}
    /\ Fault
    /\ Abort
    /\ UNCHANGED <<host, sizes, past>>

\* The table is filled from the files after a restart.
Crash ==
    /\ Fault
    /\ stored' = owned
    /\ Finish
    /\ UNCHANGED <<host, devices, wish, owned, past>>

Known == {wish} \cup (IF stored = None THEN {} ELSE {stored})

Request ==
    \/ BeginCreate \/ BeginDelete \/ Observe
    \/ \E s \in Known : BeginConfigure(s) \/ BeginReinstall(s)
    \/ \E s \in Sizes : BeginResize(s)

EnsureProfile ==
    \/ KeepRoot \/ KeepRootUnseen \/ RefuseRoot \/ ReplaceRoot \/ NewRoot
    \/ ChooseOwn \/ ChooseShared \/ MakeDefault \/ RefusePool \/ AddRoot \/ RefuseAdd

Step ==
    \/ Launch \/ Refuse \/ Register \/ Configured
    \/ GrowPool \/ PutDevice
    \/ RemoveGuest \/ DropProfile \/ DropPool

Next == OtherPool \/ OtherRoot \/ Request \/ EnsureProfile \/ Step \/ Fail \/ Crash

Spec == Init /\ [][Next]_vars

-----------------------------------------------------------------------------
(* Properties.                                                             *)

\* The root of a guest is bound to the pool where its data is: no operation that sets the
\* profile up again moves it, not even where a pool that is there did not answer
\* (incus.go:213-222).
RootStays == volume # None => RootPool = volume

\* A guest whose root is on the pool of its instance has not been given a larger disk than
\* that pool (resize.go:140-170, incus.go:495-514).  Not if the pool was made for a size
\* that only the table knew, or a delete has left it behind, for it is used again as it is.
\* Nothing is said of a root on a shared pool or on that of another instance, which is not
\* grown for it, nor of the room that another root takes.
PoolHoldsQuota == volume = Own /\ ~astray /\ ~leftover => own >= Quota

\* A guest has a size only where its pool keeps to it (incus.go:243-250, 518-522), unless
\* its driver could not be told once, and the code has gone on (incus.go:247).
QuotaIsEffective == volume # None /\ Quota > 0 /\ ~unseen => SupportsQuota(volume)

\* The disk of a guest does not get smaller (resize.go:30, 126), although creates and network
\* configurations set the size again, from a master who may not know of a resize -- as long
\* as nobody goes by the table instead, which may be that of the create after a restart.
QuotaKeeps == [][volume # None /\ volume' # None /\ ~astray' => Quota' >= Quota]_vars
=============================================================================
