# virtualis-agent: models and proofs

virtualis-agent is the daemon that runs on every node of a virtualisation panel. A master sends it HTTP requests
for instances; it drives Incus and libvirt/QEMU by running their command lines (`incus`/`lxc`, `virsh`, `qemu-img`,
`iptables`, `ip`), and keeps its own state in files below its data directory. This directory holds TLA+ modules of
its core logic, TLC configurations that check them on small instances, and TLAPS proofs of the main invariants for
every value of the constants.

    tlc -config NatAllocation.cfg MCNatAllocation      # any run of the table in "Runs"
    tlapm NatAllocation_proofs.tla                     # any module named *_proofs

## The system

### Components, their state and operations

| component | source | state | operations |
|---|---|---|---|
| operation lease, instance table | `cmd/agent/operations.go`, `main.go`, `ownership.go` | `busy`, `instances`, `bootReady`; `owned-instances/<id>.json` | `tryOperation`, `retainOperation`, `done`; every handler of an instance; reload at start |
| lifecycle handlers | `main.go`, `resize.go`, `recovery.go` | the instance table, uploads in `images/` | create, delete, power, reinstall, status, network, configure, resize, snapshot, export, import |
| traffic quota | `driver/traffic.go`, `traffic_enforce.go` | `traffic_<id>.json`, `enforcing` | sampling in Metrics, enforcement every minute, kept over a reinstall |
| NAT address allocation | `driver/nat_allocation.go`, `qemu.go`, `incus.go` | `nat-allocations.json`, libvirt's static DHCP entries | allocate, release, reserve, reconcile identity |
| guest storage, import and replacement | `driver/qemu.go`, `incus.go`, `qemu_import.go`, `incus_import.go`, `replacement.go` | disks, domains and Incus instances, snapshot directories, profiles, `retained-<nonce>/recovery.json` | Create, Delete, Reinstall, Import, ReplaceImport |
| snapshots, exports, archives | `driver/snapshot.go`, `incus_archive.go`, `recovery_archive.go` | `snapshots/<id>/` | take, restore, delete, export, validate |
| NAT port mappings | `driver/nat.go` | iptables rules with a tag per instance | reconcile, clear |
| firewall | `driver/firewall*.go` | a chain per instance | atomic replacement, clear, observe |
| dedicated networks | `driver/dedicated*.go` | `network/<id>.json`, bridges, routes, proxy ARP, anti-spoofing chains | ensure, reconcile, clean up |
| storage pools, disk quotas | `driver/incus.go`, `resize.go` | storage pools, the root devices of profile and instance | choose, make, reuse, grow and drop a pool; set the size |
| resize | `driver/resize.go`, `cmd/agent/resize.go` | domain XML, profile devices, disk size | grow, change limits and NIC |
| VNC | `driver/container_vnc.go`, `main.go` | sessions and slots of containers | open, websocket, stop |
| VPC, host network | `driver/network.go`, `hostnet.go` | bridges, the DHCP range | idempotent commands |
| guest bootstrap | `driver/guestnet.go`, `sshd_config.go` | files in the guest | inject password and network |
| telemetry, authentication, registration | `telemetry.go`, `startup_security.go`, `main.go` | rate samples | stateless checks and reports |

### How they interact

A request for an instance takes its lease, reads the instance from the table, the request or the ownership file, calls
the driver for seconds or minutes, writes files, and stores a record. Create and reinstall leave a bootstrap goroutine
behind that shares the lease. The enforcer takes the lease of one instance after the other and skips busy ones. Drivers
share the NAT table (under a mutex), the DHCP entries of one libvirt network, and host resources between instances; all
else is per instance.

### What is hard, and what makes each component correct

* Lease: two goroutines of one operation, either of which may be last; exclusion, no lost update, the lease is given
  back, and the enforcer never acts on what is gone. A crash rebuilds the table from files that only some handlers write.
* NAT addresses: three copies (record, DHCP entry, guest) change in different steps of operations that fail or are
  repeated. A guest keeps its address, nobody else gets it, a free slot is usable.
* Quota: a counter that restarts with the guest, a file whose writes are dropped when they fail, and a mark, a mode and a
  link that several requests change. Nobody is charged or cut off for nothing, or stays cut off or online for ever.
* Storage: a replacement is ten steps without a transaction; whatever fails, no guest's data gets out of reach.
* Dedicated networks: a record on the disk, a chain, a bridge, a route and a proxy entry are made and removed by a command
  each, beside the commands for other instances, and every request may bring another address, uplink or mode. What is there has a record,
  but for what such a change leaves behind; an address belongs to one instance, a guest that runs is protected, what is set up stays, and what
  the record names is cleaned up.
* Mappings and firewall: rules of all instances in two tables, found by a tag and a list, changed by commands whose failures
  are ignored, and removed after the address has gone back to the pool; a rule is known by its port, so one for an earlier address or port of
  the guest stays. Rules are those of the list, lead to their own instance unless that has happened, and come back after faults.
* Disk quotas: the root of a guest is described by its profile or by itself, is on a shared pool or its own, and gets its size from
  the master or the table, with every network configuration again; the pools of other instances are among those it may be put on. It stays where its
  data is, on a pool that keeps to its size, and that has room for it if it is its own; and it does not shrink.
* Planned components (below): snapshots that are restored, archives that never overwrite.

The complete list of hazards, each at its line, is in `PROJECT.json`.

## Modules

| module | models | status |
|---|---|---|
| `InstanceMutex` | abstract lock of the instances: whoever changes a record or a flag owns the instance | specification refined by the next |
| `OperationLease` | lease, handlers by kind, bootstrap goroutine, enforcer pass, table, ownership files, SSH-ready flags, crash | checked, proved |
| `MCOperationLease` | symmetry for TLC | |
| `AddressPool` | what the agent promises about addresses: held by one instance among rivals, used by the holder only, given back when unused | specification refined by `NatAllocation` and `DedicatedNetwork`, proved |
| `NatAllocation` | allocation table, DHCP entries, create, delete, reinstall and identity reconciliation of many guests | checked, proved |
| `MCNatAllocation` | symmetry and a bound for TLC | |
| `TrafficQuota` | accounting file, enforcer, requests and reinstall of one instance, traffic, restarts, faults, crashes | checked, proved |
| `MCTrafficQuota` | a bound for TLC | |
| `InstanceStorage` | volumes, runtimes by name, snapshots and profiles, plans; create, delete, reinstall, import and replacement of one instance | checked, proved |
| `DedicatedNetwork` | records, anti-spoofing chains, bridges, routes and proxy entries of many instances; what every operation does to them | checked, proved |
| `HostRules` | port mappings and firewall chains of many instances; the handlers that reconcile and clear them | checked, proved |
| `DiskQuota` | storage pools and root devices of one Incus instance; ensureProfile, resize, delete | checked, proved |
| `MCHostRules` | lists of mappings and tags for TLC | |
| `*_proofs` | the theorems | |

### OperationLease

`busy`, `instances`, `bootReady`, `owned` and `enforcing` are the fields of `agentServer` and its files. `refs[o]` is the
`refs` of the lease of operation `o`, one operation per request goroutine and one for the enforcer. `handler[o]` and `boot[o]`
are program counters: a handler is *holding* (lease taken, nothing read), *working* (record read, driver called), *persisted*
(ownership file written), *booting* (goroutine started), *stored*, and *returned* (its `done` has run, the bootstrap goroutine may
go on). `Release` is the critical section that deletes the busy entry; it is a step of its own, since `done` drops the count and
then calls `release`. Record contents are members of `Versions`: only equality matters. Handlers that store nothing are one kind,
handlers that store a copy are another; create, import, reinstall, configure and delete have their own.

### NatAllocation

One phase per step between which another instance, a failure or a crash can come: a create allocates (one atomic step, it holds
`natAllocationMu`), reserves the DHCP entry, makes the guest, and registers; a delete removes the guest, releases the slot, and
removes the ownership file; a reinstall is both; the identity reconciliation drops outdated DHCP entries and aligns record
and reservation with the guest. Libvirt's entries are a set of pairs, because `net-update add` refuses a second one for an address
or a guest but nothing removes old ones. The MAC is derived from the id, so it stands for the instance.

`ImplementsPool` maps the module to `AddressPool`: a record is a claim, which is never exchanged (`Moves` is false), the rivals of an instance are
those on its bridge, and a defined QEMU guest makes use of the address it is configured with. Allocating is `Claim`, making and removing a guest `Use`, and releasing the
slot `Release`; every other step is a stutter. Guests of Incus that declare an address have no record, and the promise does not speak of them.

### TrafficQuota

`file` is `trafficState` with one counter instead of two. `pc` is the step of whoever holds the lease. The enforcer samples, cuts,
marks the file and stores the record in four steps, and joins, clears and stores in four more; a guest transfers, stops, restarts
(which resets `nic`) and the agent crashes in between. `pinned` says that a resize has copied the device of an Incus profile to the
instance, where it hides later changes of the profile. "nat" stands for every mode with a link. A lost write and a damaged file are
counted by `faults`. `driver` is chosen in `Init`, since the drivers differ in how they cut and join: QEMU reports no error and does nothing for a guest
that does not run, while Incus removes the device before it adds it, so that a join that fails takes a link down that was up (`JoinLinkFails`). One instance is enough, because file, lock and lease are per id.

### InstanceStorage

A *runtime* is a libvirt domain or an Incus instance, `runtime[n]` the volume of the one named `n`: the instance itself (`Target`), an
import before its rename (`Import(v)`), a backup before it is published (`Stage(v)`), an original put aside (`Retained(v)`). `companion[n]`
is what goes with a name and is renamed in another step: the snapshot directory of QEMU, the profile of Incus. `plan[v]` is the phase in
`recovery.json`. Volumes are identified by their path; 0 is the path that follows from the instance's name. Each phase is a point at which the
code may return an error or the agent may die (`FailOrCrash`); compensation and roll back are `Undo` and `RollBack`, and may fail too.
The master may send any request next. `driver` is chosen in `Init`; steps of one driver say so.

### DedicatedNetwork

`record[i]` is the address in `network/<id>.json`, `spoof[i]` the one the chain of the raw table lets pass, `bridge[i]` the bridge of a
routed guest, which gets its owner's alias by a command of its own (*bare* until then), `route` and `proxy` are those of the host.
`job` and `phase` are the operation on an instance and its last command; a phase is a point where a command may fail (`Fail`), the agent
die (`Crash`) or the host restart (`Reboot`, after which only records are left). The checks of an ensure and the write of the record are one step (`Save`),
because `dedicatedResourcesMu` is held and nobody else changes what they look at. QEMU holds that mutex to the last command of an ensure, Incus
for the record only (`Holds`). A bridged guest, and every Incus guest, needs the record and the chain; its link belongs to others. The master may ask
for another address, uplink and mode with every request, and a mode that is left to the agent follows the host: `Save` takes any of `Ways(i)` and replaces the record
whole, where `way[i]` is its mode and uplink. Cleaning up goes by the record, so once a routed guest is recorded as bridged its bridge, route and proxy entry stay
when the record goes. Two history variables: `applied` is the address whose ensure has completed, and `changed` tells the instances that have been recorded as bridged
since they have a bridge.

`ImplementsPool` maps this module, too: all instances are rivals, a record may be exchanged while it is held (`Moves` is true), and what an instance makes use of are
the address its chain lets pass and the addresses routed to its bridge, but for the routes of a bridge that is `changed`. So an instance sets up only what it holds at the time,
disturbs nobody else's, and its record goes when it makes no use of the address any more; a reboot is the pool's `Restart`, and the claim of a guest that becomes a bridged
one ceases the use of its routes. Proxy entries are left out of the mapping, because a request that changes address, uplink or mode leaves one behind; `ProxyGoesWithRecord` says that
the entry of the recorded address and uplink is never left behind.

### HostRules

`rules` are the tagged rules of the tables nat and filter: a *dnat* rule matches the host's port, an *allow* rule of FORWARD the guest's.
`filter[i]` is the address whose packets FORWARD hands to the chain of `i`. An operation reads the rules with its tag (`Reconcile`, which fixes
`doomed`), deletes the outdated ones, adds what is missing, and renews or clears the chain; operations of other instances come in between. The handlers
are there with what they do to the guest and its address first, and with the status they go by: a power request goes by what its action is expected
to have done, a status request by what it sees. Every request brings a list and an address, which may not be the ones before (`Settle`): the network is in the payload, and
without a fixed reservation the address is what the guest turns out to have. Two instances never have the same address at the same time. `Shadows` are the pairs
of instances where one's tag is a prefix of the other's.

A rule is outdated only by its port (`Outdated`), so a DNAT of a listed port that leads to an earlier address or guest port is kept, in front of the
new one, and wins. The tables are sets; in place of the order, the history variable `turned[i]` says that a listed port of `i` was given another target since the rules of `i` were last
cleared. As long as it is false there is one DNAT for a port, and the order does not matter: this is what `ListedIsForwarded`
and `ForwardsAreOwn` state, and what they except. The other history variable is `sound`: which of mappings and firewall the last operation has set up without a fault, for
the address the instance has. A guest that does not run gets another address without its chain being renewed, and is no longer `sound` then. Failed commands are
ignored by the code, so a fault either leaves rules out and goes on, or ends the operation (`MissRules`, `GiveUp`).

### DiskQuota

`root` and `limit` are pool and size of the root device in the profile, `device` and `grown` of the one a resize copies to the instance, where it
hides the first from then on; `volume` is the pool that holds the data, `own` the size of the pool `vdisk-<id>`. `ensureProfile`, which creates, imports,
reinstalls, network configurations and starts on a dedicated network go through, is three phases: keep, refuse or remove the root (*profile*), choose
or make a pool (*pool*), add the root (*add*). A delete removes the guest, the profile and the pool, and goes on when the latter two fail. There are three
copies of the size beside: `wish` is the master's, who may miss the answer to a resize, `stored` that of the table, and `owned` that of the ownership file, which the
table is filled from after a crash. An operation goes by `wish`, or by `stored` where the request names no instance and for the enforcer (`Known`). History
variables remember that an operation has gone by another size than the master's (`astray`), that a pool has outlived its guest (`leftover`), and that a driver
could not be told (`unseen`). Shared pools differ by whether their driver keeps to a quota, and are not deleted. `selectStoragePool` takes its choice from all pools that
there are (`Existing`), so a root may also be put on the pool of another instance: `Others` are those pools, which come and go with their instances, and `lodger` says
that another's root is on the pool of this one, which is then not deleted. That is all one instance sees of another, since leases, profiles and devices are per instance; so one
is modelled. An import that fails takes its profile with it (`Abort`).

## Runs

| run | instance | what it shows |
|---|---|---|
| `lease` | 2 instances, 2 requests with bootstrap goroutines, enforcer, 1 crash | `MutualExclusion`, `NoLostUpdate`, `NotReadyWhileInjecting`, `NoFlagWithoutInstance`, `OwnedIsLoaded`, and the refinement `ImplementsMutex`: records and flags change only in steps of the owner |
| `lease_live` | 2 instances, 1 request, enforcer, 1 crash, fair | every lease is given back (`LeaseReleased`), every pass ends (`PassEnds`), and the enforcer acts on registered instances only |
| `nat` | 2 QEMU guests, 1 Incus guest, 2 slots, two operations at a time, any failures and crashes | `TableConsistent`, `QemuGuestsReserved`, `SlotKeptWhileUsed`, and the refinement `ImplementsPool` |
| `nat_free` | 1 QEMU guest, 1 slot | finding 1 |
| `traffic` | either driver, quotas 0, 1 and 2, 2 units of traffic, 1 reinstall, 1 crash, 1 fault of the file, fair | `NeverOvercharged`, `CutOnlyOverQuota`, `DisconnectedHasWayBack`, `OverQuotaIsCut`, `BelowQuotaIsRestored` |
| `storage` | either driver, 2 volumes beside the own one, 2 failures or crashes anywhere | `TargetHasVolume`, `DataSurvives`, `CompanionsSurvive`, `RetainedHasPlan`, `ReplacedIsWhole` |
| `storage_reinstall` | QEMU, 1 volume, 2 failures | finding 2 |
| `dedicated` | a QEMU guest, routed or bridged, and an Incus guest, 1 uplink, 2 addresses, one of which may be routed elsewhere, 1 failure, crash or reboot | `OneRecordPerAddress`, `ResourcesAreRecorded`, `AppliedIsInPlace`, `RunningIsProtected`, `RoutesAreNotTakenOver`, and the refinement `ImplementsPool` |
| `dedicated_live` | the same guests, 2 uplinks, 1 address, 1 failure, crash or reboot, fair | `ProxyGoesWithRecord`, `LeftoverIsCleaned` |
| `rules` | 2 instances, 2 addresses that they may exchange, 2 ports, one instance with a mapping whose guest port changes while it is alone, 1 fault, fair | `ListedIsForwarded`, `ForwardsAreOwn`, `FilterIsOwn`, `RulesHeal` |
| `rules_tag` | 2 instances with a mapping each, the tag of one a prefix of the other's, 2 addresses, no faults | finding 3 |
| `quota` | 1 Incus instance, a pool with and one without quotas, the pool of another instance (or fewer, or one that has gone), sizes 0 to 3, 2 failures or crashes anywhere | `RootStays`, `PoolHoldsQuota`, `QuotaIsEffective`, `QuotaKeeps` |

### Bounds, and why they are enough

* Lease: conflicts are between two operations of one instance; the second instance is there for the enforcer's snapshot and for a
  wrong release. One crash brings every mix of files and an empty table. The proofs hold for any numbers.
* NAT: two guests compete for two slots on one bridge, the third uses the other bridge's part of the same table; with one slot more than
  the gateway the range is full in some states. At most two of the three run an operation at the same time (`TwoAtATime`), so any two meet; failures and crashes are not bounded. The proofs hold for any guests and slots.
* Quota: two units of traffic reach and miss each quota, and fill the counter before and after a restart. One reinstall, one
  crash and one fault of the file, at any step and all three in one behaviour; a quota is changed to another one than none only as long as none of them has happened (`TwoQuotas`, a constraint that keeps
  the run small). The proofs hold for any quotas and any number of each. `MaxTraffic` is also a limit on what guests transfer.
* Storage: two volumes allow two replacements in a row, an import and a replacement, or a reinstall with an upload and a replacement. Two
  failures let an operation start from what two others have left. `MaxVolumes` and `MaxFailures` stop the model when they are used up, so
  deadlock is not checked there; the proofs hold for any bounds.
* Dedicated networks: conflicts are between two instances that want one address; of two drivers, because they hold the mutex differently. The second
  address allows moves, and the foreign route; one uplink and the bridged mode allow every change of mode. The second run has a second uplink in place of the second
  address. One fault leaves anything half done, and the operations after it work on that. The proofs hold for any instances of either driver, uplinks, addresses and faults.
* Rules: two addresses let an instance move, and let the other get the address it had. Only one of the two has mappings, which is enough for
  rules that lead to somebody else. Its guest port changes only while the other is not there (`ChangedAlone`, a constraint that keeps the run small): what
  a changed port does beside other instances is left to the proofs, which hold for any instances, tags, lists, addresses and faults.
* Disk quotas: one pool of each kind, one of another instance, and a host with and without mkfs.btrfs give every choice of a pool; three sizes allow two resizes in a row. Two failures
  let an operation start from what a failed one has left of profile and pool, and fail as well. The proofs hold for any pools, sizes and faults.

### Fairness

`OperationLease!Fairness`: a goroutine that has started goes on, because its driver calls run under contexts that end, and the mutexes
are held for a few assignments; the ticker starts passes for ever. `TrafficQuota!Fairness`: operations that have begun go on (weak), an
instance is not busy at every tick, and a driver does not fail for ever to cut or join (strong). `DedicatedNetwork!Fairness`
and `HostRules!Fairness`: an operation goes on, because commands end and a Go mutex starves nobody (strong in the first, where the mutex
is taken again and again by others), and status requests find an instance idle now and again: the master asks for the status of every
instance all the time, and the code relies on it ("the most frequent request", `main.go:502-503`). Nothing obliges the master to send other
requests, guests to transfer, or anything to fail.

## Findings

Each is a counterexample of a run, to a sentence of the code's own comments.

1. *Slots stay reserved* (`FreeSlotsUsable`). `qemu.go:256-257` returns the slot of a deleted guest, but nothing calls `unreserveNATIP` there:
   libvirt's entry stays, and the next guest that gets the slot cannot reserve it. It is no worse than that: such an entry never bears the address of a guest and never belongs to one
   (`StaleEntriesUnused`, proved).
2. *A reinstall finds the old disk* (`ReinstallIsFresh`). `QEMU.Delete` reads the disks from the domain. When it fails after `undefine`, the
   next attempt finds no domain, removes nothing, and `Create` uses the disk that is there. Incus removes the volume with the instance: `IncusReinstallIsFresh` is proved.
3. *Rules of others are removed* (`RulesStay`). `nat.go:16` says that an instance's rules can be enumerated exactly by their tag. `listNATRules`
   looks for the tag anywhere in the line, and `virtualis:1` is also in `virtualis:10`. Prefixes are the whole of it: rules are removed only by an operation that
   looks for their tag or a prefix of it (`RemovedByTag`), and where no tag is a prefix of another, `RulesStay` holds (`RulesStayApart`); both are proved.

Seen while modelling, and stated by no comment of the code: an import of a NAT guest of QEMU (`qemu_import.go:69-152`) allocates no slot, and is not part of `NatAllocation`; a declared address of an Incus guest gets no record; a lost write or a damaged
accounting file can charge traffic twice (and *n* of them *n* + 1 times, but not more: `NeverOvercharged`); a counter that passes its old value before the next sample hides a reset; a reinstall whose
Delete fails after the accounting file is gone loses the usage; Delete knows the image in the ownership file, which a reinstall
with an upload does not rewrite, so that the new disk stays behind.

Seen in the models, without a run of their own:

* Leases: a configure request after a restart does not raise the SSH-ready flag that `main.go:45-46` says it recalibrates.
* Quota: after a status request has stored the master's network, the enforcer clears the mark without restoring the link (`traffic_enforce.go:92`). A guest that
  is over its quota and marked may be online, after a configure request or with a network device of its own: the enforcer leaves it alone, though `traffic.go:67`
  says of the mark that the guest is cut off. A restore of such a guest by Incus that fails half-way takes it off the network, though it is within its quota.
* Storage: snapshots of an original that a failed replacement has retained are taken by the next one for its own (`replacement.go:125`).
* Disk quotas: after a resize, a reinstall and a restart, the table has the size of the create, and the enforcer, or a request without an instance, sets it: the
  disk shrinks (`incus.go:251`). A pool that a failing delete has left is used again though it is too small (`incus.go:506`). `incus.go:247` sets the size where the
  driver cannot be told, which `incus.go:563-564` promises not to do. Without a shared pool that will do, a root is put on the pool of another instance (`incus.go:577-637`), which is not grown for it, and which
  stays behind when its owner is deleted. A retry after a pool did not answer may make a pool that stays without use until the delete.
* Dedicated networks: a bridge that a crash leaves without its alias is refused from then on, so the instance can neither start nor be deleted. A guest that
  moves while it runs leaves its old route until the bridge goes, and its old proxy entry until the host restarts; one that changes its uplink leaves the entry of the old one. A routed guest that is
  recorded as bridged leaves bridge, route and entry, and its record goes without them (`dedicated_state.go:137`). An Incus guest has neither record nor chain from its launch
  to the next start or status request. A `Create` of QEMU that fails after its ensure leaves record and chain to an instance nobody owns.
* Rules: a mapping that changes its guest port, or whose guest changes its address, keeps the old translation first in the chain, so the old one wins (`nat.go:132-134`, `248`);
  where another guest has got that address the mapping leads there. The rules in FORWARD are removed and added
  again by every reconciliation where host and guest port differ, because both are compared with the host ports. `updateNATMappings` takes a status that
  cannot be told for a guest that does not run, and removes its mappings. A stopped guest keeps its chain, with the address it had (`firewall_observed.go:51-53`), which
  then filters the packets of whoever gets that address.

## Proofs

The theorems are of the forms `Spec => []Inv`, `Spec => [][A]_vars` and, for the three refinements (`LeaseImplementsMutex`, `NatImplementsPool`, `NetworkImplementsPool`),
`Spec => Abstract!Spec`. They hold for every value of the constants that satisfies the named assumptions of the module (`...Assumption`): drivers are among the two that exist,
bounds are natural numbers, and the special values differ from the ordinary ones. Each proof goes from an inductive invariant, with one step per action. Three theorems have a
hypothesis of their own: those of `AddressPool_proofs` that rivalry is mutual and between different instances (`NoSharedAddress` discharges it for the
bridges of the NAT guests), and `RulesStayApart` that no tag is a prefix of another. `AllocationDecides` is about one state, not behaviours.

* `OperationLease_proofs`: `LeaseInv` says that `refs` counts the goroutines at work, that a busy instance has exactly one operation, and that
  a bootstrap goroutine works on the instance its handler holds. `MutualExclusion` alone is not inductive: the last `done` could delete the entry of
  somebody else. From it follow `NoLostUpdate`, `NotReadyWhileInjecting`, `NoFlagWithoutInstance`, `EnforcerActsOnRegistered`, `OwnedIsLoaded`, and the refinement
  `LeaseImplementsMutex` (every step is a step of `InstanceMutex` or a stutter).
* `NatAllocation_proofs`: `PhaseInv` is what the phase of an operation says about record, entry and guest, and carries from one of its steps to
  the next over the steps of others on the same table; `GuestInv` gives a guest its record and its entry; together with the types they are
  `NatInv`. `TableConsistent` is inductive beside it. `SlotsKept` is the action property. `NatImplementsPool` needs `PhaseInv` twice: the guest a create makes uses the address of
  the record (`reserved`), and a delete that gives the slot back has removed the guest (`removed`). `AllocationDecides` rests on the well-foundedness of the natural numbers, from the library.
* `AddressPool_proofs`: `PoolInv`, an address has one holder among rivals and who uses one holds it, follows from the promise alone. `NoSharedAddress` takes it back to
  `NatAllocation` through the refinement: two QEMU guests never have the same address.
* `TrafficQuota_proofs`: `WayBackInv` follows the original network through file, snapshot and record; `ChargeInv` bounds the sum of what has been charged and what
  the counter shows since the last sample, in the file, its snapshot and the copy in memory, by `AllowedCharge`, the traffic there was times one more than the faults: a lost write or a
  damaged file forgets the last sample, and so lets the counter be charged from zero once more. Every step keeps the bound, because only a fault can make a file older than the counter.
* `InstanceStorage_proofs`: `StorageInv` says where the original, the backup and the plan are in every phase (`ReplaceInv`, `PlanInv`, `ImportInv`),
  and that a new volume's names are free (`FreshInv`), without which a rename could overwrite. `RetainedPlanned` and
  `DataIsKept` follow. `WholeInv` adds whose snapshots or profile every name has in every phase, and gives `ReplacementIsWhole` and `CompanionsAreKept`.
  `GuestInv` adds to `TargetHasVolume` where the instance has no runtime (after an undefine, and while an import is not published), and that the original a replacement has put aside still has its data,
  which roll back needs; `FreshIncusInv` says that the volume a reinstall of Incus goes on with holds no guest's data.
* `DedicatedNetwork_proofs`: `NetworkInv` is the types, that the mutex holds one operation at most, what is recorded and in place in every phase of an ensure and of a clean up,
  and that a phase before the guest starts belongs to a guest that does not run. Which phases an operation goes through depends on the mode in the record, which stays while they last. `ResourcesAreRecorded`
  needs the phases, because a clean up removes the record in a step of its own, and that routes go with their bridge, because `changed` is about both; `AppliedIsInPlace` needs
  `OneRecordPerAddress`, because a route belongs to an address and not to an instance. `RoutesStay` and `ProxiesGoFirst` are the action
  properties; the second needs `ProxyInv`, which carries the removal of the entry over the phases to the removal of the record. `NetworkImplementsPool` needs that what is in use has a record, and that
  in the phases that set something up the record is the address wanted.
* `HostRules_proofs`: `RulesInv` says which rules an operation may still find in each phase (`ListedInv`, for those that have had no fault), that doomed rules
  are never listed ones of another, and that no two instances have the same address. `TurnInv` is about an instance none of whose listed ports was given another target: its rules are for its present
  address, and its DNAT rules are the listed ones. The properties are about the last operation of an instance only (`sound`), whatever has failed before. `ListedIsForwarded` follows from
  the two invariants; `ForwardsAreOwn` from both and the addresses: a rule for an address of another is not for the instance's own. `RemovalsFollowTags` and `RulesStayApart` mark out finding 3.

* `DiskQuota_proofs`: `DiskInv` says what an operation has checked in each phase (a pool is there and keeps to the quota, a resize has compared the sizes), that the
  profile never has more than the master knows (`MasterInv`), and that this is within the instance's pool where the root is on it, also while the pool still waits for its guest (`RoomInv`).
  `PoolHoldsQuota` alone is not inductive: a pool without a guest could be too small for the next one. `DisksKeepTheirSize` is the action property, from `MasterInv`.

Only model-checked: the liveness properties (`LeaseReleased`, `PassEnds`, `OverQuotaIsCut`, `BelowQuotaIsRestored`, `LeftoverIsCleaned`, `RulesHeal`), because fairness and
ENABLED are out of the prover's reach. Only proved, and in no run: the type invariants (`TypeCorrect`) of all modules, `QemuGuestsClaimed` (which `ImplementsPool` implies), `GuestsDiffer`, `StaleEntriesUnused`, `RemovedByTag`, `IncusReinstallIsFresh`, what follows
from `AddressPool` alone, and the inductive invariants other than `LeaseInv`. TLC has agreed to those of the components on the instances of the runs. The properties of the findings are false, so only TLC has anything to say of them.

## Abstractions

* Commands are atomic and succeed or fail; a command that takes effect and reports an error is one that succeeds, followed by a failure.
* `net-update` of libvirt, names and profiles of Incus and libvirt are modelled from how the code uses them. An Incus device of the
  instance overrides that of its profile; a profile in use cannot be deleted; a rename never overwrites.
* The subnet of a bridge does not change. Nonces and stage ids are unique. `os.RemoveAll` of a directory is one step.
* Whether a guest runs is left out of `InstanceStorage`: a request that requires a stopped guest and finds it running is refused, as one that fails at
  its first step. So are the contents of an archive, and snapshots but for their owner.
* `DedicatedNetwork`: which uplink and mode a request results in is open, because `resolveDedicated` may find either on the host; routes of others do not change; a check that finds an address
  on the host itself is one of the refusals; `LeftoverIsCleaned` follows the record, so it does not see what a change of mode has left. `NatAllocation`: what happens under
  `natAllocationMu` is one step, so the interleavings that the mutex excludes are not among those checked. `InstanceStorage`: `CompanionsSurvive` excepts the snapshots of a retained original that
  the next replacement takes. `HostRules`: two instances never have the same address at once; `RulesHeal` says that the last operation has ended without a fault, not that no
  rule is in front of the right one; one protocol; the rules of PREROUTING and OUTPUT are one; the rules inside a chain are not told apart;
  one step stands for the deletions of an operation and one for its additions, since each command names its own rules.
* `DiskQuota`: Incus takes the root device only from a guest that has another, and a pool only where no profile names it; sizes are whole GiB; the pool an
  import asks for is that of the profile; the image, the network devices and the limits of CPU and memory, which the same code sets, are left out.
* Requests are parsed; their authentication and the resolution of a driver are not modelled.

## Not modelled

* VNC sessions: processes found by their command line; the agent keeps nothing of them between two requests. The websocket takes no lease, but it only
  reads the table and copies bytes to a socket that goes away with the guest.
* VPC and host networks: idempotent commands on names of their own. Disk permissions and path checks: checks of single values.
* Registration and heartbeat, authentication, telemetry rates: stateless, or arithmetic on two samples.
* The scripts that run in a guest, and what an archive holds. Taking and restoring a snapshot, and growing the image of a QEMU guest, come next (below): they are
  steps of one operation under its lease, on files that nothing else uses.

## Plan

Done: `OperationLease`, `AddressPool`, `NatAllocation`, `TrafficQuota`, `InstanceStorage`, `DedicatedNetwork`, `HostRules`, `DiskQuota`, each with its proofs. Next:

1. `QemuDisk`: restoring a snapshot (staging, rename, a disk that never shrinks), snapshots that a crash leaves half written and an export includes, and a
   resize that grows the image before it changes the domain.
2. `InstanceLifecycle`: lease, records and storage together, for crashes between the driver call and the ownership file.
3. Proofs: what a restore leaves of a disk; the composition of lease and rules.
