---------------------------- MODULE TrafficQuota ----------------------------
(***************************************************************************)
(* The traffic quota of one instance: the accounting file                  *)
(* traffic_<id>.json (internal/driver/traffic.go), the enforcer that cuts  *)
(* and restores the guest's network (cmd/agent/traffic_enforce.go), and    *)
(* the requests that meet it in the same files, records and links.         *)
(*                                                                         *)
(* Instances share nothing here (file, lock and lease are per id), so one  *)
(* is modelled.  Whoever works on it holds its lease (OperationLease): a   *)
(* request starts only when pc is "idle".  The steps of the enforcer and   *)
(* of a reinstall are separate because the guest transfers data, stops,    *)
(* and the agent crashes, between them.                                    *)
(***************************************************************************)
EXTENDS Integers

CONSTANTS Drivers,          \* of "incus" and "qemu": they cut a network differently
          Quotas,           \* values of Network.TrafficGB; 0 is unlimited
          NoNetwork,        \* original_network is absent
          Corrupt,          \* the accounting file is not valid JSON
          MaxTraffic,       \* bound: units of traffic, one per unit of Quotas
          MaxReinstalls,    \* bound: reinstalls
          MaxCrashes,       \* bound: crashes of the agent
          MaxFaults         \* bound: writes of the accounting file lost, or it damaged

ASSUME DriversAssumption == Drivers \subseteq {"incus", "qemu"}
ASSUME QuotasAssumption == 0 \in Quotas /\ Quotas \subseteq Nat
ASSUME BoundsAssumption ==
    MaxTraffic \in Nat /\ MaxReinstalls \in Nat /\ MaxCrashes \in Nat /\ MaxFaults \in Nat

\* "nat" stands for every mode with a link, "none" for the mode without one.
Networks == [mode : {"nat", "none"}, quota : Quotas]

\* trafficState; a missing file reads as NewState.
States == [used : Nat, last : Nat, quota : Quotas,
           original : Networks \cup {NoNetwork}, disconnected : BOOLEAN]
NewState == [used |-> 0, last |-> 0, quota |-> 0,
             original |-> NoNetwork, disconnected |-> FALSE]

ASSUME MarkersAssumption == NoNetwork \notin Networks /\ Corrupt \notin States

Phases == {"idle",
           "sampled", "cut", "marked", "joined", "unmarked",    \* enforcer
           "removing", "removed", "created", "failed"}          \* reinstall

VARIABLES
    driver,     \* the driver of the instance, which it keeps
    guest,      \* "running" or "stopped"
    link,       \* "up" or "down": the network as the hypervisor has it
    pinned,     \* the instance has a network device of its own, over its profile's
    nic,        \* the hypervisor's byte counter of the guest
    moved,      \* all bytes the guest has ever transferred
    file,       \* traffic_<id>.json
    faults,     \* writes of it that were lost, and damages to it, so far
    owned,      \* the network in the ownership file, written by the create
    stored,     \* the network in the in-memory record
    pc,         \* the step of the operation that holds the lease
    sample,     \* TrafficUsedBytes and TrafficQuotaExceeded of its Metrics
    snapshot,   \* the accounting state a reinstall has kept
    pending,    \* the network the operation stores at its end
    reinstalls, \* reinstalls so far
    crashes     \* crashes so far

runtime == <<driver, guest, link, pinned, nic, moved>>
disk == <<file, faults>>
records == <<disk, owned, stored>>
control == <<pc, sample, snapshot, pending, reinstalls, crashes>>
vars == <<runtime, records, control>>

NoSample == [used |-> 0, exceeded |-> FALSE]

TypeOK ==
    /\ driver \in Drivers
    /\ guest \in {"running", "stopped"}
    /\ link \in {"up", "down"}
    /\ nic \in Nat /\ moved \in 0..MaxTraffic
    /\ pinned \in BOOLEAN
    /\ file \in States \cup {Corrupt}
    /\ owned \in Networks /\ stored \in Networks /\ pending \in Networks
    /\ pc \in Phases
    /\ sample \in [used : Nat, exceeded : BOOLEAN]
    /\ snapshot \in States
    /\ reinstalls \in 0..MaxReinstalls /\ crashes \in 0..MaxCrashes
    /\ faults \in 0..MaxFaults

\* A guest that has just been created with a network, and its quota.
Init ==
    /\ driver \in Drivers
    /\ guest = "running" /\ link = "up" /\ pinned = FALSE
    /\ nic = 0 /\ moved = 0
    /\ file = NewState /\ faults = 0
    /\ owned \in {n \in Networks : n.mode = "nat"}
    /\ stored = owned /\ pending = owned
    /\ pc = "idle" /\ sample = NoSample /\ snapshot = NewState
    /\ reinstalls = 0 /\ crashes = 0

-----------------------------------------------------------------------------
(* Accounting.                                                             *)

\* Fault: every sample is taken for new traffic.
DeltaOfSample(last, current) == current

\* AccumulateTrafficUsage: a counter below the last sample has been reset, and
\* all it shows is new.
Delta(last, current) == IF current >= last THEN current - last ELSE current

\* Fault: off by one at the quota.
TrafficQuotaNear(used, quota) == quota > 0 /\ used + 1 >= quota

TrafficQuotaExceeded(used, quota) == quota > 0 /\ used >= quota

\* A write of the file is lost, or the file is damaged.
Fault == faults < MaxFaults /\ faults' = faults + 1

\* saveTrafficState reports no error: a failed write leaves the old file.
Save(state) ==
    \/ file' = state /\ UNCHANGED faults
    \/ Fault /\ UNCHANGED file

\* loadTrafficState: a file that cannot be parsed reads as a new one.
Loaded == IF file = Corrupt THEN NewState ELSE file

\* observeTraffic: what it returns, and what it leaves in the file.  A corrupt
\* file is left alone, and then nothing is exceeded.
Observed(quota) ==
    IF file = Corrupt THEN NoSample
    ELSE LET used == file.used + Delta(file.last, nic)
         IN  [used |-> used, exceeded |-> TrafficQuotaExceeded(used, quota)]

Accumulate(quota) ==
    \/ /\ file # Corrupt
       /\ file' = [file EXCEPT !.used = @ + Delta(file.last, nic),
                              !.last = nic, !.quota = quota]
       /\ UNCHANGED faults
    \/ file = Corrupt /\ UNCHANGED disk
    \/ file # Corrupt /\ Fault /\ UNCHANGED file

-----------------------------------------------------------------------------
(* The guest and its hypervisor.                                           *)

Transfer ==
    /\ guest = "running" /\ link = "up" /\ moved < MaxTraffic
    /\ nic' = nic + 1 /\ moved' = moved + 1
    /\ UNCHANGED <<driver, guest, link, pinned, records, control>>

\* The counter belongs to the interface of the running guest: it starts again
\* with a new one, which a reboot of a QEMU guest does not give.
CounterReset == nic' = 0
CounterKept == UNCHANGED nic
RebootGuest ==
    IF guest = "running" /\ driver = "incus" THEN CounterReset ELSE CounterKept

\* The guest reboots or shuts down by itself.
GuestRestarts ==
    /\ guest = "running"
    /\ \/ guest' = "stopped" /\ CounterReset
       \/ guest' = guest /\ RebootGuest
    /\ UNCHANGED <<driver, link, pinned, moved, records, control>>

\* The file is damaged by something other than the agent.
Damage ==
    /\ file # Corrupt /\ Fault /\ file' = Corrupt
    /\ UNCHANGED <<runtime, owned, stored, control>>

\* Incus changes the device of the profile, which a device of the instance's own
\* hides.  QEMU sets the links of a running guest only and ignores its errors.
SetLink(state) ==
    \/ driver = "incus" /\ link' = IF pinned THEN link ELSE state
    \/ driver = "qemu" /\ guest = "running" /\ link' = state
    \/ driver = "qemu" /\ UNCHANGED link

\* ConfigureNetwork of mode none cuts the link; of any other mode it restores it
\* and restarts a running guest.  Both may fail after having set the link; Incus
\* takes the device away first, so a join that fails may leave no link at all.
CutLink == SetLink("down") /\ CounterKept
JoinLink == SetLink("up") /\ RebootGuest
CutLinkFails == driver = "incus" /\ (SetLink("down") \/ UNCHANGED link) /\ CounterKept
JoinLinkFails ==
    /\ \/ SetLink("up") \/ UNCHANGED link
       \/ driver = "incus" /\ SetLink("down")
    /\ CounterKept

-----------------------------------------------------------------------------
(* Requests: each runs under the lease, and has no step the others wait for. *)

\* The metrics request samples with the quota of its payload.
Metrics ==
    /\ pc = "idle"
    /\ \E q \in Quotas : Accumulate(q)
    /\ UNCHANGED <<driver, guest, link, pinned, nic, moved, owned, stored, control>>

\* Status, network, firewall and mapping requests store the network the master
\* has sent; they leave the link as it is.
StoreNetwork ==
    /\ pc = "idle"
    /\ stored' \in Networks
    /\ UNCHANGED <<runtime, disk, owned, control>>

\* So does a resize of a stopped guest; with a network in its payload, Incus
\* copies the device of the profile to the instance.
ResizeGuest ==
    /\ pc = "idle" /\ guest = "stopped"
    /\ stored' \in Networks
    /\ pinned' \in {pinned, driver = "incus"}
    /\ UNCHANGED <<driver, guest, link, nic, moved, disk, owned, control>>

\* So does a power request, which starts, stops or restarts the guest.
Power ==
    /\ pc = "idle"
    /\ \/ guest' \in {"running", "stopped"} /\ CounterReset
       \/ UNCHANGED guest /\ CounterKept
    /\ stored' \in Networks
    /\ UNCHANGED <<driver, link, pinned, moved, disk, owned, control>>

\* A configure request changes the link; it stores the network unless this, or one
\* of the steps after it, fails.
Configure ==
    /\ pc = "idle"
    /\ \E n \in Networks :
        \/ n.mode = "none" /\ CutLink /\ stored' \in {n, stored}
        \/ n.mode = "none" /\ CutLinkFails /\ UNCHANGED stored
        \/ n.mode # "none" /\ JoinLink /\ stored' \in {n, stored}
        \/ n.mode # "none" /\ JoinLinkFails /\ UNCHANGED stored
    /\ UNCHANGED <<driver, guest, pinned, moved, disk, owned, control>>

-----------------------------------------------------------------------------
(* The enforcer: enforceInstanceQuota, one pass over the instance.         *)

\* The operation ends and gives its lease back.
Done ==
    /\ pc' = "idle" /\ sample' = NoSample /\ snapshot' = NewState /\ pending' = owned
    /\ UNCHANGED <<reinstalls, crashes>>

Continue(p) == pc' = p /\ UNCHANGED <<snapshot, reinstalls, crashes>>

\* Faults: an instance without a quota, or one with a network, is never looked at.
WatchedWithQuota == stored.quota > 0
WatchedWithoutNetwork == stored.mode = "none"

\* Only an instance with a quota, or one that has been cut off, is looked at.
Watched == stored.quota > 0 \/ stored.mode = "none"

Sample ==
    /\ pc = "idle" /\ Watched
    /\ sample' = Observed(stored.quota)
    /\ Accumulate(stored.quota)
    /\ Continue("sampled")
    /\ UNCHANGED <<driver, guest, link, pinned, nic, moved, owned, stored, pending>>

Larger(a, b) == IF a > b THEN a ELSE b

\* The quota the pass works with: the record's, the file's or the original's.
EffectiveQuota ==
    LET q == Larger(stored.quota, Loaded.quota) IN
    IF q = 0 /\ Loaded.original # NoNetwork THEN Loaded.original.quota ELSE q

\* Fault: a guest without a network is cut off, too.
MustCutAny == sample.exceeded /\ ~Loaded.disconnected

MustCut == sample.exceeded /\ stored.mode # "none" /\ ~Loaded.disconnected
MustUnmark == ~sample.exceeded /\ Loaded.disconnected
MustJoin == MustUnmark /\ Loaded.original # NoNetwork /\ stored.mode = "none"

NothingToDo ==
    /\ pc = "sampled" /\ ~MustCut /\ ~MustUnmark
    /\ Done
    /\ UNCHANGED <<runtime, records>>

Cut ==
    /\ pc = "sampled" /\ MustCut
    /\ CutLink
    /\ Continue("cut")
    /\ UNCHANGED <<driver, guest, pinned, moved, records, sample, pending>>

\* An error of the driver ends the pass; QEMU reports none.
CutFails ==
    /\ pc = "sampled" /\ MustCut
    /\ CutLinkFails
    /\ Done
    /\ UNCHANGED <<driver, guest, pinned, moved, records>>

MarkDisconnected ==
    /\ pc = "cut"
    /\ Save([Loaded EXCEPT !.original = IF @ = NoNetwork THEN stored ELSE @,
                           !.disconnected = TRUE,
                           !.used = sample.used,
                           !.quota = EffectiveQuota])
    /\ Continue("marked")
    /\ UNCHANGED <<runtime, owned, stored, sample, pending>>

StoreDisconnected ==
    /\ pc = "marked"
    /\ stored' = [stored EXCEPT !.mode = "none"]
    /\ Done
    /\ UNCHANGED <<runtime, disk, owned>>

Join ==
    /\ pc = "sampled" /\ MustJoin
    /\ JoinLink
    /\ pending' = [Loaded.original EXCEPT !.quota = Larger(@, EffectiveQuota)]
    /\ Continue("joined")
    /\ UNCHANGED <<driver, guest, pinned, moved, records, sample>>

JoinFailed ==
    /\ pc = "sampled" /\ MustJoin
    /\ JoinLinkFails
    /\ Done
    /\ UNCHANGED <<driver, guest, pinned, moved, records>>

Unmarked == Save([Loaded EXCEPT !.original = NoNetwork, !.disconnected = FALSE])

MarkReconnected ==
    /\ pc = "joined"
    /\ Unmarked
    /\ Continue("unmarked")
    /\ UNCHANGED <<runtime, owned, stored, sample, pending>>

StoreReconnected ==
    /\ pc = "unmarked"
    /\ stored' = pending
    /\ Done
    /\ UNCHANGED <<runtime, disk, owned>>

\* The record says that the network is on already: only the mark is cleared.
MarkOnly ==
    /\ pc = "sampled" /\ MustUnmark /\ ~MustJoin
    /\ Unmarked
    /\ Done
    /\ UNCHANGED <<runtime, owned, stored>>

-----------------------------------------------------------------------------
(* Reinstall: the accounting state is kept across Delete and Create.       *)

BeginReinstall ==
    /\ pc = "idle" /\ reinstalls < MaxReinstalls
    /\ reinstalls' = reinstalls + 1
    /\ snapshot' = Loaded
    /\ pc' = "removing"
    /\ pending' \in Networks
    /\ UNCHANGED <<runtime, records, sample, crashes>>

\* Delete stops the guest and removes the file, before its last steps.
StopGuest == guest' = "stopped" /\ CounterReset /\ UNCHANGED <<driver, link, pinned, moved>>

DeleteGuest ==
    /\ pc = "removing"
    /\ StopGuest
    /\ Save(NewState)
    /\ Continue("removed")
    /\ UNCHANGED <<owned, stored, sample, pending>>

\* An error of Delete ends the reinstall, before or after it removed the file.
DeleteFails ==
    /\ pc \in {"removing", "removed"}
    /\ StopGuest \/ UNCHANGED runtime
    /\ Done
    /\ UNCHANGED records

\* Create gives the new guest a new interface; whether it succeeds or fails, the
\* accounting state is restored, and success is stored.
CreateGuest ==
    /\ pc = "removed"
    /\ \/ /\ guest' \in {"running", "stopped"}
          /\ link' = IF pending.mode = "none" THEN "down" ELSE "up"
          /\ pinned' = FALSE
          /\ Continue("created")
       \/ UNCHANGED <<guest, link, pinned>> /\ Continue("failed")
    /\ UNCHANGED <<driver, nic, moved, records, sample, pending>>

RestoreUsage ==
    /\ pc \in {"created", "failed"}
    /\ IF snapshot = NewState THEN UNCHANGED disk ELSE Save(snapshot)
    /\ stored' = IF pc = "created" THEN pending ELSE stored
    /\ Done
    /\ UNCHANGED <<runtime, owned>>

-----------------------------------------------------------------------------
\* The agent dies and reloads the record from the ownership file.
Crash ==
    /\ crashes < MaxCrashes
    /\ crashes' = crashes + 1
    /\ stored' = owned
    /\ pc' = "idle" /\ sample' = NoSample /\ snapshot' = NewState /\ pending' = owned
    /\ UNCHANGED <<runtime, disk, owned, reinstalls>>

RequestStep == Metrics \/ StoreNetwork \/ ResizeGuest \/ Power \/ Configure
PassStep ==
    \/ NothingToDo \/ Cut \/ CutFails \/ MarkDisconnected \/ StoreDisconnected
    \/ Join \/ JoinFailed \/ MarkReconnected \/ StoreReconnected \/ MarkOnly
ReinstallStep == DeleteGuest \/ DeleteFails \/ CreateGuest \/ RestoreUsage

Next ==
    \/ Transfer \/ GuestRestarts \/ Damage
    \/ RequestStep
    \/ Sample \/ PassStep
    \/ BeginReinstall \/ ReinstallStep
    \/ Crash

Spec == Init /\ [][Next]_vars

\* An operation that has begun goes on.  The ticker starts a pass every minute and
\* skips an instance that is busy just then, which does not happen forever; nor
\* does the driver fail forever to cut or to restore the network.
Fairness ==
    /\ WF_vars(PassStep) /\ WF_vars(ReinstallStep)
    /\ SF_vars(Sample) /\ SF_vars(Cut) /\ SF_vars(Join)

FairSpec == Spec /\ Fairness

-----------------------------------------------------------------------------
(* Properties.                                                             *)

\* A guest is never charged for more than it has transferred, whatever resets, crashes,
\* reinstalls and samples with other quotas come between; each fault of the file, whose
\* writes saveTrafficState drops the errors of, adds what it has transferred once more.
AllowedCharge == (faults + 1) * moved
NeverOvercharged == file # Corrupt => file.used <= AllowedCharge

\* A pass of the enforcer takes the network of a guest down only when the guest, by that
\* reckoning, has used up the quota of its record.  On Incus there is one exception: the
\* restore of a guest marked as cut off, but online by then, that fails half-way.
CutOnlyOverQuota ==
    [][(pc = "sampled" /\ link = "up" /\ link' = "down")
       => \/ stored.quota > 0 /\ AllowedCharge >= stored.quota
          \/ driver = "incus" /\ stored.mode = "none" /\ Loaded.disconnected]_vars

\* Whoever is marked as cut off has a network to go back to, so that the enforcer
\* never restores "no network" or finds nothing to restore.
DisconnectedHasWayBack ==
    file # Corrupt /\ file.disconnected =>
        file.original # NoNetwork /\ file.original.mode # "none"

\* A running guest that has used up its quota does not stay online: it is cut off,
\* or marked as cut off, or the master changes its quota or mode.
OverQuotaIsCut ==
    []<>~( /\ file # Corrupt /\ ~file.disconnected
           /\ stored.mode # "none" /\ link = "up"
           /\ TrafficQuotaExceeded(file.used, stored.quota) )

\* A guest the enforcer has cut off does not stay offline once its record has a
\* quota it has not used up, or none.
BelowQuotaIsRestored ==
    []<>~( /\ file # Corrupt /\ file.disconnected
           /\ stored.mode = "none" /\ link = "down"
           /\ ~TrafficQuotaExceeded(file.used + Delta(file.last, nic), stored.quota) )
=============================================================================
