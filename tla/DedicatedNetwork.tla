-------------------------- MODULE DedicatedNetwork --------------------------
(***************************************************************************)
(* The host side of dedicated networks (internal/driver/dedicated*.go):    *)
(* instances that have an IPv4 address of their own.  A record on the disk *)
(* reserves the address and says what to remove; a chain in the raw table  *)
(* drops what the guest sends under another address; a chain in FORWARD    *)
(* holds its firewall; a routed QEMU guest has a bridge of its own, a      *)
(* route and a proxy ARP entry on the uplink beside.  What else a bridged  *)
(* guest, or an Incus guest, needs belongs to others.                      *)
(*                                                                         *)
(* The operations of one instance exclude each other (OperationLease);     *)
(* those of different instances share dedicatedResourcesMu, which QEMU     *)
(* holds from the checks to the last command and Incus for the record      *)
(* only.  Every command may fail, the agent may crash and the host reboot  *)
(* between two of them.  Every request may bring another address, uplink   *)
(* and mode (which "auto" takes from the host), and replaces those in the  *)
(* record.                                                                 *)
(***************************************************************************)
EXTENDS Integers

CONSTANTS QemuInstances, IncusInstances,
          Uplinks,      \* interfaces that QEMU guests may be routed by
          Bridged,      \* stands for a link that is not the agent's to make
          Addresses,    \* what the master assigns
          Elsewhere,    \* those the administrator may have routed elsewhere
          MaxFaults,    \* bound: failed commands, crashes and reboots, in all
          Foreign,      \* stands for a route that is not the agent's
          None

Instances == QemuInstances \cup IncusInstances

ASSUME InstancesAssumption == QemuInstances \cap IncusInstances = {}
ASSUME ElsewhereAssumption == Elsewhere \subseteq Addresses
ASSUME FaultsAssumption == MaxFaults \in Nat
ASSUME ForeignAssumption == Foreign \notin Instances
ASSUME BridgedAssumption == Bridged \notin Uplinks
ASSUME NoneAssumption == None \notin Instances \cup Addresses \cup {Foreign} \cup Uplinks

\* What an operation does after ensure or cleanup; "keep" leaves the guest as it is.
Jobs == {"none", "create", "start", "keep", "restart", "delete", "reinstall"}
Ensuring == {"recorded", "protected", "added", "linked", "routed"}
Cleaning == {"unrouted", "unproxied", "unlinked", "unprotected"}
Phases == {"idle", "ensure", "ensured", "clean", "cleaned", "undefined"}
              \cup Ensuring \cup Cleaning

VARIABLES
    guest,      \* guest[i]: "none", "stopped", "running", or "removed", but still owned
    record,     \* record[i]: the address in network/<id>.json
    way,        \* way[i]: the mode in it, and the uplink if that is "routed"
    applied,    \* history: the address whose ensure has completed, until it is undone
    changed,    \* history: since it has a bridge, i has been recorded as bridged
    spoof,      \* spoof[i]: the address the chain VIRTIS-AS-<id> lets pass
    bridge,     \* bridge[i]: "absent", "bare" (without the owner's alias) or "owned"
    route,      \* route[a]: the instance to whose bridge the host routes a
    proxy,      \* the addresses for which an uplink answers ARP requests
    faults,     \* the faults so far
    job, phase, \* the operation that holds the lease of i, and how far it is
    wanted      \* the address it asks for

saved   == <<record, way>>
history == <<applied, changed>>
host    == <<spoof, bridge, route, proxy>>
control == <<job, phase, wanted>>
vars    == <<guest, saved, history, host, faults, control>>

TypeOK ==
    /\ guest \in [Instances -> {"none", "stopped", "running", "removed"}]
    /\ record \in [Instances -> Addresses \cup {None}]
    /\ way \in [Instances -> Uplinks \cup {Bridged, None}]
    /\ applied \in [Instances -> Addresses \cup {None}]
    /\ changed \in [Instances -> BOOLEAN]
    /\ spoof \in [Instances -> Addresses \cup {None}]
    /\ bridge \in [Instances -> {"absent", "bare", "owned"}]
    /\ route \in [Addresses -> Instances \cup {Foreign, None}]
    /\ proxy \subseteq Addresses \X Uplinks
    /\ faults \in 0..MaxFaults
    /\ job \in [Instances -> Jobs]
    /\ phase \in [Instances -> Phases]
    /\ wanted \in [Instances -> Addresses \cup {None}]

\* Routes of others exist from the start, and stay.
Init ==
    /\ guest = [i \in Instances |-> "none"]
    /\ record = [i \in Instances |-> None]
    /\ way = [i \in Instances |-> None]
    /\ applied = [i \in Instances |-> None]
    /\ changed = [i \in Instances |-> FALSE]
    /\ spoof = [i \in Instances |-> None]
    /\ bridge = [i \in Instances |-> "absent"]
    /\ route \in [Addresses -> {Foreign, None}]
    /\ \A a \in Addresses \ Elsewhere : route[a] = None
    /\ proxy = {}
    /\ faults = 0
    /\ job = [i \in Instances |-> "none"]
    /\ phase = [i \in Instances |-> "idle"]
    /\ wanted = [i \in Instances |-> None]

-----------------------------------------------------------------------------
(* Control: how an operation begins, goes on and ends.                     *)

Begin(i, j, a, p) ==
    /\ phase[i] = "idle"
    /\ job' = [job EXCEPT ![i] = j]
    /\ wanted' = [wanted EXCEPT ![i] = a]
    /\ phase' = [phase EXCEPT ![i] = p]

Exists(i) == guest[i] \in {"stopped", "running"}

Continue(i, p) == phase' = [phase EXCEPT ![i] = p] /\ UNCHANGED <<job, wanted>>

Finish(i) ==
    /\ phase' = [phase EXCEPT ![i] = "idle"]
    /\ job' = [job EXCEPT ![i] = "none"]
    /\ wanted' = [wanted EXCEPT ![i] = None]

\* dedicatedResourcesMu.
Holds(i) == phase[i] \in Cleaning \/ (i \in QemuInstances /\ phase[i] \in Ensuring)
MutexFree == \A i \in Instances : ~Holds(i)

-----------------------------------------------------------------------------
(* ensureQEMUDedicated and Incus.ensureDedicatedProtection.                *)

\* Mutant: every driver keeps records of its own.
ReservedWithinDriver(i, a) ==
    \E j \in (IF i \in QemuInstances THEN QemuInstances ELSE IncusInstances) \ {i} :
        record[j] = a

\* saveDedicatedRecord reads the records of all.
Reserved(i, a) == \E j \in Instances \ {i} : record[j] = a

\* Mutant: ip route replace takes the route from whoever has it.
AdmissibleRouted(i, a, w) == w \in Uplinks => bridge[i] # "bare"

\* A routed guest needs an address without a foreign route, and its bridge must not
\* be a link without the owner's alias.
Admissible(i, a, w) ==
    w \in Uplinks => route[a] \in {None, i} /\ bridge[i] # "bare"

\* resolveDedicated, as far as it matters: Incus makes the link of either mode itself.
Ways(i) == {Bridged} \cup (IF i \in QemuInstances THEN Uplinks ELSE {})

\* The checks and the record, which is replaced whole.  Nobody else changes what is
\* checked while the mutex is held, so they are one step.
Save(i, w) ==
    /\ phase[i] = "ensure" /\ MutexFree
    /\ Admissible(i, wanted[i], w) /\ ~Reserved(i, wanted[i])
    /\ record' = [record EXCEPT ![i] = wanted[i]]
    /\ way' = [way EXCEPT ![i] = w]
    /\ applied' = [applied EXCEPT ![i] = None]
    /\ changed' = [changed EXCEPT ![i] = @ \/ (w = Bridged /\ bridge[i] # "absent")]
    /\ Continue(i, "recorded")
    /\ UNCHANGED <<guest, host, faults>>

\* ... or one of them refuses, and the operation fails.
Refuse(i, w) ==
    /\ phase[i] = "ensure" /\ MutexFree
    /\ ~Admissible(i, wanted[i], w) \/ Reserved(i, wanted[i])
    /\ Finish(i)
    /\ UNCHANGED <<guest, saved, history, host, faults>>

Routed(i) == way[i] \in Uplinks

\* What is left to do once the chain is there: nothing, unless the guest is routed.
Protected(i) ==
    \/ Routed(i) /\ Continue(i, "protected") /\ UNCHANGED applied
    \/ /\ ~Routed(i)
       /\ applied' = [applied EXCEPT ![i] = wanted[i]]
       /\ Continue(i, "ensured")

\* Mutant: a chain that is there already is left as it is.
ProtectOnce(i) ==
    /\ phase[i] = "recorded"
    /\ spoof' = [spoof EXCEPT ![i] = IF @ = None THEN wanted[i] ELSE @]
    /\ Protected(i)
    /\ UNCHANGED <<guest, saved, changed, bridge, route, proxy, faults>>

\* applyDedicatedProtection; the firewall it applies next is modelled in HostRules.
Protect(i) ==
    /\ phase[i] = "recorded"
    /\ spoof' = [spoof EXCEPT ![i] = wanted[i]]
    /\ Protected(i)
    /\ UNCHANGED <<guest, saved, changed, bridge, route, proxy, faults>>

\* A new bridge gets its alias with a command of its own.
AddBridge(i) ==
    /\ phase[i] = "protected" /\ bridge[i] = "absent"
    /\ bridge' = [bridge EXCEPT ![i] = "bare"]
    /\ Continue(i, "added")
    /\ UNCHANGED <<guest, saved, history, spoof, route, proxy, faults>>

NameBridge(i) ==
    /\ phase[i] = "added"
    /\ bridge' = [bridge EXCEPT ![i] = "owned"]
    /\ Continue(i, "linked")
    /\ UNCHANGED <<guest, saved, history, spoof, route, proxy, faults>>

\* The bridge gets the gateway's address and comes up, and the route is set.
AddRoute(i) ==
    /\ phase[i] = "linked" \/ (phase[i] = "protected" /\ bridge[i] # "absent")
    /\ route' = [route EXCEPT ![wanted[i]] = i]
    /\ Continue(i, "routed")
    /\ UNCHANGED <<guest, saved, history, spoof, bridge, proxy, faults>>

AddProxy(i) ==
    /\ phase[i] = "routed"
    /\ proxy' = proxy \cup {<<wanted[i], way[i]>>}
    /\ applied' = [applied EXCEPT ![i] = wanted[i]]
    /\ Continue(i, "ensured")
    /\ UNCHANGED <<guest, saved, changed, spoof, bridge, route, faults>>

-----------------------------------------------------------------------------
(* cleanupDedicated, which goes by the record.                             *)

\* Without a record there is nothing to do.
NothingToClean(i) ==
    /\ phase[i] = "clean" /\ MutexFree
    /\ record[i] = None
    /\ Continue(i, "cleaned")
    /\ UNCHANGED <<guest, saved, history, host, faults>>

\* A bridge without the owner's alias is refused.
RefuseCleanup(i) ==
    /\ phase[i] = "clean" /\ MutexFree
    /\ record[i] # None /\ Routed(i) /\ bridge[i] = "bare"
    /\ Finish(i)
    /\ UNCHANGED <<guest, saved, history, host, faults>>

\* The route is deleted with its device, so a foreign one would stay.
DeleteRoute(i) ==
    /\ phase[i] = "clean" /\ MutexFree
    /\ record[i] # None /\ Routed(i) /\ bridge[i] # "bare"
    /\ route' = [route EXCEPT ![record[i]] = IF @ = i THEN None ELSE @]
    /\ applied' = [applied EXCEPT ![i] = None]
    /\ Continue(i, "unrouted")
    /\ UNCHANGED <<guest, saved, changed, spoof, bridge, proxy, faults>>

DeleteProxy(i) ==
    /\ phase[i] = "unrouted"
    /\ proxy' = proxy \ {<<record[i], way[i]>>}
    /\ Continue(i, "unproxied")
    /\ UNCHANGED <<guest, saved, history, spoof, bridge, route, faults>>

\* The kernel drops the routes of a link that goes away.
WithoutRoutesOf(i) == [a \in Addresses |-> IF route[a] = i THEN None ELSE route[a]]

DeleteBridge(i) ==
    /\ phase[i] = "unproxied"
    /\ bridge' = [bridge EXCEPT ![i] = "absent"]
    /\ route' = WithoutRoutesOf(i)
    /\ changed' = [changed EXCEPT ![i] = FALSE]
    /\ Continue(i, "unlinked")
    /\ UNCHANGED <<guest, saved, applied, spoof, proxy, faults>>

\* clearDedicatedProtection; the first step for a guest that is not recorded as routed,
\* whatever there is of an earlier mode.
Unprotect(i) ==
    /\ \/ phase[i] = "unlinked"
       \/ phase[i] = "clean" /\ MutexFree /\ record[i] # None /\ ~Routed(i)
    /\ spoof' = [spoof EXCEPT ![i] = None]
    /\ applied' = [applied EXCEPT ![i] = None]
    /\ Continue(i, "unprotected")
    /\ UNCHANGED <<guest, saved, changed, bridge, route, proxy, faults>>

\* Mutant: the record goes as soon as the route has gone.
ForgetEarly(i) ==
    /\ phase[i] \in {"unrouted", "unprotected"}
    /\ record' = [record EXCEPT ![i] = None]
    /\ way' = [way EXCEPT ![i] = None]
    /\ Continue(i, "cleaned")
    /\ UNCHANGED <<guest, history, host, faults>>

\* The record goes last.
Forget(i) ==
    /\ phase[i] = "unprotected"
    /\ record' = [record EXCEPT ![i] = None]
    /\ way' = [way EXCEPT ![i] = None]
    /\ Continue(i, "cleaned")
    /\ UNCHANGED <<guest, history, host, faults>>

-----------------------------------------------------------------------------
(* The operations of the drivers, and what the handlers add.               *)

\* QEMU's Create ensures the network before it defines the domain; Incus launches the
\* guest, and leaves protection to the next start or status request.
BeginCreate(i, a) ==
    /\ guest[i] = "none"
    /\ i \in QemuInstances
    /\ Begin(i, "create", a, "ensure")
    /\ UNCHANGED <<guest, saved, history, host, faults>>

Launch(i) ==
    /\ guest[i] = "none"
    /\ i \in IncusInstances
    /\ phase[i] = "idle"
    /\ guest' = [guest EXCEPT ![i] = "running"]
    /\ UNCHANGED <<saved, history, host, faults, control>>

BeginStart(i, a) ==
    /\ Exists(i)
    /\ Begin(i, "start", a, "ensure")
    /\ UNCHANGED <<guest, saved, history, host, faults>>

\* Mutant: a guest that ignores the request is cleaned up all the same.
BeginStopUnchecked(i) ==
    /\ Exists(i)
    /\ guest' \in {guest, [guest EXCEPT ![i] = "stopped"]}
    /\ Begin(i, "keep", None, "clean")
    /\ UNCHANGED <<saved, history, host, faults>>

\* Stop, which QEMU guests may ignore: then everything stays as it is.
BeginStop(i) ==
    /\ Exists(i)
    /\ guest' = [guest EXCEPT ![i] = "stopped"]
    /\ Begin(i, "keep", None, "clean")
    /\ UNCHANGED <<saved, history, host, faults>>

\* HardStop, HardRestart, Delete and Reinstall.  QEMU destroys the guest, and does not
\* mind one that is not there; Incus deletes it before the rest.
BeginHard(i, j, a) ==
    /\ \/ j = "keep"
       \/ j = "restart" /\ Exists(i)
       \/ j \in {"delete", "reinstall"} /\ guest[i] # "none"
    /\ guest' = [guest EXCEPT ![i] =
                     CASE ~Exists(i) -> @
                       [] i \in IncusInstances /\ j \in {"delete", "reinstall"} -> "removed"
                       [] OTHER -> "stopped"]
    /\ Begin(i, j, IF j \in {"restart", "reinstall"} THEN a ELSE None, "clean")
    /\ UNCHANGED <<saved, history, host, faults>>

\* Mutant: a guest that does not run is left alone.
BeginStatusRunning(i, a) ==
    /\ guest[i] = "running" /\ Begin(i, "keep", a, "ensure")
    /\ UNCHANGED <<guest, saved, history, host, faults>>

\* ReconcileNetworkResources of a status request: the network of a running guest is set
\* up again (as by Restart of QEMU, which reboots the guest then; Incus changes nothing),
\* what a stopped guest has left is cleaned up.
BeginStatus(i, a) ==
    /\ \/ guest[i] = "running" /\ Begin(i, "keep", a, "ensure")
       \/ guest[i] = "stopped" /\ Begin(i, "keep", None, "clean")
    /\ UNCHANGED <<guest, saved, history, host, faults>>

\* After ensure: the domain is defined, started, or has been running all the time.
Ensured(i) ==
    /\ phase[i] = "ensured"
    /\ \/ job[i] \in {"create", "reinstall"} /\ guest' = [guest EXCEPT ![i] = "stopped"]
       \/ job[i] \in {"start", "restart"} /\ guest' = [guest EXCEPT ![i] = "running"]
       \/ job[i] = "keep" /\ UNCHANGED guest
    /\ Finish(i)
    /\ UNCHANGED <<saved, history, host, faults>>

\* After the cleanup: Delete undefines the domain, HardRestart starts the guest, and
\* Reinstall creates it again.
Cleaned(i) ==
    /\ phase[i] = "cleaned"
    /\ \/ job[i] = "keep" /\ Finish(i) /\ UNCHANGED guest
       \/ job[i] = "restart" /\ Continue(i, "ensure") /\ UNCHANGED guest
       \/ /\ job[i] = "delete"
          /\ guest' = [guest EXCEPT ![i] = "removed"]
          /\ Continue(i, "undefined")
       \/ /\ job[i] = "reinstall" /\ i \in QemuInstances
          /\ guest' = [guest EXCEPT ![i] = "removed"]
          /\ Continue(i, "ensure")
       \/ /\ job[i] = "reinstall" /\ i \in IncusInstances
          /\ guest' = [guest EXCEPT ![i] = "running"]
          /\ Finish(i)
    /\ UNCHANGED <<saved, history, host, faults>>

\* deleteInstance removes the ownership file at last.
Disown(i) ==
    /\ phase[i] = "undefined"
    /\ guest' = [guest EXCEPT ![i] = "none"]
    /\ Finish(i)
    /\ UNCHANGED <<saved, history, host, faults>>

-----------------------------------------------------------------------------
(* The environment.                                                        *)

\* A guest shuts down by itself.
Halt(i) ==
    /\ guest[i] = "running"
    /\ guest' = [guest EXCEPT ![i] = "stopped"]
    /\ UNCHANGED <<saved, history, host, faults, control>>

\* A command fails, and with it the operation.
Fail(i) ==
    /\ phase[i] # "idle"
    /\ faults < MaxFaults /\ faults' = faults + 1
    /\ Finish(i)
    /\ UNCHANGED <<guest, saved, history, host>>

Idle ==
    /\ job' = [i \in Instances |-> "none"]
    /\ phase' = [i \in Instances |-> "idle"]
    /\ wanted' = [i \in Instances |-> None]

Crash ==
    /\ faults < MaxFaults /\ faults' = faults + 1
    /\ Idle
    /\ UNCHANGED <<guest, saved, history, host>>

\* A reboot of the host leaves the records and the routes of others.
Reboot ==
    /\ faults < MaxFaults /\ faults' = faults + 1
    /\ Idle
    /\ guest' = [i \in Instances |-> IF guest[i] = "running" THEN "stopped" ELSE guest[i]]
    /\ applied' = [i \in Instances |-> None]
    /\ changed' = [i \in Instances |-> FALSE]
    /\ spoof' = [i \in Instances |-> None]
    /\ bridge' = [i \in Instances |-> "absent"]
    /\ route' = [a \in Addresses |-> IF route[a] = Foreign THEN Foreign ELSE None]
    /\ proxy' = {}
    /\ UNCHANGED saved

Request(i) ==
    \/ \E a \in Addresses :
          \/ BeginCreate(i, a) \/ BeginStart(i, a) \/ BeginStatus(i, a)
          \/ \E j \in Jobs : BeginHard(i, j, a)
    \/ Launch(i) \/ BeginStop(i)

Clean(i) == NothingToClean(i) \/ RefuseCleanup(i) \/ DeleteRoute(i) \/ Unprotect(i)

Step(i) ==
    \/ \E w \in Ways(i) : Save(i, w) \/ Refuse(i, w)
    \/ Protect(i) \/ AddBridge(i) \/ NameBridge(i)
    \/ AddRoute(i) \/ AddProxy(i)
    \/ Clean(i) \/ DeleteProxy(i) \/ DeleteBridge(i) \/ Forget(i)
    \/ Ensured(i) \/ Cleaned(i) \/ Disown(i)

Next ==
    \/ \E i \in Instances : Request(i) \/ Step(i) \/ Halt(i) \/ Fail(i)
    \/ Crash \/ Reboot

Spec == Init /\ [][Next]_vars

\* An operation goes on, since commands end and sync.Mutex starves nobody, and status
\* requests, the most frequent of all, find an instance idle now and again.
Fairness ==
    \A i \in Instances :
        SF_vars(Step(i)) /\ SF_vars(\E a \in Addresses : BeginStatus(i, a))

FairSpec == Spec /\ Fairness

-----------------------------------------------------------------------------
(* Properties.                                                             *)

\* saveDedicatedRecord keeps an address for one instance, across its failures, crashes,
\* reboots and moves, and whichever of the drivers asks.
OneRecordPerAddress ==
    \A i, j \in Instances : record[i] # None /\ record[i] = record[j] => i = j

\* Whatever is on the host for an instance can be found by its record, and is what the
\* mode in it says: cleanupDedicated removes the record last, and ensure writes it first.
\* Only when a guest that has a bridge is made a bridged one, bridge and route are out of
\* its records until it is routed again and cleaned up.
ResourcesAreRecorded ==
    \A i \in Instances :
        /\ spoof[i] # None => record[i] # None
        /\ bridge[i] # "absent" \/ (\E a \in Addresses : route[a] = i)
              => changed[i] \/ (record[i] # None /\ Routed(i))

\* What an ensure has set up stays in place until the instance itself is cleaned up or
\* moves: no operation of another instance takes its route, its proxy entry or its chain.
AppliedIsInPlace ==
    \A i \in Instances :
        LET a == applied[i] IN
        a # None =>
            /\ record[i] = a /\ spoof[i] = a
            /\ Routed(i) => bridge[i] = "owned" /\ route[a] = i /\ <<a, way[i]>> \in proxy

\* A QEMU guest never runs without the chain that drops forged addresses: it is there
\* before the guest starts, and removed when the guest has stopped for certain.
RunningIsProtected ==
    \A i \in QemuInstances : guest[i] = "running" => spoof[i] # None /\ record[i] # None

\* checkOwnedRoute: the route of an address is never taken over, not from another
\* instance that has moved away and not from the administrator.
RoutesAreNotTakenOver ==
    [][\A a \in Addresses : route'[a] # route[a] => None \in {route[a], route'[a]}]_vars

\* The record of a routed guest never goes without the proxy entry of its address on its
\* uplink, so that only a request that replaces one of them, or the mode, leaves an entry
\* to nobody.
ProxyGoesWithRecord ==
    [][\A i \in Instances :
          Routed(i) /\ record'[i] = None => <<record[i], way[i]>> \notin proxy']_vars

\* Again and again, a guest that has stopped has left no record: it is cleaned up by a later
\* status request, however often that fails -- unless the bridge is without its alias.
LeftoverIsCleaned ==
    \A i \in Instances :
        []<>(guest[i] = "stopped" => record[i] = None \/ bridge[i] = "bare")

-----------------------------------------------------------------------------
(* The promise: a record is a claim, which may be exchanged for another,   *)
(* and the chain and the routes of an instance are what it makes use of,   *)
(* but for the routes of a bridge it had when it became a bridged one.     *)

InUse == {u \in Instances \X Addresses :
              spoof[u[1]] = u[2] \/ (route[u[2]] = u[1] /\ ~changed[u[1]])}

Pool == INSTANCE AddressPool
    WITH Rivals <- [i \in Instances |-> Instances \ {i}],
         Moves <- TRUE,
         held <- record,
         used <- InUse

\* Both drivers' setting up, moving and cleaning up, in steps that fail and interleave, do
\* with addresses what the pool does: an instance sets up only what it holds, never disturbs
\* what another has set up, and forgets its address when it makes no use of it any more.
ImplementsPool == Pool!Spec
=============================================================================
