--------------------------- MODULE OperationLease ---------------------------
(***************************************************************************)
(* The per-instance operation lease (cmd/agent/operations.go) and every    *)
(* goroutine that works under it: the HTTP handlers of instanceRoute and   *)
(* createInstance, the bootstrap goroutine a create or a reinstall leaves  *)
(* behind, and the traffic enforcer.  A lease is a reference count: the    *)
(* handler holds one reference, the bootstrap goroutine retains another,   *)
(* and whichever is done last deletes the busy entry, in a critical        *)
(* section of its own.                                                     *)
(*                                                                         *)
(* What the lease protects is modelled by its control: the in-memory table *)
(* of instances (each record is one of a few versions), the ownership      *)
(* files that rebuild the table after a restart, and the SSH-ready flags.  *)
(* Driver calls are the time that passes between two steps of a goroutine. *)
(***************************************************************************)
EXTENDS Integers

CONSTANTS Instances,    \* instance ids
          Requests,     \* request goroutines that may run at the same time
          Enforcer,     \* the goroutine of startTrafficEnforcer
          Versions,     \* contents of an instance record
          Absent,       \* no record, no ownership file, no instance to work on
          MaxCrashes    \* bound: crashes of the agent process

ASSUME NobodyAssumption == "nobody" \notin Requests \cup {Enforcer}
ASSUME AbsentAssumption == Absent \notin Versions \cup Instances
ASSUME EnforcerAssumption == Enforcer \notin Requests
ASSUME MaxCrashesAssumption == MaxCrashes \in Nat

Ops == Requests \cup {Enforcer}

\* What an operation does with its instance.  "update" stands for the handlers
\* that store a record (status, power, network, nat, firewall, resize), "read"
\* for those that store none (metrics, export, snapshots, password, vnc).
RequestKinds ==
    {"create", "import", "reinstall", "configure", "update", "read", "delete"}
Kinds == RequestKinds \cup {"enforce", "none"}

HandlerPhases == {"idle", "holding", "working", "persisted", "booting",
                  "unregistered", "stored", "returned"}
BootPhases    == {"none", "starting", "injecting", "network"}
ReadyFlags    == {"unset", "pending", "ready"}
Entries       == Versions \cup {Absent}

VARIABLES
    busy,       \* agentServer.busy: instances with an operation in progress
    refs,       \* refs[o]: operationLease.refs of the lease of o
    target,     \* target[o]: the instance o works on
    kind,       \* kind[o]: what o does
    handler,    \* handler[o]: where the handler goroutine of o is
    boot,       \* boot[o]: where the bootstrap goroutine of o is
    bootId,     \* bootId[o]: the instance that goroutine has captured
    local,      \* local[o]: the record o read before its driver calls
    instances,  \* agentServer.instances
    owned,      \* owned-instances/<id>.json
    bootReady,  \* agentServer.bootReady
    enforcing,  \* agentServer.enforcing
    pass,       \* ids of the enforcer's snapshot it has still to visit
    crashes     \* number of crashes so far

leaseVars == <<busy, refs, target, kind, handler, boot, bootId>>
dataVars  == <<instances, owned, bootReady>>
passVars  == <<enforcing, pass>>
vars == <<leaseVars, local, dataVars, passVars, crashes>>

TypeOK ==
    /\ busy \subseteq Instances
    /\ refs \in [Ops -> 0..2]
    /\ target \in [Ops -> Instances \cup {Absent}]
    /\ kind \in [Ops -> Kinds]
    /\ handler \in [Ops -> HandlerPhases]
    /\ boot \in [Ops -> BootPhases]
    /\ bootId \in [Ops -> Instances \cup {Absent}]
    /\ local \in [Ops -> Entries]
    /\ instances \in [Instances -> Entries]
    /\ owned \in [Instances -> Entries]
    /\ bootReady \in [Instances -> ReadyFlags]
    /\ enforcing \in BOOLEAN
    /\ pass \subseteq Instances
    /\ crashes \in 0..MaxCrashes

\* The agent starts on an empty data directory.
Init ==
    /\ busy = {}
    /\ refs = [o \in Ops |-> 0]
    /\ target = [o \in Ops |-> Absent]
    /\ kind = [o \in Ops |-> "none"]
    /\ handler = [o \in Ops |-> "idle"]
    /\ boot = [o \in Ops |-> "none"]
    /\ bootId = [o \in Ops |-> Absent]
    /\ local = [o \in Ops |-> Absent]
    /\ instances = [i \in Instances |-> Absent]
    /\ owned = [i \in Instances |-> Absent]
    /\ bootReady = [i \in Instances |-> "unset"]
    /\ enforcing = FALSE
    /\ pass = {}
    /\ crashes = 0

-----------------------------------------------------------------------------
(* The lease.                                                              *)

\* Fault: tryOperation without its look at the busy table.
TryBusyOperation(o, i, k) ==
    /\ handler[o] = "idle"
    /\ busy' = busy \cup {i}
    /\ refs' = [refs EXCEPT ![o] = 1]
    /\ target' = [target EXCEPT ![o] = i]
    /\ kind' = [kind EXCEPT ![o] = k]
    /\ handler' = [handler EXCEPT ![o] = "holding"]
    /\ UNCHANGED <<boot, bootId>>

\* tryOperation: a busy instance answers 409 and nothing changes.
TryOperation(o, i, k) ==
    /\ handler[o] = "idle"
    /\ i \notin busy
    /\ busy' = busy \cup {i}
    /\ refs' = [refs EXCEPT ![o] = 1]
    /\ target' = [target EXCEPT ![o] = i]
    /\ kind' = [kind EXCEPT ![o] = k]
    /\ handler' = [handler EXCEPT ![o] = "holding"]
    /\ UNCHANGED <<boot, bootId>>

\* Mutants: the handler does not retain the lease; done() forgets to count.
NotRetained(o)   == o \in Ops /\ UNCHANGED refs
NotDropped(o)    == o \in Ops /\ UNCHANGED refs

Retained(o) == refs' = [refs EXCEPT ![o] = @ + 1]     \* retain
Dropped(o)  == refs' = [refs EXCEPT ![o] = @ - 1]     \* done, without release

\* The deferred done() of the handler goroutine.
HandlerDone(o) ==
    /\ handler[o] = "stored"
    /\ Dropped(o)
    /\ handler' = [handler EXCEPT ![o] = "returned"]
    /\ UNCHANGED <<busy, target, kind, boot, bootId, local, dataVars, passVars,
                   crashes>>

\* Fault: an error after the ownership file is written returns early, too.
ReturnAnywhere(o) ==
    /\ handler[o] \in {"holding", "working", "persisted"}
    /\ Dropped(o)
    /\ handler' = [handler EXCEPT ![o] = "returned"]
    /\ UNCHANGED <<busy, target, kind, boot, bootId, local, dataVars, passVars,
                   crashes>>

\* A handler that stores no record, or returns on an error, is done without
\* having stored anything.  No error return is left once the ownership file is
\* written or removed, or the bootstrap goroutine runs.
HandlerReturn(o) ==
    /\ handler[o] \in {"holding", "working"}
    /\ Dropped(o)
    /\ handler' = [handler EXCEPT ![o] = "returned"]
    /\ UNCHANGED <<busy, target, kind, boot, bootId, local, dataVars, passVars,
                   crashes>>

\* The last reference is gone: whoever dropped it runs release().
Release(o) ==
    /\ handler[o] = "returned" /\ refs[o] = 0
    /\ busy' = busy \ {target[o]}
    /\ handler' = [handler EXCEPT ![o] = "idle"]
    /\ target' = [target EXCEPT ![o] = Absent]
    /\ kind' = [kind EXCEPT ![o] = "none"]
    /\ local' = [local EXCEPT ![o] = Absent]
    /\ UNCHANGED <<refs, boot, bootId, dataVars, passVars, crashes>>

-----------------------------------------------------------------------------
(* The handlers, between their lease and its release.                      *)

\* A request goroutine takes the lease of its instance.
BeginRequest(o, i) ==
    /\ o \in Requests
    /\ \E k \in RequestKinds : TryOperation(o, i, k)
    /\ UNCHANGED <<local, dataVars, passVars, crashes>>

\* Fault: the enforcer trusts the snapshot its pass began with.
AdmittedBySnapshot(o) ==
    LET i == target[o] IN
    /\ kind[o] = "create" => owned[i] = Absent
    /\ kind[o] = "delete" => owned[i] # Absent

\* What a handler requires of the record and of the ownership file: a create
\* finds no owner, a delete finds one, the enforcer finds the record it is about
\* to act on.
Admitted(o) ==
    LET i == target[o] IN
    /\ kind[o] = "create" => owned[i] = Absent
    /\ kind[o] = "delete" => owned[i] # Absent
    /\ kind[o] = "enforce" => instances[i] # Absent

\* The record is read after the lease is taken; the driver calls follow.
Load(o) ==
    /\ handler[o] = "holding"
    /\ Admitted(o)
    /\ handler' = [handler EXCEPT ![o] = "working"]
    /\ local' = [local EXCEPT ![o] = instances[target[o]]]
    /\ UNCHANGED <<busy, refs, target, kind, boot, bootId, dataVars, passVars,
                   crashes>>

\* saveOwnedInstance of a create or of an import; a conflict with the identity of
\* the prior owner is one more error return of the handler.
SaveOwned(o) ==
    /\ handler[o] = "working" /\ kind[o] \in {"create", "import"}
    /\ \E v \in Versions : owned' = [owned EXCEPT ![target[o]] = v]
    /\ handler' = [handler EXCEPT ![o] = "persisted"]
    /\ UNCHANGED <<busy, refs, target, kind, boot, bootId, local, instances,
                   bootReady, passVars, crashes>>

\* The handler retains the lease and starts the bootstrap goroutine; a qemu
\* instance and a create without a password have no password to inject.
StartBoot(o) ==
    /\ boot[o] = "none"
    /\ \/ kind[o] = "create" /\ handler[o] = "persisted"
       \/ kind[o] = "reinstall" /\ handler[o] = "working"
    /\ Retained(o)
    /\ handler' = [handler EXCEPT ![o] = "booting"]
    /\ \/ boot' = [boot EXCEPT ![o] = "starting"]
       \/ kind[o] = "create" /\ boot' = [boot EXCEPT ![o] = "network"]
    /\ bootId' = [bootId EXCEPT ![o] = target[o]]
    /\ UNCHANGED <<busy, target, kind, local, dataVars, passVars, crashes>>

\* storeRecovered of an import resets the SSH-ready flag; when a replacement has
\* failed, the original record is stored and its flag may be kept.
ReadyAfterStore(o) ==
    \/ kind[o] # "import" /\ UNCHANGED bootReady
    \/ kind[o] = "import" /\ bootReady' = [bootReady EXCEPT ![target[o]] = "pending"]
    \/ /\ kind[o] = "import" /\ handler[o] = "working"
       /\ bootReady[target[o]] = "ready" /\ UNCHANGED bootReady

\* instances[id] = instance.
StoreRecord(o) ==
    /\ \/ /\ handler[o] = "working"
          /\ kind[o] \in {"reinstall", "configure", "update", "enforce", "import"}
       \/ handler[o] \in {"persisted", "booting"}
    /\ \E v \in Versions : instances' = [instances EXCEPT ![target[o]] = v]
    /\ ReadyAfterStore(o)
    /\ handler' = [handler EXCEPT ![o] = "stored"]
    /\ UNCHANGED <<busy, refs, target, kind, boot, bootId, local, owned, passVars,
                   crashes>>

\* A delete removes the ownership file, then forgets the instance.
RemoveOwned(o) ==
    /\ handler[o] = "working" /\ kind[o] = "delete"
    /\ owned' = [owned EXCEPT ![target[o]] = Absent]
    /\ handler' = [handler EXCEPT ![o] = "unregistered"]
    /\ UNCHANGED <<busy, refs, target, kind, boot, bootId, local, instances,
                   bootReady, passVars, crashes>>

\* Fault: the flag of the deleted instance stays.
ForgetRecordOnly(o) ==
    /\ handler[o] = "unregistered"
    /\ instances' = [instances EXCEPT ![target[o]] = Absent]
    /\ handler' = [handler EXCEPT ![o] = "stored"]
    /\ UNCHANGED <<busy, refs, target, kind, boot, bootId, local, owned, bootReady,
                   passVars, crashes>>

Forget(o) ==
    /\ handler[o] = "unregistered"
    /\ instances' = [instances EXCEPT ![target[o]] = Absent]
    /\ bootReady' = [bootReady EXCEPT ![target[o]] = "unset"]
    /\ handler' = [handler EXCEPT ![o] = "stored"]
    /\ UNCHANGED <<busy, refs, target, kind, boot, bootId, local, owned, passVars,
                   crashes>>

-----------------------------------------------------------------------------
(* The bootstrap goroutine.                                                *)

BootBegin(o) ==
    /\ boot[o] = "starting"
    /\ boot' = [boot EXCEPT ![o] = "injecting"]
    /\ bootReady' = [bootReady EXCEPT ![bootId[o]] = "pending"]
    /\ UNCHANGED <<busy, refs, target, kind, handler, bootId, local, instances,
                   owned, passVars, crashes>>

\* SetRootPassword returns; the flag is raised only when it succeeded.
BootInjected(o) ==
    /\ boot[o] = "injecting"
    /\ boot' = [boot EXCEPT ![o] = "network"]
    /\ \/ bootReady' = [bootReady EXCEPT ![bootId[o]] = "ready"]
       \/ UNCHANGED bootReady
    /\ UNCHANGED <<busy, refs, target, kind, handler, bootId, local, instances,
                   owned, passVars, crashes>>

\* NAT and firewall are applied (or there is nothing to apply): done().
BootDone(o) ==
    /\ boot[o] = "network"
    /\ Dropped(o)
    /\ boot' = [boot EXCEPT ![o] = "none"]
    /\ bootId' = [bootId EXCEPT ![o] = Absent]
    /\ UNCHANGED <<busy, target, kind, handler, local, dataVars, passVars, crashes>>

-----------------------------------------------------------------------------
(* The traffic enforcer: one pass over a snapshot of the ids.              *)

BeginPass ==
    /\ ~enforcing
    /\ enforcing' = TRUE
    /\ pass' = {i \in Instances : instances[i] # Absent}
    /\ UNCHANGED <<leaseVars, local, dataVars, crashes>>

EnforceInstance(i) ==
    /\ i \in pass
    /\ TryOperation(Enforcer, i, "enforce")
    /\ pass' = pass \ {i}
    /\ UNCHANGED <<local, dataVars, enforcing, crashes>>

\* Fault: the pass waits for an instance that is busy.
WaitForBusy(i) == i \notin Instances /\ UNCHANGED vars

\* A busy instance is skipped until the next pass.
SkipBusy(i) ==
    /\ i \in pass /\ i \in busy /\ handler[Enforcer] = "idle"
    /\ pass' = pass \ {i}
    /\ UNCHANGED <<leaseVars, local, dataVars, enforcing, crashes>>

EndPass ==
    /\ enforcing /\ pass = {} /\ handler[Enforcer] = "idle"
    /\ enforcing' = FALSE
    /\ UNCHANGED <<leaseVars, local, dataVars, pass, crashes>>

-----------------------------------------------------------------------------
(* The process dies and starts again on its data directory.                *)

Crash ==
    /\ crashes < MaxCrashes
    /\ crashes' = crashes + 1
    /\ busy' = {}
    /\ refs' = [o \in Ops |-> 0]
    /\ handler' = [o \in Ops |-> "idle"]
    /\ boot' = [o \in Ops |-> "none"]
    /\ bootId' = [o \in Ops |-> Absent]
    /\ target' = [o \in Ops |-> Absent]
    /\ kind' = [o \in Ops |-> "none"]
    /\ local' = [o \in Ops |-> Absent]
    /\ instances' = owned
    /\ bootReady' = [i \in Instances |-> "unset"]
    /\ enforcing' = FALSE
    /\ pass' = {}
    /\ UNCHANGED owned

-----------------------------------------------------------------------------
HandlerStep(o) ==
    \/ Load(o) \/ SaveOwned(o) \/ StartBoot(o) \/ StoreRecord(o)
    \/ RemoveOwned(o) \/ Forget(o)
    \/ HandlerDone(o) \/ HandlerReturn(o)

BootStep(o) == BootBegin(o) \/ BootInjected(o) \/ BootDone(o)

EnforcerStep ==
    \/ BeginPass \/ EndPass
    \/ \E i \in Instances : EnforceInstance(i) \/ SkipBusy(i)

Next ==
    \/ \E o \in Requests, i \in Instances : BeginRequest(o, i)
    \/ \E o \in Ops : HandlerStep(o) \/ BootStep(o) \/ Release(o)
    \/ EnforcerStep
    \/ Crash

Spec == Init /\ [][Next]_vars

\* Every goroutine that has started keeps running: its driver calls return (they
\* are commands under the request's or a ten-minute context), the mutexes are
\* held for a few assignments only, and the ticker keeps starting passes.
\* Nothing obliges a master to send requests, and nothing makes a crash happen.
Fairness ==
    /\ \A o \in Ops : WF_vars(HandlerStep(o)) /\ WF_vars(BootStep(o)) /\ WF_vars(Release(o))
    /\ WF_vars(EnforcerStep)

FairSpec == Spec /\ Fairness

-----------------------------------------------------------------------------
(* Properties.                                                             *)

\* o may still touch i: its handler or its bootstrap goroutine is at work on it.
WorksOn(o, i) ==
    \/ handler[o] \notin {"idle", "returned"} /\ target[o] = i
    \/ bootId[o] = i

\* Two operations never work on one instance at the same time, although a
\* handler that has answered may have left a bootstrap goroutine behind.
MutualExclusion ==
    \A i \in Instances, o, p \in Ops : WorksOn(o, i) /\ WorksOn(p, i) => o = p

\* Why mutual exclusion holds, and why the last done() is the right one: refs
\* counts the goroutines at work, a bootstrap goroutine works on the instance its
\* handler holds, and no two leases in use name the same instance.
LeaseInv ==
    /\ \A o \in Ops :
        /\ refs[o] = (IF handler[o] \in {"idle", "returned"} THEN 0 ELSE 1)
                     + (IF boot[o] = "none" THEN 0 ELSE 1)
        /\ handler[o] = "idle" => boot[o] = "none" /\ target[o] = Absent
        /\ handler[o] # "idle" => target[o] \in busy
        /\ handler[o] \in {"holding", "working", "persisted", "unregistered"}
               => boot[o] = "none"
        /\ bootId[o] = IF boot[o] = "none" THEN Absent ELSE target[o]
    /\ \A o, p \in Ops :
        handler[o] # "idle" /\ handler[p] # "idle" /\ target[o] = target[p] => o = p
    /\ \A i \in busy : \E o \in Ops : handler[o] # "idle" /\ target[o] = i

\* The record an operation read under its lease is still the stored one when its
\* driver calls end: storing a changed copy never undoes somebody else's update.
NoLostUpdate ==
    \A o \in Ops : handler[o] \in {"working", "persisted", "booting"}
                       => local[o] = instances[target[o]]

\* The enforcer acts on registered instances only, although its snapshot of the
\* ids is older than the lease it takes for each of them.
EnforcerActsOnRegistered ==
    \A o \in Ops : kind[o] = "enforce" /\ handler[o] = "working"
                       => instances[target[o]] # Absent

\* While a root password is being injected the flag says so: no other operation
\* can raise it, whatever an earlier incarnation of the guest had reached.
NotReadyWhileInjecting ==
    \A o \in Ops : boot[o] = "injecting" => bootReady[bootId[o]] = "pending"

\* An id that is not in use keeps no SSH-ready flag for the instance that gets
\* the id next: no bootstrap goroutine outlives a delete and marks it again.
NoFlagWithoutInstance ==
    \A i \in Instances \ busy : instances[i] = Absent => bootReady[i] = "unset"

\* An idle instance that is registered on disk is in the table the handlers read.
OwnedIsLoaded ==
    \A i \in Instances \ busy : owned[i] # Absent => instances[i] # Absent

\* A lease is always given back, by whichever goroutine finishes last.
LeaseReleased == \A i \in Instances : i \in busy ~> i \notin busy

\* A pass of the enforcer ends: it never waits for a busy instance.
PassEnds == enforcing ~> ~enforcing

\* The abstract lock: an instance is owned from tryOperation until release().
NoOwner == "nobody"
Holds(o, i) == target[o] = i /\ handler[o] # "idle"
LeaseOwner(i) ==
    IF \E o \in Ops : Holds(o, i) THEN CHOOSE o \in Ops : Holds(o, i) ELSE NoOwner

Mutex == INSTANCE InstanceMutex
    WITH owner <- [i \in Instances |-> LeaseOwner(i)],
         entry <- instances,
         ready <- bootReady

\* The lease implements the abstract lock: every change of a record or of an
\* SSH-ready flag is a step of the operation that owns the instance.
ImplementsMutex == Mutex!Spec
=============================================================================
