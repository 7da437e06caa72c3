------------------------ MODULE OperationLease_proofs ------------------------
(***************************************************************************)
(* Proofs about the operation lease, for any number of instances, request  *)
(* goroutines and record versions.                                         *)
(***************************************************************************)
EXTENDS OperationLease, TLAPS

\* The initial state satisfies the typing and the lease invariant.
LEMMA InitLease == Init => TypeOK /\ LeaseInv
<1> SUFFICES ASSUME Init PROVE TypeOK /\ LeaseInv
  OBVIOUS
<1>1. TypeOK
  <2>1. "none" \in Kinds /\ "idle" \in HandlerPhases /\ "none" \in BootPhases
    BY DEF Kinds, HandlerPhases, BootPhases
  <2>2. Absent \in Entries /\ "unset" \in ReadyFlags /\ 0 \in 0..2 /\ 0 \in 0..MaxCrashes
    BY MaxCrashesAssumption DEF Entries, ReadyFlags
  <2>3. /\ refs \in [Ops -> 0..2] /\ target \in [Ops -> Instances \cup {Absent}]
        /\ kind \in [Ops -> Kinds] /\ handler \in [Ops -> HandlerPhases]
    BY <2>1, <2>2 DEF Init
  <2>4. /\ boot \in [Ops -> BootPhases] /\ bootId \in [Ops -> Instances \cup {Absent}]
        /\ local \in [Ops -> Entries]
    BY <2>1, <2>2 DEF Init
  <2>5. /\ instances \in [Instances -> Entries] /\ owned \in [Instances -> Entries]
        /\ bootReady \in [Instances -> ReadyFlags]
    BY <2>2 DEF Init
  <2> QED BY <2>2, <2>3, <2>4, <2>5 DEF Init, TypeOK
<1>2. LeaseInv
  BY DEF Init, LeaseInv
<1> QED BY <1>1, <1>2

-----------------------------------------------------------------------------
(* Typing.                                                                 *)

\* Every step of the agent preserves the types of its variables, given what the
\* lease invariant says of the reference counts.
LEMMA StepTypeOK == TypeOK /\ LeaseInv /\ [Next]_vars => TypeOK'
<1> SUFFICES ASSUME TypeOK, LeaseInv, [Next]_vars PROVE TypeOK'
  OBVIOUS
<1> USE DEF TypeOK, Ops, Kinds, RequestKinds, HandlerPhases, BootPhases, Entries,
            ReadyFlags
<1>1. ASSUME NEW o \in Requests, NEW i \in Instances, BeginRequest(o, i) PROVE TypeOK'
  BY <1>1 DEF BeginRequest, TryOperation, dataVars, passVars
<1>2. ASSUME NEW o \in Ops, HandlerStep(o) PROVE TypeOK'
  <2>1. CASE Load(o)
    BY <2>1 DEF Load, Admitted, LeaseInv, dataVars, passVars
  <2>2. CASE SaveOwned(o)
    BY <2>2 DEF SaveOwned, LeaseInv, passVars
  <2>3. CASE StartBoot(o)
    BY <2>3 DEF StartBoot, Retained, LeaseInv, dataVars, passVars
  <2>4. CASE StoreRecord(o)
    BY <2>4 DEF StoreRecord, ReadyAfterStore, LeaseInv, passVars
  <2>5. CASE RemoveOwned(o)
    BY <2>5 DEF RemoveOwned, LeaseInv, passVars
  <2>6. CASE Forget(o)
    BY <2>6 DEF Forget, LeaseInv, passVars
  <2>7. CASE HandlerDone(o)
    BY <2>7 DEF HandlerDone, Dropped, LeaseInv, dataVars, passVars
  <2>8. CASE HandlerReturn(o)
    BY <2>8 DEF HandlerReturn, Dropped, LeaseInv, dataVars, passVars
  <2> QED BY <1>2, <2>1, <2>2, <2>3, <2>4, <2>5, <2>6, <2>7, <2>8 DEF HandlerStep
<1>3. ASSUME NEW o \in Ops, BootStep(o) PROVE TypeOK'
  <2>1. CASE BootBegin(o)
    BY <2>1 DEF BootBegin, LeaseInv, passVars
  <2>2. CASE BootInjected(o)
    BY <2>2 DEF BootInjected, LeaseInv, passVars
  <2>3. CASE BootDone(o)
    BY <2>3 DEF BootDone, Dropped, LeaseInv, dataVars, passVars
  <2> QED BY <1>3, <2>1, <2>2, <2>3 DEF BootStep
<1>4. ASSUME NEW o \in Ops, Release(o) PROVE TypeOK'
  BY <1>4 DEF Release, dataVars, passVars
<1>5. CASE EnforcerStep
  <2>1. CASE BeginPass
    BY <2>1 DEF BeginPass, leaseVars, dataVars
  <2>2. CASE EndPass
    BY <2>2 DEF EndPass, leaseVars, dataVars
  <2>3. ASSUME NEW i \in Instances, EnforceInstance(i) PROVE TypeOK'
    BY <2>3 DEF EnforceInstance, TryOperation, dataVars
  <2>4. ASSUME NEW i \in Instances, SkipBusy(i) PROVE TypeOK'
    BY <2>4 DEF SkipBusy, leaseVars, dataVars
  <2> QED BY <1>5, <2>1, <2>2, <2>3, <2>4 DEF EnforcerStep
<1>6. CASE Crash
  <2>1. /\ refs' \in [Ops -> 0..2] /\ handler' \in [Ops -> HandlerPhases]
        /\ boot' \in [Ops -> BootPhases] /\ bootId' \in [Ops -> Instances \cup {Absent}]
    BY <1>6 DEF Crash
  <2>2. /\ target' \in [Ops -> Instances \cup {Absent}] /\ kind' \in [Ops -> Kinds]
        /\ local' \in [Ops -> Entries]
    BY <1>6 DEF Crash
  <2>3. /\ instances' \in [Instances -> Entries] /\ owned' \in [Instances -> Entries]
        /\ bootReady' \in [Instances -> ReadyFlags] /\ crashes' \in 0..MaxCrashes
    BY <1>6, MaxCrashesAssumption DEF Crash
  <2> QED BY <1>6, <2>1, <2>2, <2>3 DEF Crash
<1>7. CASE UNCHANGED vars
  BY <1>7 DEF vars, leaseVars, dataVars, passVars
<1> QED BY <1>1, <1>2, <1>3, <1>4, <1>5, <1>6, <1>7 DEF Next

-----------------------------------------------------------------------------
(* The lease invariant.                                                    *)

\* Every step preserves the lease invariant.  Taking a lease needs a free
\* instance; the other steps stay within the lease of one operation, and Release
\* frees the instance only when no reference is left.
LEMMA StepLeaseInv == TypeOK /\ LeaseInv /\ [Next]_vars => LeaseInv'
<1> SUFFICES ASSUME TypeOK, LeaseInv, [Next]_vars PROVE LeaseInv'
  OBVIOUS
<1> USE DEF TypeOK, Ops
<1>0. ASSUME NEW o \in Ops, NEW i \in Instances, NEW k \in Kinds, TryOperation(o, i, k)
      PROVE LeaseInv'
  BY <1>0, AbsentAssumption DEF TryOperation, LeaseInv
<1>1. ASSUME NEW o \in Requests, NEW i \in Instances, BeginRequest(o, i) PROVE LeaseInv'
  BY <1>0, <1>1 DEF BeginRequest, Kinds
<1>2. ASSUME NEW o \in Ops, HandlerStep(o) PROVE LeaseInv'
  <2>1. CASE Load(o)
    BY <2>1 DEF Load, LeaseInv
  <2>2. CASE SaveOwned(o)
    BY <2>2 DEF SaveOwned, LeaseInv
  <2>3. CASE StartBoot(o)
    BY <2>3 DEF StartBoot, Retained, LeaseInv
  <2>4. CASE StoreRecord(o)
    BY <2>4 DEF StoreRecord, ReadyAfterStore, LeaseInv
  <2>5. CASE RemoveOwned(o)
    BY <2>5 DEF RemoveOwned, LeaseInv
  <2>6. CASE Forget(o)
    BY <2>6 DEF Forget, LeaseInv
  <2>7. CASE HandlerDone(o)
    BY <2>7 DEF HandlerDone, Dropped, LeaseInv
  <2>8. CASE HandlerReturn(o)
    BY <2>8 DEF HandlerReturn, Dropped, LeaseInv
  <2> QED BY <1>2, <2>1, <2>2, <2>3, <2>4, <2>5, <2>6, <2>7, <2>8 DEF HandlerStep
<1>3. ASSUME NEW o \in Ops, BootStep(o) PROVE LeaseInv'
  <2>1. CASE BootBegin(o)
    BY <2>1 DEF BootBegin, LeaseInv
  <2>2. CASE BootInjected(o)
    BY <2>2 DEF BootInjected, LeaseInv
  <2>3. CASE BootDone(o)
    BY <2>3 DEF BootDone, Dropped, LeaseInv
  <2> QED BY <1>3, <2>1, <2>2, <2>3 DEF BootStep
<1>4. ASSUME NEW o \in Ops, Release(o) PROVE LeaseInv'
  BY <1>4 DEF Release, LeaseInv
<1>5. CASE EnforcerStep
  <2>1. ASSUME NEW i \in Instances, EnforceInstance(i) PROVE LeaseInv'
    BY <1>0, <2>1 DEF EnforceInstance, Kinds
  <2>2. ASSUME UNCHANGED leaseVars PROVE LeaseInv'
    BY <2>2 DEF leaseVars, LeaseInv
  <2> QED BY <1>5, <2>1, <2>2 DEF EnforcerStep, BeginPass, EndPass, SkipBusy
<1>6. CASE Crash
  BY <1>6 DEF Crash, LeaseInv
<1>7. CASE UNCHANGED vars
  BY <1>7 DEF vars, leaseVars, LeaseInv
<1> QED BY <1>1, <1>2, <1>3, <1>4, <1>5, <1>6, <1>7 DEF Next

\* Type correctness of the lease, its handlers and the state they protect.
THEOREM TypeCorrect == Spec => []TypeOK
BY InitLease, StepTypeOK, StepLeaseInv, PTL DEF Spec

\* The reference count of a lease always equals the number of its goroutines.
THEOREM LeaseInvariant == Spec => []LeaseInv
BY InitLease, StepTypeOK, StepLeaseInv, PTL DEF Spec

\* No two operations ever work on one instance at the same time.
THEOREM Exclusive == Spec => []MutualExclusion
<1>1. TypeOK /\ LeaseInv => MutualExclusion
  BY AbsentAssumption DEF TypeOK, LeaseInv, MutualExclusion, WorksOn, Ops
<1> QED BY <1>1, TypeCorrect, LeaseInvariant, PTL

-----------------------------------------------------------------------------
(* The state the lease protects.                                           *)

\* NoLostUpdate and the properties of the SSH-ready flags, with what keeps them
\* true between two steps of the operation that owns the instance: only a create
\* or a reinstall that has not stored its record yet leaves a flag or an
\* ownership file without a record.
DataInv ==
    /\ NoLostUpdate
    /\ NotReadyWhileInjecting
    /\ EnforcerActsOnRegistered
    /\ \A i \in Instances :
        /\ instances[i] = Absent /\ bootReady[i] # "unset"
               => \E o \in Ops : handler[o] = "booting" /\ target[o] = i
        /\ instances[i] = Absent /\ owned[i] # Absent
               => \E o \in Ops : handler[o] \in {"persisted", "booting"} /\ target[o] = i
    /\ \A o \in Ops :
        /\ boot[o] # "none" => handler[o] = "booting" \/ instances[target[o]] # Absent
        /\ handler[o] = "unregistered" => owned[target[o]] = Absent

\* Nothing is stored, flagged or owned when the agent starts for the first time.
LEMMA InitData == Init => DataInv
BY DEF Init, DataInv, NoLostUpdate, NotReadyWhileInjecting, EnforcerActsOnRegistered

\* The invariant names only the protected state and the phases of the operations.
LEMMA FrameData ==
    DataInv /\ UNCHANGED <<target, kind, handler, boot, bootId, local, dataVars>> => DataInv'
BY DEF DataInv, dataVars, NoLostUpdate, NotReadyWhileInjecting, EnforcerActsOnRegistered

\* Every step preserves it: a step that changes a record or a flag belongs to the
\* operation that owns the instance, and no other operation works on it.
LEMMA StepData == TypeOK /\ LeaseInv /\ DataInv /\ [Next]_vars => DataInv'
<1> SUFFICES ASSUME TypeOK, LeaseInv, DataInv, [Next]_vars PROVE DataInv'
  OBVIOUS
<1> USE DEF TypeOK, Ops
<1>D. /\ NoLostUpdate /\ NotReadyWhileInjecting /\ EnforcerActsOnRegistered
  BY DEF DataInv
<1>0. ASSUME NEW o \in Ops, NEW i \in Instances, NEW k \in Kinds, TryOperation(o, i, k),
             UNCHANGED <<local, dataVars>>
      PROVE DataInv'
  BY <1>0, AbsentAssumption DEF TryOperation, LeaseInv, DataInv, dataVars,
     NoLostUpdate, NotReadyWhileInjecting, EnforcerActsOnRegistered
<1>1. ASSUME NEW o \in Requests, NEW i \in Instances, BeginRequest(o, i) PROVE DataInv'
  BY <1>0, <1>1 DEF BeginRequest, Kinds
<1>2. ASSUME NEW o \in Ops, HandlerStep(o) PROVE DataInv'
  <2> USE DEF LeaseInv, DataInv, NoLostUpdate, NotReadyWhileInjecting,
              EnforcerActsOnRegistered
  <2>1. CASE Load(o)
    BY <2>1 DEF Load, Admitted, dataVars
  <2>2. CASE SaveOwned(o)
    BY <2>2 DEF SaveOwned
  <2>3. CASE StartBoot(o)
    BY <2>3 DEF StartBoot, dataVars
  <2>4. CASE StoreRecord(o)
    BY <2>4, AbsentAssumption DEF StoreRecord, ReadyAfterStore
  <2>5. CASE RemoveOwned(o)
    BY <2>5 DEF RemoveOwned
  <2>6. CASE Forget(o)
    BY <2>6 DEF Forget
  <2>7. CASE HandlerDone(o)
    BY <2>7 DEF HandlerDone, dataVars
  <2>8. CASE HandlerReturn(o)
    BY <2>8 DEF HandlerReturn, dataVars
  <2> QED BY <1>2, <2>1, <2>2, <2>3, <2>4, <2>5, <2>6, <2>7, <2>8 DEF HandlerStep
<1>3. ASSUME NEW o \in Ops, BootStep(o) PROVE DataInv'
  <2> USE DEF LeaseInv, DataInv, NoLostUpdate, NotReadyWhileInjecting,
              EnforcerActsOnRegistered
  <2>1. CASE BootBegin(o)
    BY <2>1 DEF BootBegin
  <2>2. CASE BootInjected(o)
    BY <2>2 DEF BootInjected
  <2>3. CASE BootDone(o)
    BY <2>3 DEF BootDone, dataVars
  <2> QED BY <1>3, <2>1, <2>2, <2>3 DEF BootStep
<1>4. ASSUME NEW o \in Ops, Release(o) PROVE DataInv'
  BY <1>4 DEF Release, LeaseInv, DataInv, dataVars, NoLostUpdate, NotReadyWhileInjecting,
              EnforcerActsOnRegistered
<1>5. CASE EnforcerStep
  <2>1. ASSUME NEW i \in Instances, EnforceInstance(i) PROVE DataInv'
    BY <1>0, <2>1 DEF EnforceInstance, Kinds
  <2>2. ASSUME UNCHANGED <<leaseVars, local, dataVars>> PROVE DataInv'
    BY <2>2, FrameData DEF leaseVars
  <2> QED BY <1>5, <2>1, <2>2 DEF EnforcerStep, BeginPass, EndPass, SkipBusy
<1>6. CASE Crash
  BY <1>6 DEF Crash, DataInv, NoLostUpdate, NotReadyWhileInjecting, EnforcerActsOnRegistered
<1>7. CASE UNCHANGED vars
  BY <1>7, FrameData DEF vars, leaseVars
<1> QED BY <1>1, <1>2, <1>3, <1>4, <1>5, <1>6, <1>7 DEF Next

\* The strengthened invariant of the protected state.
LEMMA DataInvariant == Spec => []DataInv
BY InitLease, StepTypeOK, StepLeaseInv, InitData, StepData, PTL DEF Spec

\* A handler's copy of a record is never stale when it stores the result.
THEOREM NoUpdateLost == Spec => []NoLostUpdate
<1>1. DataInv => NoLostUpdate
  BY DEF DataInv
<1> QED BY <1>1, DataInvariant, PTL

\* The SSH-ready flag never promises a guest whose password is being injected.
THEOREM FlagWaitsForInjection == Spec => []NotReadyWhileInjecting
<1>1. DataInv => NotReadyWhileInjecting
  BY DEF DataInv
<1> QED BY <1>1, DataInvariant, PTL

\* The enforcer works on registered instances only.
THEOREM EnforcerRereads == Spec => []EnforcerActsOnRegistered
<1>1. DataInv => EnforcerActsOnRegistered
  BY DEF DataInv
<1> QED BY <1>1, DataInvariant, PTL

\* A freed id has lost its SSH-ready flag.
THEOREM FlagsNeedInstance == Spec => []NoFlagWithoutInstance
<1>1. TypeOK /\ LeaseInv /\ DataInv => NoFlagWithoutInstance
  BY DEF LeaseInv, DataInv, NoFlagWithoutInstance
<1> QED BY <1>1, TypeCorrect, LeaseInvariant, DataInvariant, PTL

\* An owned id whose lease is free has its record.
THEOREM TablesAgree == Spec => []OwnedIsLoaded
<1>1. TypeOK /\ LeaseInv /\ DataInv => OwnedIsLoaded
  BY DEF LeaseInv, DataInv, OwnedIsLoaded
<1> QED BY <1>1, TypeCorrect, LeaseInvariant, DataInvariant, PTL

-----------------------------------------------------------------------------
(* The lease implements the abstract lock.                                 *)

\* The abstract owner of an instance is the one operation that holds its lease.
LEMMA OwnerIsHolder ==
    TypeOK /\ LeaseInv => \A o \in Ops, i \in Instances : Holds(o, i) => LeaseOwner(i) = o
<1> SUFFICES ASSUME TypeOK, LeaseInv, NEW o \in Ops, NEW i \in Instances, Holds(o, i)
             PROVE LeaseOwner(i) = o
  OBVIOUS
<1>1. \A p \in Ops : Holds(p, i) => p = o
  BY DEF LeaseInv, Holds
<1> QED BY <1>1 DEF LeaseOwner

\* The abstract owner after a step, from who holds the lease after it.
LEMMA OwnerIsHolderNext ==
    TypeOK' /\ LeaseInv' =>
        \A o \in Ops, i \in Instances : Holds(o, i)' => LeaseOwner(i)' = o
<1> SUFFICES ASSUME TypeOK', LeaseInv', NEW o \in Ops, NEW i \in Instances, Holds(o, i)'
             PROVE LeaseOwner(i)' = o
  OBVIOUS
<1>1. \A p \in Ops : Holds(p, i)' => p = o
  BY DEF LeaseInv, Holds
<1> QED BY <1>1 DEF LeaseOwner

\* An instance is free in the abstract lock exactly when nobody holds its lease.
LEMMA FreeIsUnheld ==
    \A i \in Instances : /\ (\A o \in Ops : ~Holds(o, i)) => LeaseOwner(i) = NoOwner
                         /\ (\A o \in Ops : ~Holds(o, i)') => LeaseOwner(i)' = NoOwner
BY DEF LeaseOwner

\* A step that changes no lease changes no abstract owner.
LEMMA SameHolders ==
    ASSUME TypeOK, LeaseInv, TypeOK', LeaseInv',
           \A o \in Ops, i \in Instances : Holds(o, i)' <=> Holds(o, i)
    PROVE  [i \in Instances |-> LeaseOwner(i)'] = [i \in Instances |-> LeaseOwner(i)]
<1>1. ASSUME NEW i \in Instances PROVE LeaseOwner(i)' = LeaseOwner(i)
  <2>1. CASE \E o \in Ops : Holds(o, i)
    BY <2>1, OwnerIsHolder, OwnerIsHolderNext
  <2>2. CASE \A o \in Ops : ~Holds(o, i)
    BY <2>2, FreeIsUnheld
  <2> QED BY <2>1, <2>2
<1> QED BY <1>1

\* Nobody owns an instance when the agent starts.
LEMMA InitRefines == Init => Mutex!Init
<1> SUFFICES ASSUME Init PROVE Mutex!Init
  OBVIOUS
<1>1. \A i \in Instances : LeaseOwner(i) = NoOwner
  BY FreeIsUnheld DEF Init, Holds
<1>2. instances \in [Instances -> Entries] /\ bootReady \in [Instances -> ReadyFlags]
  BY InitLease DEF TypeOK
<1> QED BY <1>1, <1>2 DEF Mutex!Init

\* Taking a free lease is Acquire of the abstract lock.
LEMMA AcquireRefines ==
    ASSUME TypeOK, LeaseInv, TypeOK', LeaseInv', NEW o \in Ops, NEW i \in Instances,
           NEW k \in Kinds, TryOperation(o, i, k), UNCHANGED dataVars
    PROVE  Mutex!Acquire(o, i)
<1> USE DEF TypeOK, Ops
<1>1. \A p \in Ops : ~Holds(p, i)
  BY DEF TryOperation, LeaseInv, Holds
<1>2. LeaseOwner(i) = NoOwner
  BY <1>1, FreeIsUnheld
<1>3. \A j \in Instances : LeaseOwner(j) # o
  <2> SUFFICES ASSUME NEW j \in Instances, LeaseOwner(j) = o PROVE FALSE
    OBVIOUS
  <2>1. ~Holds(o, j) /\ o # NoOwner
    BY NobodyAssumption DEF TryOperation, Holds, NoOwner
  <2> QED BY <2>1, FreeIsUnheld, OwnerIsHolder
<1>4. LeaseOwner(i)' = o
  <2>1. Holds(o, i)'
    BY DEF TryOperation, Holds
  <2> QED BY <2>1, OwnerIsHolderNext
<1>5. ASSUME NEW j \in Instances, j # i PROVE LeaseOwner(j)' = LeaseOwner(j)
  <2>1. \A p \in Ops : Holds(p, j)' <=> Holds(p, j)
    BY <1>5, AbsentAssumption DEF TryOperation, Holds, LeaseInv
  <2>2. CASE \E p \in Ops : Holds(p, j)
    BY <2>1, <2>2, OwnerIsHolder, OwnerIsHolderNext
  <2>3. CASE \A p \in Ops : ~Holds(p, j)
    BY <2>1, <2>3, FreeIsUnheld
  <2> QED BY <2>2, <2>3
<1> QED BY <1>2, <1>3, <1>4, <1>5 DEF Mutex!Acquire, dataVars

\* Dropping the last reference is Release of the abstract lock.
LEMMA ReleaseRefines ==
    ASSUME TypeOK, LeaseInv, TypeOK', LeaseInv', NEW o \in Ops, Release(o)
    PROVE  \E i \in Instances : Mutex!Release(o, i)
<1> USE DEF TypeOK, Ops
<1>0. target[o] \in Instances /\ Holds(o, target[o])
  BY DEF Release, LeaseInv, Holds
<1>1. LeaseOwner(target[o]) = o
  BY <1>0, OwnerIsHolder
<1>2. \A p \in Ops : Holds(p, target[o]) => p = o
  BY <1>0 DEF LeaseInv, Holds
<1> DEFINE t == target[o]
<1>3. ASSUME NEW j \in Instances
      PROVE  LeaseOwner(j)' = IF j = t THEN NoOwner ELSE LeaseOwner(j)
  <2>1. CASE j = t
    <3>1. \A p \in Ops : ~Holds(p, j)'
      BY <1>2, <2>1 DEF Release, Holds
    <3> QED BY <2>1, <3>1, FreeIsUnheld
  <2>2. CASE j # t
    <3>1. \A p \in Ops : Holds(p, j)' <=> Holds(p, j)
      BY <1>0, <2>2 DEF Release, Holds
    <3>2. CASE \E p \in Ops : Holds(p, j)
      BY <2>2, <3>1, <3>2, OwnerIsHolder, OwnerIsHolderNext
    <3>3. CASE \A p \in Ops : ~Holds(p, j)
      BY <2>2, <3>1, <3>3, FreeIsUnheld
    <3> QED BY <3>2, <3>3
  <2> QED BY <2>1, <2>2
<1>4. t \in Instances /\ LeaseOwner(t) = o
  BY <1>0, <1>1
<1>5. UNCHANGED <<instances, bootReady>>
  BY DEF Release, dataVars
<1> HIDE DEF t
<1>6. Mutex!Release(o, t)
  BY <1>3, <1>4, <1>5 DEF Mutex!Release
<1> QED BY <1>4, <1>6

\* A step of a goroutine that changes records or flags is Work of the owner.
LEMMA WorkRefines ==
    ASSUME TypeOK, LeaseInv, TypeOK', LeaseInv', NEW o \in Ops, Holds(o, target[o]),
           UNCHANGED target, \A p \in Ops : (handler[p] = "idle")' <=> handler[p] = "idle",
           \A j \in Instances : j # target[o] =>
               instances'[j] = instances[j] /\ bootReady'[j] = bootReady[j]
    PROVE  \E i \in Instances : Mutex!Work(o, i)
<1> USE DEF TypeOK, Ops
<1> DEFINE t == target[o]
<1>1. t \in Instances /\ LeaseOwner(t) = o
  BY OwnerIsHolder DEF LeaseInv, Holds
<1>2. [i \in Instances |-> LeaseOwner(i)'] = [i \in Instances |-> LeaseOwner(i)]
  <2>1. \A p \in Ops, i \in Instances : Holds(p, i)' <=> Holds(p, i)
    BY DEF Holds
  <2> QED BY <2>1, SameHolders
<1>3. instances'[t] \in Entries /\ bootReady'[t] \in ReadyFlags
  BY <1>1
<1>4. \A j \in Instances : j # t => instances'[j] = instances[j] /\ bootReady'[j] = bootReady[j]
  OBVIOUS
<1> HIDE DEF t
<1>5. instances' = [instances EXCEPT ![t] = instances'[t]]
  BY <1>1, <1>4
<1>6. bootReady' = [bootReady EXCEPT ![t] = bootReady'[t]]
  BY <1>1, <1>4
<1>7. Mutex!Work(o, t)
  BY <1>1, <1>2, <1>3, <1>5, <1>6 DEF Mutex!Work
<1> QED BY <1>1, <1>7

\* Every step of the agent is a step of the abstract lock or leaves it alone.
LEMMA StepRefines ==
    TypeOK /\ LeaseInv /\ TypeOK' /\ LeaseInv' /\ [Next]_vars => [Mutex!Next]_(Mutex!vars)
<1> SUFFICES ASSUME TypeOK, LeaseInv, TypeOK', LeaseInv', [Next]_vars
             PROVE  Mutex!Next \/ UNCHANGED Mutex!vars
  OBVIOUS
<1> USE DEF TypeOK, Ops
<1>A. ASSUME UNCHANGED <<target, dataVars>>,
             \A p \in Ops : (handler[p] = "idle")' <=> handler[p] = "idle"
      PROVE  UNCHANGED Mutex!vars
  <2>1. \A p \in Ops, i \in Instances : Holds(p, i)' <=> Holds(p, i)
    BY <1>A DEF Holds
  <2>2. [i \in Instances |-> LeaseOwner(i)'] = [i \in Instances |-> LeaseOwner(i)]
    BY <2>1, SameHolders
  <2> QED BY <1>A, <2>2 DEF Mutex!vars, dataVars
<1>B. ASSUME NEW o \in Ops, \E i \in Instances : Mutex!Work(o, i) \/ Mutex!Release(o, i)
      PROVE  Mutex!Next
  BY <1>B DEF Mutex!Next
<1>1. ASSUME NEW o \in Requests, NEW i \in Instances, BeginRequest(o, i) PROVE Mutex!Next
  <2>1. Mutex!Acquire(o, i)
    BY <1>1, AcquireRefines DEF BeginRequest, Kinds
  <2> QED BY <2>1 DEF Mutex!Next
<1>2. ASSUME NEW o \in Ops, HandlerStep(o) PROVE Mutex!Next \/ UNCHANGED Mutex!vars
  <2>1. CASE Load(o)
    BY <1>A, <2>1 DEF Load
  <2>2. CASE SaveOwned(o)
    BY <1>A, <1>B, <2>2, WorkRefines DEF SaveOwned, Holds
  <2>3. CASE StartBoot(o)
    BY <1>A, <2>3 DEF StartBoot
  <2>4. CASE StoreRecord(o)
    BY <1>B, <2>4, WorkRefines DEF StoreRecord, ReadyAfterStore, Holds
  <2>5. CASE RemoveOwned(o)
    BY <1>B, <2>5, WorkRefines DEF RemoveOwned, Holds
  <2>6. CASE Forget(o)
    BY <1>B, <2>6, WorkRefines DEF Forget, Holds
  <2>7. CASE HandlerDone(o)
    BY <1>A, <2>7 DEF HandlerDone
  <2>8. CASE HandlerReturn(o)
    BY <1>A, <2>8 DEF HandlerReturn
  <2> QED BY <1>2, <2>1, <2>2, <2>3, <2>4, <2>5, <2>6, <2>7, <2>8 DEF HandlerStep
<1>3. ASSUME NEW o \in Ops, BootStep(o) PROVE Mutex!Next \/ UNCHANGED Mutex!vars
  <2>0. boot[o] # "none" => Holds(o, target[o]) /\ bootId[o] = target[o]
    BY DEF LeaseInv, Holds
  <2>1. CASE BootBegin(o)
    BY <1>B, <2>0, <2>1, WorkRefines DEF BootBegin
  <2>2. CASE BootInjected(o)
    BY <1>B, <2>0, <2>2, WorkRefines DEF BootInjected
  <2>3. CASE BootDone(o)
    BY <1>A, <2>3 DEF BootDone
  <2> QED BY <1>3, <2>1, <2>2, <2>3 DEF BootStep
<1>4. ASSUME NEW o \in Ops, Release(o) PROVE Mutex!Next
  BY <1>4, <1>B, ReleaseRefines
<1>5. CASE EnforcerStep
  <2>1. ASSUME NEW i \in Instances, EnforceInstance(i) PROVE Mutex!Next
    <3>1. Mutex!Acquire(Enforcer, i)
      BY <2>1, AcquireRefines DEF EnforceInstance, Kinds
    <3> QED BY <3>1 DEF Mutex!Next
  <2>2. CASE UNCHANGED <<leaseVars, dataVars>>
    BY <1>A, <2>2 DEF leaseVars
  <2> QED BY <1>5, <2>1, <2>2 DEF EnforcerStep, BeginPass, EndPass, SkipBusy
<1>6. CASE Crash
  <2>1. \A i \in Instances : LeaseOwner(i)' = NoOwner
    BY <1>6, FreeIsUnheld DEF Crash, Holds
  <2>2. Mutex!Crash
    BY <1>6, <2>1 DEF Mutex!Crash, Crash
  <2> QED BY <2>2 DEF Mutex!Next
<1>7. CASE UNCHANGED vars
  BY <1>A, <1>7 DEF vars, leaseVars
<1> QED BY <1>1, <1>2, <1>3, <1>4, <1>5, <1>6, <1>7 DEF Next

\* The lease, its handlers and goroutines implement the abstract lock.
THEOREM LeaseImplementsMutex == Spec => ImplementsMutex
<1>1. TypeOK /\ LeaseInv /\ TypeOK' /\ LeaseInv' /\ [Next]_vars => [Mutex!Next]_(Mutex!vars)
  BY StepRefines
<1>2. Spec => Mutex!Init
  BY InitRefines DEF Spec
<1>3. Spec => [][Mutex!Next]_(Mutex!vars)
  BY <1>1, TypeCorrect, LeaseInvariant, PTL DEF Spec
<1> QED BY <1>2, <1>3 DEF ImplementsMutex, Mutex!Spec
=============================================================================
