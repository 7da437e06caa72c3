---------------------- MODULE DedicatedNetwork_proofs -----------------------
(***************************************************************************)
(* Proofs about the host side of dedicated networks, for any instances of  *)
(* either driver, addresses, failures, crashes and reboots.  What must be  *)
(* added to the invariants is what an operation has done by each of its    *)
(* phases (EnsureInv, CleanInv), and that dedicatedResourcesMu has one     *)
(* holder.                                                                 *)
(***************************************************************************)
EXTENDS DedicatedNetwork, TLAPS

\* dedicatedResourcesMu is held once.
Exclusion == \A i, j \in Instances : Holds(i) /\ Holds(j) => i = j

\* The phases in which the address of the request is in the record.
Recorded == Ensuring \cup {"ensured"}

\* An ensure has written the record, then the chain, then made and named the bridge; the
\* route it is to set is nobody else's.
EnsureInvOf(i) ==
    /\ phase[i] \in {"ensure"} \cup Recorded \/ job[i] \in {"restart", "reinstall"}
          => wanted[i] \in Addresses
    /\ phase[i] \in Recorded => record[i] = wanted[i]
    /\ phase[i] \in Recorded \ {"recorded"} => spoof[i] = wanted[i]
    /\ phase[i] \in {"protected", "added", "linked", "routed"} => Routed(i)
    /\ Routed(i) /\ phase[i] \in {"recorded", "protected", "linked", "routed"}
          => bridge[i] # "bare"
    /\ Routed(i) /\ phase[i] \in Ensuring => route[wanted[i]] \in {None, i}
    /\ phase[i] \in {"linked", "routed"} => bridge[i] = "owned"
    /\ phase[i] = "routed" => route[wanted[i]] = i

EnsureInv == \A i \in Instances : EnsureInvOf(i)

\* No route is without its bridge.  A cleanup goes by the record, and nothing of an instance
\* is on the host in the last phases, or nothing but what it had before it became a bridged
\* one.
NoLink(i) == bridge[i] = "absent" /\ \A a \in Addresses : route[a] # i

CleanInv ==
    \A i \in Instances :
        /\ record[i] = None => way[i] = None
        /\ \A a \in Addresses : route[a] = i => bridge[i] # "absent"
        /\ phase[i] \in Cleaning => record[i] # None /\ applied[i] = None
        /\ phase[i] \in {"unrouted", "unproxied", "unlinked"} => Routed(i)
        /\ phase[i] = "unlinked" => NoLink(i)
        /\ phase[i] = "unprotected" => spoof[i] = None /\ (NoLink(i) \/ changed[i])

\* A clean up that has removed the proxy entry of a routed guest, and still has its record.
ProxyInv ==
    \A i \in Instances :
        Routed(i) /\ phase[i] \in {"unproxied", "unlinked", "unprotected"}
            => <<record[i], way[i]>> \notin proxy

\* Nobody cleans up behind a QEMU guest that runs.
RunningInv ==
    \A i \in QemuInstances :
        guest[i] = "running" =>
            /\ spoof[i] # None /\ record[i] # None
            /\ phase[i] \in {"idle", "ensure"} \cup Recorded

NetworkInv ==
    /\ TypeOK /\ Exclusion /\ EnsureInv /\ CleanInv /\ RunningInv
    /\ OneRecordPerAddress /\ ResourcesAreRecorded /\ AppliedIsInPlace

-----------------------------------------------------------------------------
(* Steps.                                                                  *)

\* Types.
LEMMA TypeStep == EnsureInv /\ TypeOK /\ [Next]_vars => TypeOK'
<1> SUFFICES ASSUME EnsureInv, TypeOK, [Next]_vars PROVE TypeOK'
  OBVIOUS
<1> USE FaultsAssumption, NoneAssumption, InstancesAssumption, BridgedAssumption
<1> USE DEF TypeOK, host, saved, history, control, Routed, Jobs, Phases, Ensuring, Cleaning, Recorded, EnsureInv, EnsureInvOf
<1>1. ASSUME NEW i \in Instances, NEW w \in Ways(i), Save(i, w) PROVE TypeOK'
  BY <1>1 DEF Save, Ways, Continue
<1>2. ASSUME NEW i \in Instances, NEW w \in Ways(i), Refuse(i, w) PROVE TypeOK'
  BY <1>2 DEF Refuse, Finish
<1>3. ASSUME NEW i \in Instances, Protect(i) PROVE TypeOK'
  BY <1>3 DEF Protect, Protected, Continue
<1>4. ASSUME NEW i \in Instances, AddBridge(i) PROVE TypeOK'
  BY <1>4 DEF AddBridge, Continue
<1>5. ASSUME NEW i \in Instances, NameBridge(i) PROVE TypeOK'
  BY <1>5 DEF NameBridge, Continue
<1>6. ASSUME NEW i \in Instances, AddRoute(i) PROVE TypeOK'
  BY <1>6 DEF AddRoute, Continue
<1>7. ASSUME NEW i \in Instances, AddProxy(i) PROVE TypeOK'
  BY <1>7 DEF AddProxy, Continue
<1>8. ASSUME NEW i \in Instances, NothingToClean(i) PROVE TypeOK'
  BY <1>8 DEF NothingToClean, Continue
<1>9. ASSUME NEW i \in Instances, RefuseCleanup(i) PROVE TypeOK'
  BY <1>9 DEF RefuseCleanup, Finish
<1>10. ASSUME NEW i \in Instances, DeleteRoute(i) PROVE TypeOK'
  BY <1>10 DEF DeleteRoute, Continue
<1>11. ASSUME NEW i \in Instances, DeleteProxy(i) PROVE TypeOK'
  BY <1>11 DEF DeleteProxy, Continue
<1>12. ASSUME NEW i \in Instances, DeleteBridge(i) PROVE TypeOK'
  BY <1>12 DEF DeleteBridge, Continue, WithoutRoutesOf
<1>13. ASSUME NEW i \in Instances, Unprotect(i) PROVE TypeOK'
  BY <1>13 DEF Unprotect, Continue
<1>14. ASSUME NEW i \in Instances, Forget(i) PROVE TypeOK'
  BY <1>14 DEF Forget, Continue
<1>15. ASSUME NEW i \in Instances, Ensured(i) PROVE TypeOK'
  BY <1>15 DEF Ensured, Finish
<1>16. ASSUME NEW i \in Instances, Cleaned(i) PROVE TypeOK'
  BY <1>16 DEF Cleaned, Continue, Finish
<1>17. ASSUME NEW i \in Instances, Disown(i) PROVE TypeOK'
  BY <1>17 DEF Disown, Finish
<1>18. ASSUME NEW i \in Instances, Launch(i) PROVE TypeOK'
  BY <1>18 DEF Launch
<1>19. ASSUME NEW i \in Instances, BeginStop(i) PROVE TypeOK'
  BY <1>19 DEF BeginStop, Begin, Exists
<1>20. ASSUME NEW i \in Instances, Halt(i) PROVE TypeOK'
  BY <1>20 DEF Halt
<1>21. ASSUME NEW i \in Instances, Fail(i) PROVE TypeOK'
  BY <1>21 DEF Fail, Finish
<1>22. ASSUME NEW i \in Instances, NEW a \in Addresses, BeginCreate(i, a) PROVE TypeOK'
  BY <1>22 DEF BeginCreate, Begin
<1>23. ASSUME NEW i \in Instances, NEW a \in Addresses, BeginStart(i, a) PROVE TypeOK'
  BY <1>23 DEF BeginStart, Begin, Exists
<1>24. ASSUME NEW i \in Instances, NEW a \in Addresses, BeginStatus(i, a) PROVE TypeOK'
  BY <1>24 DEF BeginStatus, Begin
<1>25. ASSUME NEW i \in Instances, NEW a \in Addresses, NEW j \in Jobs, BeginHard(i, j, a) PROVE TypeOK'
  BY <1>25 DEF BeginHard, Begin, Exists
<1>26. CASE Crash
  BY <1>26 DEF Crash, Idle
<1>27. CASE Reboot
  BY <1>27 DEF Reboot, Idle
<1>28. CASE UNCHANGED vars
  BY <1>28 DEF vars, host, saved, history, control
<1> QED
  BY <1>1, <1>2, <1>3, <1>4, <1>5, <1>6, <1>7, <1>8, <1>9, <1>10, <1>11, <1>12, <1>13, <1>14,
     <1>15, <1>16, <1>17, <1>18, <1>19, <1>20, <1>21, <1>22, <1>23, <1>24, <1>25, <1>26, <1>27, <1>28
  DEF Next, Step, Clean, Request

\* Who takes the mutex finds it free, and the others keep what they hold.
LEMMA ExclusionStep == TypeOK /\ EnsureInv /\ CleanInv /\ Exclusion /\ [Next]_vars => Exclusion'
<1> SUFFICES ASSUME TypeOK, EnsureInv, CleanInv, Exclusion, [Next]_vars PROVE Exclusion'
  OBVIOUS
<1> USE NoneAssumption, InstancesAssumption, BridgedAssumption
<1> USE DEF TypeOK, host, saved, history, control, Routed, Exclusion, Holds, MutexFree, Ensuring, Cleaning
<1>1. ASSUME NEW i \in Instances, NEW w \in Ways(i), Save(i, w) PROVE Exclusion'
  BY <1>1 DEF Save, Ways, Continue
<1>2. ASSUME NEW i \in Instances, NEW w \in Ways(i), Refuse(i, w) PROVE Exclusion'
  BY <1>2 DEF Refuse, Finish
<1>3. ASSUME NEW i \in Instances, Protect(i) PROVE Exclusion'
  BY <1>3 DEF Protect, Protected, Continue
<1>4. ASSUME NEW i \in Instances, AddBridge(i) PROVE Exclusion'
  BY <1>4 DEF AddBridge, Continue
<1>5. ASSUME NEW i \in Instances, NameBridge(i) PROVE Exclusion'
  BY <1>5 DEF NameBridge, Continue
<1>6. ASSUME NEW i \in Instances, AddRoute(i) PROVE Exclusion'
  BY <1>6 DEF AddRoute, Continue
<1>7. ASSUME NEW i \in Instances, AddProxy(i) PROVE Exclusion'
  BY <1>7 DEF AddProxy, Continue
<1>8. ASSUME NEW i \in Instances, NothingToClean(i) PROVE Exclusion'
  BY <1>8 DEF NothingToClean, Continue
<1>9. ASSUME NEW i \in Instances, RefuseCleanup(i) PROVE Exclusion'
  BY <1>9 DEF RefuseCleanup, Finish
<1>10. ASSUME NEW i \in Instances, DeleteRoute(i) PROVE Exclusion'
  BY <1>10 DEF DeleteRoute, Continue
<1>11. ASSUME NEW i \in Instances, DeleteProxy(i) PROVE Exclusion'
  BY <1>11 DEF DeleteProxy, Continue
<1>12. ASSUME NEW i \in Instances, DeleteBridge(i) PROVE Exclusion'
  BY <1>12 DEF DeleteBridge, Continue, WithoutRoutesOf
<1>13. ASSUME NEW i \in Instances, Unprotect(i) PROVE Exclusion'
  BY <1>13 DEF Unprotect, Continue
<1>14. ASSUME NEW i \in Instances, Forget(i) PROVE Exclusion'
  BY <1>14 DEF Forget, Continue
<1>15. ASSUME NEW i \in Instances, Ensured(i) PROVE Exclusion'
  BY <1>15 DEF Ensured, Finish
<1>16. ASSUME NEW i \in Instances, Cleaned(i) PROVE Exclusion'
  BY <1>16 DEF Cleaned, Continue, Finish
<1>17. ASSUME NEW i \in Instances, Disown(i) PROVE Exclusion'
  BY <1>17 DEF Disown, Finish
<1>18. ASSUME NEW i \in Instances, Launch(i) PROVE Exclusion'
  BY <1>18 DEF Launch
<1>19. ASSUME NEW i \in Instances, BeginStop(i) PROVE Exclusion'
  BY <1>19 DEF BeginStop, Begin, Exists
<1>20. ASSUME NEW i \in Instances, Halt(i) PROVE Exclusion'
  BY <1>20 DEF Halt
<1>21. ASSUME NEW i \in Instances, Fail(i) PROVE Exclusion'
  BY <1>21 DEF Fail, Finish
<1>22. ASSUME NEW i \in Instances, NEW a \in Addresses, BeginCreate(i, a) PROVE Exclusion'
  BY <1>22 DEF BeginCreate, Begin
<1>23. ASSUME NEW i \in Instances, NEW a \in Addresses, BeginStart(i, a) PROVE Exclusion'
  BY <1>23 DEF BeginStart, Begin, Exists
<1>24. ASSUME NEW i \in Instances, NEW a \in Addresses, BeginStatus(i, a) PROVE Exclusion'
  BY <1>24 DEF BeginStatus, Begin
<1>25. ASSUME NEW i \in Instances, NEW a \in Addresses, NEW j \in Jobs, BeginHard(i, j, a) PROVE Exclusion'
  BY <1>25 DEF BeginHard, Begin, Exists
<1>26. CASE Crash
  BY <1>26 DEF Crash, Idle
<1>27. CASE Reboot
  BY <1>27 DEF Reboot, Idle
<1>28. CASE UNCHANGED vars
  BY <1>28 DEF vars, host, saved, history, control
<1> QED
  BY <1>1, <1>2, <1>3, <1>4, <1>5, <1>6, <1>7, <1>8, <1>9, <1>10, <1>11, <1>12, <1>13, <1>14,
     <1>15, <1>16, <1>17, <1>18, <1>19, <1>20, <1>21, <1>22, <1>23, <1>24, <1>25, <1>26, <1>27, <1>28
  DEF Next, Step, Clean, Request

\* What an ensure has done stays done while it goes on: the mutex keeps the others away.
LEMMA EnsureStep == TypeOK /\ CleanInv /\ OneRecordPerAddress /\ EnsureInv /\ [Next]_vars => EnsureInv'
<1> SUFFICES ASSUME TypeOK, CleanInv, OneRecordPerAddress, EnsureInv, [Next]_vars PROVE EnsureInv'
  OBVIOUS
<1> USE NoneAssumption, InstancesAssumption, ForeignAssumption, BridgedAssumption
<1> USE DEF TypeOK, host, saved, history, control, Routed, EnsureInv, EnsureInvOf, Ensuring, Cleaning, Recorded, Admissible
<1>1. ASSUME NEW i \in Instances, NEW w \in Ways(i), Save(i, w) PROVE EnsureInv'
  BY <1>1 DEF Save, Ways, Continue
<1>2. ASSUME NEW i \in Instances, NEW w \in Ways(i), Refuse(i, w) PROVE EnsureInv'
  BY <1>2 DEF Refuse, Finish
<1>3. ASSUME NEW i \in Instances, Protect(i) PROVE EnsureInv'
  BY <1>3 DEF Protect, Protected, Continue
<1>4. ASSUME NEW i \in Instances, AddBridge(i) PROVE EnsureInv'
  BY <1>4 DEF AddBridge, Continue
<1>5. ASSUME NEW i \in Instances, NameBridge(i) PROVE EnsureInv'
  BY <1>5 DEF NameBridge, Continue
<1>6. ASSUME NEW i \in Instances, AddRoute(i) PROVE EnsureInv'
  <2>1. /\ wanted[i] \in Addresses /\ record[i] = wanted[i] /\ record[i] # None
        /\ Routed(i) /\ bridge[i] = "owned" /\ spoof[i] = wanted[i]
    BY <1>6 DEF AddRoute
  <2>2. \A k \in Instances \ {i} :
            phase[k] \in Recorded => wanted[k] \in Addresses /\ wanted[k] # wanted[i]
    BY <2>1 DEF OneRecordPerAddress
  <2>3. /\ route' = [route EXCEPT ![wanted[i]] = i] /\ phase' = [phase EXCEPT ![i] = "routed"]
        /\ UNCHANGED <<job, wanted, record, way, spoof, bridge>>
    BY <1>6 DEF AddRoute, saved, Continue
  <2>4. ASSUME NEW k \in Instances \ {i} PROVE EnsureInvOf(k)'
    BY <2>2, <2>3
  <2>5. EnsureInvOf(i)'
    BY <2>1, <2>3
  <2> QED BY <2>4, <2>5
<1>7. ASSUME NEW i \in Instances, AddProxy(i) PROVE EnsureInv'
  BY <1>7 DEF AddProxy, Continue
<1>8. ASSUME NEW i \in Instances, NothingToClean(i) PROVE EnsureInv'
  BY <1>8 DEF NothingToClean, Continue
<1>9. ASSUME NEW i \in Instances, RefuseCleanup(i) PROVE EnsureInv'
  BY <1>9 DEF RefuseCleanup, Finish
<1>10. ASSUME NEW i \in Instances, DeleteRoute(i) PROVE EnsureInv'
  BY <1>10 DEF DeleteRoute, Continue
<1>11. ASSUME NEW i \in Instances, DeleteProxy(i) PROVE EnsureInv'
  BY <1>11 DEF DeleteProxy, Continue
<1>12. ASSUME NEW i \in Instances, DeleteBridge(i) PROVE EnsureInv'
  BY <1>12 DEF DeleteBridge, Continue, WithoutRoutesOf
<1>13. ASSUME NEW i \in Instances, Unprotect(i) PROVE EnsureInv'
  BY <1>13 DEF Unprotect, Continue
<1>14. ASSUME NEW i \in Instances, Forget(i) PROVE EnsureInv'
  BY <1>14 DEF Forget, Continue
<1>15. ASSUME NEW i \in Instances, Ensured(i) PROVE EnsureInv'
  BY <1>15 DEF Ensured, Finish
<1>16. ASSUME NEW i \in Instances, Cleaned(i) PROVE EnsureInv'
  BY <1>16 DEF Cleaned, Continue, Finish
<1>17. ASSUME NEW i \in Instances, Disown(i) PROVE EnsureInv'
  BY <1>17 DEF Disown, Finish
<1>18. ASSUME NEW i \in Instances, Launch(i) PROVE EnsureInv'
  BY <1>18 DEF Launch
<1>19. ASSUME NEW i \in Instances, BeginStop(i) PROVE EnsureInv'
  BY <1>19 DEF BeginStop, Begin, Exists
<1>20. ASSUME NEW i \in Instances, Halt(i) PROVE EnsureInv'
  BY <1>20 DEF Halt
<1>21. ASSUME NEW i \in Instances, Fail(i) PROVE EnsureInv'
  BY <1>21 DEF Fail, Finish
<1>22. ASSUME NEW i \in Instances, NEW a \in Addresses, BeginCreate(i, a) PROVE EnsureInv'
  BY <1>22 DEF BeginCreate, Begin
<1>23. ASSUME NEW i \in Instances, NEW a \in Addresses, BeginStart(i, a) PROVE EnsureInv'
  BY <1>23 DEF BeginStart, Begin, Exists
<1>24. ASSUME NEW i \in Instances, NEW a \in Addresses, BeginStatus(i, a) PROVE EnsureInv'
  BY <1>24 DEF BeginStatus, Begin
<1>25. ASSUME NEW i \in Instances, NEW a \in Addresses, NEW j \in Jobs, BeginHard(i, j, a) PROVE EnsureInv'
  BY <1>25 DEF BeginHard, Begin, Exists
<1>26. CASE Crash
  BY <1>26 DEF Crash, Idle
<1>27. CASE Reboot
  BY <1>27 DEF Reboot, Idle
<1>28. CASE UNCHANGED vars
  BY <1>28 DEF vars, host, saved, history, control
<1> QED
  BY <1>1, <1>2, <1>3, <1>4, <1>5, <1>6, <1>7, <1>8, <1>9, <1>10, <1>11, <1>12, <1>13, <1>14,
     <1>15, <1>16, <1>17, <1>18, <1>19, <1>20, <1>21, <1>22, <1>23, <1>24, <1>25, <1>26, <1>27, <1>28
  DEF Next, Step, Clean, Request

\* A cleanup goes on where it was, and its record stays until the end.
LEMMA CleanStep == TypeOK /\ EnsureInv /\ ResourcesAreRecorded /\ CleanInv /\ [Next]_vars => CleanInv'
<1> SUFFICES ASSUME TypeOK, EnsureInv, ResourcesAreRecorded, CleanInv, [Next]_vars PROVE CleanInv'
  OBVIOUS
<1> USE NoneAssumption, InstancesAssumption, ForeignAssumption, BridgedAssumption
<1> USE DEF TypeOK, host, saved, history, control, Routed, CleanInv, EnsureInv, EnsureInvOf, NoLink, Ensuring, Cleaning, Recorded, ResourcesAreRecorded
<1>1. ASSUME NEW i \in Instances, NEW w \in Ways(i), Save(i, w) PROVE CleanInv'
  BY <1>1 DEF Save, Ways, Continue
<1>2. ASSUME NEW i \in Instances, NEW w \in Ways(i), Refuse(i, w) PROVE CleanInv'
  BY <1>2 DEF Refuse, Finish
<1>3. ASSUME NEW i \in Instances, Protect(i) PROVE CleanInv'
  BY <1>3 DEF Protect, Protected, Continue
<1>4. ASSUME NEW i \in Instances, AddBridge(i) PROVE CleanInv'
  BY <1>4 DEF AddBridge, Continue
<1>5. ASSUME NEW i \in Instances, NameBridge(i) PROVE CleanInv'
  BY <1>5 DEF NameBridge, Continue
<1>6. ASSUME NEW i \in Instances, AddRoute(i) PROVE CleanInv'
  BY <1>6 DEF AddRoute, Continue
<1>7. ASSUME NEW i \in Instances, AddProxy(i) PROVE CleanInv'
  BY <1>7 DEF AddProxy, Continue
<1>8. ASSUME NEW i \in Instances, NothingToClean(i) PROVE CleanInv'
  BY <1>8 DEF NothingToClean, Continue
<1>9. ASSUME NEW i \in Instances, RefuseCleanup(i) PROVE CleanInv'
  BY <1>9 DEF RefuseCleanup, Finish
<1>10. ASSUME NEW i \in Instances, DeleteRoute(i) PROVE CleanInv'
  BY <1>10 DEF DeleteRoute, Continue
<1>11. ASSUME NEW i \in Instances, DeleteProxy(i) PROVE CleanInv'
  BY <1>11 DEF DeleteProxy, Continue
<1>12. ASSUME NEW i \in Instances, DeleteBridge(i) PROVE CleanInv'
  BY <1>12 DEF DeleteBridge, Continue, WithoutRoutesOf
<1>13. ASSUME NEW i \in Instances, Unprotect(i) PROVE CleanInv'
  BY <1>13 DEF Unprotect, Continue
<1>14. ASSUME NEW i \in Instances, Forget(i) PROVE CleanInv'
  BY <1>14 DEF Forget, Continue
<1>15. ASSUME NEW i \in Instances, Ensured(i) PROVE CleanInv'
  BY <1>15 DEF Ensured, Finish
<1>16. ASSUME NEW i \in Instances, Cleaned(i) PROVE CleanInv'
  BY <1>16 DEF Cleaned, Continue, Finish
<1>17. ASSUME NEW i \in Instances, Disown(i) PROVE CleanInv'
  BY <1>17 DEF Disown, Finish
<1>18. ASSUME NEW i \in Instances, Launch(i) PROVE CleanInv'
  BY <1>18 DEF Launch
<1>19. ASSUME NEW i \in Instances, BeginStop(i) PROVE CleanInv'
  BY <1>19 DEF BeginStop, Begin, Exists
<1>20. ASSUME NEW i \in Instances, Halt(i) PROVE CleanInv'
  BY <1>20 DEF Halt
<1>21. ASSUME NEW i \in Instances, Fail(i) PROVE CleanInv'
  BY <1>21 DEF Fail, Finish
<1>22. ASSUME NEW i \in Instances, NEW a \in Addresses, BeginCreate(i, a) PROVE CleanInv'
  BY <1>22 DEF BeginCreate, Begin
<1>23. ASSUME NEW i \in Instances, NEW a \in Addresses, BeginStart(i, a) PROVE CleanInv'
  BY <1>23 DEF BeginStart, Begin, Exists
<1>24. ASSUME NEW i \in Instances, NEW a \in Addresses, BeginStatus(i, a) PROVE CleanInv'
  BY <1>24 DEF BeginStatus, Begin
<1>25. ASSUME NEW i \in Instances, NEW a \in Addresses, NEW j \in Jobs, BeginHard(i, j, a) PROVE CleanInv'
  BY <1>25 DEF BeginHard, Begin, Exists
<1>26. CASE Crash
  BY <1>26 DEF Crash, Idle
<1>27. CASE Reboot
  BY <1>27 DEF Reboot, Idle
<1>28. CASE UNCHANGED vars
  BY <1>28 DEF vars, host, saved, history, control
<1> QED
  BY <1>1, <1>2, <1>3, <1>4, <1>5, <1>6, <1>7, <1>8, <1>9, <1>10, <1>11, <1>12, <1>13, <1>14,
     <1>15, <1>16, <1>17, <1>18, <1>19, <1>20, <1>21, <1>22, <1>23, <1>24, <1>25, <1>26, <1>27, <1>28
  DEF Next, Step, Clean, Request

\* A QEMU guest starts with its chain, and loses it after it has stopped.
LEMMA RunningStep == TypeOK /\ EnsureInv /\ RunningInv /\ [Next]_vars => RunningInv'
<1> SUFFICES ASSUME TypeOK, EnsureInv, RunningInv, [Next]_vars PROVE RunningInv'
  OBVIOUS
<1> USE NoneAssumption, InstancesAssumption, BridgedAssumption
<1> USE DEF TypeOK, host, saved, history, control, Routed, Instances, RunningInv, EnsureInv, EnsureInvOf, Ensuring, Cleaning, Recorded
<1>1. ASSUME NEW i \in Instances, NEW w \in Ways(i), Save(i, w) PROVE RunningInv'
  BY <1>1 DEF Save, Ways, Continue
<1>2. ASSUME NEW i \in Instances, NEW w \in Ways(i), Refuse(i, w) PROVE RunningInv'
  BY <1>2 DEF Refuse, Finish
<1>3. ASSUME NEW i \in Instances, Protect(i) PROVE RunningInv'
  BY <1>3 DEF Protect, Protected, Continue
<1>4. ASSUME NEW i \in Instances, AddBridge(i) PROVE RunningInv'
  BY <1>4 DEF AddBridge, Continue
<1>5. ASSUME NEW i \in Instances, NameBridge(i) PROVE RunningInv'
  BY <1>5 DEF NameBridge, Continue
<1>6. ASSUME NEW i \in Instances, AddRoute(i) PROVE RunningInv'
  BY <1>6 DEF AddRoute, Continue
<1>7. ASSUME NEW i \in Instances, AddProxy(i) PROVE RunningInv'
  BY <1>7 DEF AddProxy, Continue
<1>8. ASSUME NEW i \in Instances, NothingToClean(i) PROVE RunningInv'
  BY <1>8 DEF NothingToClean, Continue
<1>9. ASSUME NEW i \in Instances, RefuseCleanup(i) PROVE RunningInv'
  BY <1>9 DEF RefuseCleanup, Finish
<1>10. ASSUME NEW i \in Instances, DeleteRoute(i) PROVE RunningInv'
  BY <1>10 DEF DeleteRoute, Continue
<1>11. ASSUME NEW i \in Instances, DeleteProxy(i) PROVE RunningInv'
  BY <1>11 DEF DeleteProxy, Continue
<1>12. ASSUME NEW i \in Instances, DeleteBridge(i) PROVE RunningInv'
  BY <1>12 DEF DeleteBridge, Continue, WithoutRoutesOf
<1>13. ASSUME NEW i \in Instances, Unprotect(i) PROVE RunningInv'
  BY <1>13 DEF Unprotect, Continue
<1>14. ASSUME NEW i \in Instances, Forget(i) PROVE RunningInv'
  BY <1>14 DEF Forget, Continue
<1>15. ASSUME NEW i \in Instances, Ensured(i) PROVE RunningInv'
  BY <1>15 DEF Ensured, Finish
<1>16. ASSUME NEW i \in Instances, Cleaned(i) PROVE RunningInv'
  BY <1>16 DEF Cleaned, Continue, Finish
<1>17. ASSUME NEW i \in Instances, Disown(i) PROVE RunningInv'
  BY <1>17 DEF Disown, Finish
<1>18. ASSUME NEW i \in Instances, Launch(i) PROVE RunningInv'
  BY <1>18 DEF Launch
<1>19. ASSUME NEW i \in Instances, BeginStop(i) PROVE RunningInv'
  BY <1>19 DEF BeginStop, Begin, Exists
<1>20. ASSUME NEW i \in Instances, Halt(i) PROVE RunningInv'
  BY <1>20 DEF Halt
<1>21. ASSUME NEW i \in Instances, Fail(i) PROVE RunningInv'
  BY <1>21 DEF Fail, Finish
<1>22. ASSUME NEW i \in Instances, NEW a \in Addresses, BeginCreate(i, a) PROVE RunningInv'
  BY <1>22 DEF BeginCreate, Begin
<1>23. ASSUME NEW i \in Instances, NEW a \in Addresses, BeginStart(i, a) PROVE RunningInv'
  BY <1>23 DEF BeginStart, Begin, Exists
<1>24. ASSUME NEW i \in Instances, NEW a \in Addresses, BeginStatus(i, a) PROVE RunningInv'
  BY <1>24 DEF BeginStatus, Begin
<1>25. ASSUME NEW i \in Instances, NEW a \in Addresses, NEW j \in Jobs, BeginHard(i, j, a) PROVE RunningInv'
  BY <1>25 DEF BeginHard, Begin, Exists
<1>26. CASE Crash
  BY <1>26 DEF Crash, Idle
<1>27. CASE Reboot
  BY <1>27 DEF Reboot, Idle
<1>28. CASE UNCHANGED vars
  BY <1>28 DEF vars, host, saved, history, control
<1> QED
  BY <1>1, <1>2, <1>3, <1>4, <1>5, <1>6, <1>7, <1>8, <1>9, <1>10, <1>11, <1>12, <1>13, <1>14,
     <1>15, <1>16, <1>17, <1>18, <1>19, <1>20, <1>21, <1>22, <1>23, <1>24, <1>25, <1>26, <1>27, <1>28
  DEF Next, Step, Clean, Request

\* A record is saved only when no other has its address.
LEMMA RecordStep == TypeOK /\ OneRecordPerAddress /\ [Next]_vars => OneRecordPerAddress'
<1> SUFFICES ASSUME TypeOK, OneRecordPerAddress, [Next]_vars PROVE OneRecordPerAddress'
  OBVIOUS
<1> USE NoneAssumption, InstancesAssumption, BridgedAssumption
<1> USE DEF TypeOK, host, saved, history, control, Routed, OneRecordPerAddress, Reserved
<1>1. ASSUME NEW i \in Instances, NEW w \in Ways(i), Save(i, w) PROVE OneRecordPerAddress'
  BY <1>1 DEF Save, Ways, Continue
<1>2. ASSUME NEW i \in Instances, NEW w \in Ways(i), Refuse(i, w) PROVE OneRecordPerAddress'
  BY <1>2 DEF Refuse, Finish
<1>3. ASSUME NEW i \in Instances, Protect(i) PROVE OneRecordPerAddress'
  BY <1>3 DEF Protect, Protected, Continue
<1>4. ASSUME NEW i \in Instances, AddBridge(i) PROVE OneRecordPerAddress'
  BY <1>4 DEF AddBridge, Continue
<1>5. ASSUME NEW i \in Instances, NameBridge(i) PROVE OneRecordPerAddress'
  BY <1>5 DEF NameBridge, Continue
<1>6. ASSUME NEW i \in Instances, AddRoute(i) PROVE OneRecordPerAddress'
  BY <1>6 DEF AddRoute, Continue
<1>7. ASSUME NEW i \in Instances, AddProxy(i) PROVE OneRecordPerAddress'
  BY <1>7 DEF AddProxy, Continue
<1>8. ASSUME NEW i \in Instances, NothingToClean(i) PROVE OneRecordPerAddress'
  BY <1>8 DEF NothingToClean, Continue
<1>9. ASSUME NEW i \in Instances, RefuseCleanup(i) PROVE OneRecordPerAddress'
  BY <1>9 DEF RefuseCleanup, Finish
<1>10. ASSUME NEW i \in Instances, DeleteRoute(i) PROVE OneRecordPerAddress'
  BY <1>10 DEF DeleteRoute, Continue
<1>11. ASSUME NEW i \in Instances, DeleteProxy(i) PROVE OneRecordPerAddress'
  BY <1>11 DEF DeleteProxy, Continue
<1>12. ASSUME NEW i \in Instances, DeleteBridge(i) PROVE OneRecordPerAddress'
  BY <1>12 DEF DeleteBridge, Continue, WithoutRoutesOf
<1>13. ASSUME NEW i \in Instances, Unprotect(i) PROVE OneRecordPerAddress'
  BY <1>13 DEF Unprotect, Continue
<1>14. ASSUME NEW i \in Instances, Forget(i) PROVE OneRecordPerAddress'
  BY <1>14 DEF Forget, Continue
<1>15. ASSUME NEW i \in Instances, Ensured(i) PROVE OneRecordPerAddress'
  BY <1>15 DEF Ensured, Finish
<1>16. ASSUME NEW i \in Instances, Cleaned(i) PROVE OneRecordPerAddress'
  BY <1>16 DEF Cleaned, Continue, Finish
<1>17. ASSUME NEW i \in Instances, Disown(i) PROVE OneRecordPerAddress'
  BY <1>17 DEF Disown, Finish
<1>18. ASSUME NEW i \in Instances, Launch(i) PROVE OneRecordPerAddress'
  BY <1>18 DEF Launch
<1>19. ASSUME NEW i \in Instances, BeginStop(i) PROVE OneRecordPerAddress'
  BY <1>19 DEF BeginStop, Begin, Exists
<1>20. ASSUME NEW i \in Instances, Halt(i) PROVE OneRecordPerAddress'
  BY <1>20 DEF Halt
<1>21. ASSUME NEW i \in Instances, Fail(i) PROVE OneRecordPerAddress'
  BY <1>21 DEF Fail, Finish
<1>22. ASSUME NEW i \in Instances, NEW a \in Addresses, BeginCreate(i, a) PROVE OneRecordPerAddress'
  BY <1>22 DEF BeginCreate, Begin
<1>23. ASSUME NEW i \in Instances, NEW a \in Addresses, BeginStart(i, a) PROVE OneRecordPerAddress'
  BY <1>23 DEF BeginStart, Begin, Exists
<1>24. ASSUME NEW i \in Instances, NEW a \in Addresses, BeginStatus(i, a) PROVE OneRecordPerAddress'
  BY <1>24 DEF BeginStatus, Begin
<1>25. ASSUME NEW i \in Instances, NEW a \in Addresses, NEW j \in Jobs, BeginHard(i, j, a) PROVE OneRecordPerAddress'
  BY <1>25 DEF BeginHard, Begin, Exists
<1>26. CASE Crash
  BY <1>26 DEF Crash, Idle
<1>27. CASE Reboot
  BY <1>27 DEF Reboot, Idle
<1>28. CASE UNCHANGED vars
  BY <1>28 DEF vars, host, saved, history, control
<1> QED
  BY <1>1, <1>2, <1>3, <1>4, <1>5, <1>6, <1>7, <1>8, <1>9, <1>10, <1>11, <1>12, <1>13, <1>14,
     <1>15, <1>16, <1>17, <1>18, <1>19, <1>20, <1>21, <1>22, <1>23, <1>24, <1>25, <1>26, <1>27, <1>28
  DEF Next, Step, Clean, Request

\* The record is written first and removed last.
LEMMA ResourcesStep == TypeOK /\ EnsureInv /\ CleanInv /\ ResourcesAreRecorded /\ [Next]_vars => ResourcesAreRecorded'
<1> SUFFICES ASSUME TypeOK, EnsureInv, CleanInv, ResourcesAreRecorded, [Next]_vars PROVE ResourcesAreRecorded'
  OBVIOUS
<1> USE NoneAssumption, InstancesAssumption, ForeignAssumption, BridgedAssumption
<1> USE DEF TypeOK, host, saved, history, control, Routed, ResourcesAreRecorded, EnsureInv, EnsureInvOf, CleanInv, NoLink, Ensuring, Cleaning, Recorded
<1>1. ASSUME NEW i \in Instances, NEW w \in Ways(i), Save(i, w) PROVE ResourcesAreRecorded'
  <2>1. /\ record' = [record EXCEPT ![i] = wanted[i]] /\ wanted[i] \in Addresses
        /\ way' = [way EXCEPT ![i] = w] /\ w \in Uplinks \cup {Bridged}
        /\ changed' = [changed EXCEPT ![i] = @ \/ (w = Bridged /\ bridge[i] # "absent")]
        /\ UNCHANGED <<spoof, bridge, route>>
    BY <1>1 DEF Save, Ways
  <2>2. CASE w \in Uplinks
    BY <2>1, <2>2
  <2>3. CASE w = Bridged
    <3>1. \A k \in Instances \ {i} :
              record'[k] = record[k] /\ way'[k] = way[k] /\ changed'[k] = changed[k]
      BY <2>1
    <3>2. bridge[i] # "absent" => changed'[i]
      <4>1. changed'[i] = (changed[i] \/ (w = Bridged /\ bridge[i] # "absent"))
        BY <2>1
      <4> QED BY <2>3, <4>1, Zenon
    <3>3. record'[i] # None
      BY <2>1
    <3> QED BY <2>1, <3>1, <3>2, <3>3
  <2> QED BY <2>1, <2>2, <2>3
<1>2. ASSUME NEW i \in Instances, NEW w \in Ways(i), Refuse(i, w) PROVE ResourcesAreRecorded'
  BY <1>2 DEF Refuse, Finish
<1>3. ASSUME NEW i \in Instances, Protect(i) PROVE ResourcesAreRecorded'
  BY <1>3 DEF Protect, Protected, Continue
<1>4. ASSUME NEW i \in Instances, AddBridge(i) PROVE ResourcesAreRecorded'
  BY <1>4 DEF AddBridge, Continue
<1>5. ASSUME NEW i \in Instances, NameBridge(i) PROVE ResourcesAreRecorded'
  BY <1>5 DEF NameBridge, Continue
<1>6. ASSUME NEW i \in Instances, AddRoute(i) PROVE ResourcesAreRecorded'
  BY <1>6 DEF AddRoute, Continue
<1>7. ASSUME NEW i \in Instances, AddProxy(i) PROVE ResourcesAreRecorded'
  BY <1>7 DEF AddProxy, Continue
<1>8. ASSUME NEW i \in Instances, NothingToClean(i) PROVE ResourcesAreRecorded'
  BY <1>8 DEF NothingToClean, Continue
<1>9. ASSUME NEW i \in Instances, RefuseCleanup(i) PROVE ResourcesAreRecorded'
  BY <1>9 DEF RefuseCleanup, Finish
<1>10. ASSUME NEW i \in Instances, DeleteRoute(i) PROVE ResourcesAreRecorded'
  BY <1>10 DEF DeleteRoute, Continue
<1>11. ASSUME NEW i \in Instances, DeleteProxy(i) PROVE ResourcesAreRecorded'
  BY <1>11 DEF DeleteProxy, Continue
<1>12. ASSUME NEW i \in Instances, DeleteBridge(i) PROVE ResourcesAreRecorded'
  BY <1>12 DEF DeleteBridge, Continue, WithoutRoutesOf
<1>13. ASSUME NEW i \in Instances, Unprotect(i) PROVE ResourcesAreRecorded'
  BY <1>13 DEF Unprotect, Continue
<1>14. ASSUME NEW i \in Instances, Forget(i) PROVE ResourcesAreRecorded'
  BY <1>14 DEF Forget, Continue
<1>15. ASSUME NEW i \in Instances, Ensured(i) PROVE ResourcesAreRecorded'
  BY <1>15 DEF Ensured, Finish
<1>16. ASSUME NEW i \in Instances, Cleaned(i) PROVE ResourcesAreRecorded'
  BY <1>16 DEF Cleaned, Continue, Finish
<1>17. ASSUME NEW i \in Instances, Disown(i) PROVE ResourcesAreRecorded'
  BY <1>17 DEF Disown, Finish
<1>18. ASSUME NEW i \in Instances, Launch(i) PROVE ResourcesAreRecorded'
  BY <1>18 DEF Launch
<1>19. ASSUME NEW i \in Instances, BeginStop(i) PROVE ResourcesAreRecorded'
  BY <1>19 DEF BeginStop, Begin, Exists
<1>20. ASSUME NEW i \in Instances, Halt(i) PROVE ResourcesAreRecorded'
  BY <1>20 DEF Halt
<1>21. ASSUME NEW i \in Instances, Fail(i) PROVE ResourcesAreRecorded'
  BY <1>21 DEF Fail, Finish
<1>22. ASSUME NEW i \in Instances, NEW a \in Addresses, BeginCreate(i, a) PROVE ResourcesAreRecorded'
  BY <1>22 DEF BeginCreate, Begin
<1>23. ASSUME NEW i \in Instances, NEW a \in Addresses, BeginStart(i, a) PROVE ResourcesAreRecorded'
  BY <1>23 DEF BeginStart, Begin, Exists
<1>24. ASSUME NEW i \in Instances, NEW a \in Addresses, BeginStatus(i, a) PROVE ResourcesAreRecorded'
  BY <1>24 DEF BeginStatus, Begin
<1>25. ASSUME NEW i \in Instances, NEW a \in Addresses, NEW j \in Jobs, BeginHard(i, j, a) PROVE ResourcesAreRecorded'
  BY <1>25 DEF BeginHard, Begin, Exists
<1>26. CASE Crash
  BY <1>26 DEF Crash, Idle
<1>27. CASE Reboot
  BY <1>27 DEF Reboot, Idle
<1>28. CASE UNCHANGED vars
  BY <1>28 DEF vars, host, saved, history, control
<1> QED
  BY <1>1, <1>2, <1>3, <1>4, <1>5, <1>6, <1>7, <1>8, <1>9, <1>10, <1>11, <1>12, <1>13, <1>14,
     <1>15, <1>16, <1>17, <1>18, <1>19, <1>20, <1>21, <1>22, <1>23, <1>24, <1>25, <1>26, <1>27, <1>28
  DEF Next, Step, Clean, Request

\* Once a clean up has removed the proxy entry of its address, nobody adds it again.
LEMMA ProxyStep ==
    TypeOK /\ EnsureInv /\ CleanInv /\ OneRecordPerAddress /\ ProxyInv /\ [Next]_vars => ProxyInv'
<1> SUFFICES ASSUME TypeOK, EnsureInv, CleanInv, OneRecordPerAddress, ProxyInv, [Next]_vars
             PROVE  ProxyInv'
  OBVIOUS
<1> USE NoneAssumption, InstancesAssumption, BridgedAssumption
<1> USE DEF TypeOK, host, saved, history, control, Routed, ProxyInv, OneRecordPerAddress, EnsureInv, EnsureInvOf,
        CleanInv, Ensuring, Cleaning, Recorded
<1>1. ASSUME NEW i \in Instances, NEW w \in Ways(i), Save(i, w) PROVE ProxyInv'
  BY <1>1 DEF Save, Ways, Continue
<1>2. ASSUME NEW i \in Instances, NEW w \in Ways(i), Refuse(i, w) PROVE ProxyInv'
  BY <1>2 DEF Refuse, Finish
<1>3. ASSUME NEW i \in Instances, Protect(i) PROVE ProxyInv'
  BY <1>3 DEF Protect, Protected, Continue
<1>4. ASSUME NEW i \in Instances, AddBridge(i) PROVE ProxyInv'
  BY <1>4 DEF AddBridge, Continue
<1>5. ASSUME NEW i \in Instances, NameBridge(i) PROVE ProxyInv'
  BY <1>5 DEF NameBridge, Continue
<1>6. ASSUME NEW i \in Instances, AddRoute(i) PROVE ProxyInv'
  BY <1>6 DEF AddRoute, Continue
<1>7. ASSUME NEW i \in Instances, AddProxy(i) PROVE ProxyInv'
  BY <1>7 DEF AddProxy, Continue
<1>8. ASSUME NEW i \in Instances, NothingToClean(i) PROVE ProxyInv'
  BY <1>8 DEF NothingToClean, Continue
<1>9. ASSUME NEW i \in Instances, RefuseCleanup(i) PROVE ProxyInv'
  BY <1>9 DEF RefuseCleanup, Finish
<1>10. ASSUME NEW i \in Instances, DeleteRoute(i) PROVE ProxyInv'
  BY <1>10 DEF DeleteRoute, Continue
<1>11. ASSUME NEW i \in Instances, DeleteProxy(i) PROVE ProxyInv'
  BY <1>11 DEF DeleteProxy, Continue
<1>12. ASSUME NEW i \in Instances, DeleteBridge(i) PROVE ProxyInv'
  BY <1>12 DEF DeleteBridge, Continue, WithoutRoutesOf
<1>13. ASSUME NEW i \in Instances, Unprotect(i) PROVE ProxyInv'
  BY <1>13 DEF Unprotect, Continue
<1>14. ASSUME NEW i \in Instances, Forget(i) PROVE ProxyInv'
  BY <1>14 DEF Forget, Continue
<1>15. ASSUME NEW i \in Instances, Ensured(i) PROVE ProxyInv'
  BY <1>15 DEF Ensured, Finish
<1>16. ASSUME NEW i \in Instances, Cleaned(i) PROVE ProxyInv'
  BY <1>16 DEF Cleaned, Continue, Finish
<1>17. ASSUME NEW i \in Instances, Disown(i) PROVE ProxyInv'
  BY <1>17 DEF Disown, Finish
<1>18. ASSUME NEW i \in Instances, Launch(i) PROVE ProxyInv'
  BY <1>18 DEF Launch
<1>19. ASSUME NEW i \in Instances, BeginStop(i) PROVE ProxyInv'
  BY <1>19 DEF BeginStop, Begin, Exists
<1>20. ASSUME NEW i \in Instances, Halt(i) PROVE ProxyInv'
  BY <1>20 DEF Halt
<1>21. ASSUME NEW i \in Instances, Fail(i) PROVE ProxyInv'
  BY <1>21 DEF Fail, Finish
<1>22. ASSUME NEW i \in Instances, NEW a \in Addresses, BeginCreate(i, a) PROVE ProxyInv'
  BY <1>22 DEF BeginCreate, Begin
<1>23. ASSUME NEW i \in Instances, NEW a \in Addresses, BeginStart(i, a) PROVE ProxyInv'
  BY <1>23 DEF BeginStart, Begin, Exists
<1>24. ASSUME NEW i \in Instances, NEW a \in Addresses, BeginStatus(i, a) PROVE ProxyInv'
  BY <1>24 DEF BeginStatus, Begin
<1>25. ASSUME NEW i \in Instances, NEW a \in Addresses, NEW j \in Jobs, BeginHard(i, j, a) PROVE ProxyInv'
  BY <1>25 DEF BeginHard, Begin, Exists
<1>26. CASE Crash
  BY <1>26 DEF Crash, Idle
<1>27. CASE Reboot
  BY <1>27 DEF Reboot, Idle
<1>28. CASE UNCHANGED vars
  BY <1>28 DEF vars, host, saved, history, control
<1> QED
  BY <1>1, <1>2, <1>3, <1>4, <1>5, <1>6, <1>7, <1>8, <1>9, <1>10, <1>11, <1>12, <1>13, <1>14,
     <1>15, <1>16, <1>17, <1>18, <1>19, <1>20, <1>21, <1>22, <1>23, <1>24, <1>25, <1>26, <1>27, <1>28
  DEF Next, Step, Clean, Request

\* Commands for one address leave those of the others alone.
LEMMA AppliedStep == TypeOK /\ EnsureInv /\ CleanInv /\ OneRecordPerAddress /\ AppliedIsInPlace /\ [Next]_vars => AppliedIsInPlace'
<1> SUFFICES ASSUME TypeOK, EnsureInv, CleanInv, OneRecordPerAddress, AppliedIsInPlace, [Next]_vars PROVE AppliedIsInPlace'
  OBVIOUS
<1> USE NoneAssumption, InstancesAssumption, ForeignAssumption, BridgedAssumption
<1> USE DEF TypeOK, host, saved, history, control, Routed, AppliedIsInPlace, OneRecordPerAddress, EnsureInv, EnsureInvOf, CleanInv, Ensuring, Cleaning, Recorded
<1>1. ASSUME NEW i \in Instances, NEW w \in Ways(i), Save(i, w) PROVE AppliedIsInPlace'
  BY <1>1 DEF Save, Ways, Continue
<1>2. ASSUME NEW i \in Instances, NEW w \in Ways(i), Refuse(i, w) PROVE AppliedIsInPlace'
  BY <1>2 DEF Refuse, Finish
<1>3. ASSUME NEW i \in Instances, Protect(i) PROVE AppliedIsInPlace'
  BY <1>3 DEF Protect, Protected, Continue
<1>4. ASSUME NEW i \in Instances, AddBridge(i) PROVE AppliedIsInPlace'
  BY <1>4 DEF AddBridge, Continue
<1>5. ASSUME NEW i \in Instances, NameBridge(i) PROVE AppliedIsInPlace'
  BY <1>5 DEF NameBridge, Continue
<1>6. ASSUME NEW i \in Instances, AddRoute(i) PROVE AppliedIsInPlace'
  BY <1>6 DEF AddRoute, Continue
<1>7. ASSUME NEW i \in Instances, AddProxy(i) PROVE AppliedIsInPlace'
  BY <1>7 DEF AddProxy, Continue
<1>8. ASSUME NEW i \in Instances, NothingToClean(i) PROVE AppliedIsInPlace'
  BY <1>8 DEF NothingToClean, Continue
<1>9. ASSUME NEW i \in Instances, RefuseCleanup(i) PROVE AppliedIsInPlace'
  BY <1>9 DEF RefuseCleanup, Finish
<1>10. ASSUME NEW i \in Instances, DeleteRoute(i) PROVE AppliedIsInPlace'
  BY <1>10 DEF DeleteRoute, Continue
<1>11. ASSUME NEW i \in Instances, DeleteProxy(i) PROVE AppliedIsInPlace'
  BY <1>11 DEF DeleteProxy, Continue
<1>12. ASSUME NEW i \in Instances, DeleteBridge(i) PROVE AppliedIsInPlace'
  BY <1>12 DEF DeleteBridge, Continue, WithoutRoutesOf
<1>13. ASSUME NEW i \in Instances, Unprotect(i) PROVE AppliedIsInPlace'
  BY <1>13 DEF Unprotect, Continue
<1>14. ASSUME NEW i \in Instances, Forget(i) PROVE AppliedIsInPlace'
  BY <1>14 DEF Forget, Continue
<1>15. ASSUME NEW i \in Instances, Ensured(i) PROVE AppliedIsInPlace'
  BY <1>15 DEF Ensured, Finish
<1>16. ASSUME NEW i \in Instances, Cleaned(i) PROVE AppliedIsInPlace'
  BY <1>16 DEF Cleaned, Continue, Finish
<1>17. ASSUME NEW i \in Instances, Disown(i) PROVE AppliedIsInPlace'
  BY <1>17 DEF Disown, Finish
<1>18. ASSUME NEW i \in Instances, Launch(i) PROVE AppliedIsInPlace'
  BY <1>18 DEF Launch
<1>19. ASSUME NEW i \in Instances, BeginStop(i) PROVE AppliedIsInPlace'
  BY <1>19 DEF BeginStop, Begin, Exists
<1>20. ASSUME NEW i \in Instances, Halt(i) PROVE AppliedIsInPlace'
  BY <1>20 DEF Halt
<1>21. ASSUME NEW i \in Instances, Fail(i) PROVE AppliedIsInPlace'
  BY <1>21 DEF Fail, Finish
<1>22. ASSUME NEW i \in Instances, NEW a \in Addresses, BeginCreate(i, a) PROVE AppliedIsInPlace'
  BY <1>22 DEF BeginCreate, Begin
<1>23. ASSUME NEW i \in Instances, NEW a \in Addresses, BeginStart(i, a) PROVE AppliedIsInPlace'
  BY <1>23 DEF BeginStart, Begin, Exists
<1>24. ASSUME NEW i \in Instances, NEW a \in Addresses, BeginStatus(i, a) PROVE AppliedIsInPlace'
  BY <1>24 DEF BeginStatus, Begin
<1>25. ASSUME NEW i \in Instances, NEW a \in Addresses, NEW j \in Jobs, BeginHard(i, j, a) PROVE AppliedIsInPlace'
  BY <1>25 DEF BeginHard, Begin, Exists
<1>26. CASE Crash
  BY <1>26 DEF Crash, Idle
<1>27. CASE Reboot
  BY <1>27 DEF Reboot, Idle
<1>28. CASE UNCHANGED vars
  BY <1>28 DEF vars, host, saved, history, control
<1> QED
  BY <1>1, <1>2, <1>3, <1>4, <1>5, <1>6, <1>7, <1>8, <1>9, <1>10, <1>11, <1>12, <1>13, <1>14,
     <1>15, <1>16, <1>17, <1>18, <1>19, <1>20, <1>21, <1>22, <1>23, <1>24, <1>25, <1>26, <1>27, <1>28
  DEF Next, Step, Clean, Request

-----------------------------------------------------------------------------
(* Theorems.                                                               *)

LEMMA InitInv == Init => NetworkInv
<1> SUFFICES ASSUME Init PROVE NetworkInv
  OBVIOUS
<1> USE NoneAssumption, InstancesAssumption, ForeignAssumption, FaultsAssumption
<1> USE DEF Init
<1>1. TypeOK
  BY DEF TypeOK, Jobs, Phases
<1>2. Exclusion /\ EnsureInv
  BY DEF Exclusion, Holds, EnsureInv, EnsureInvOf, Ensuring, Cleaning, Recorded
<1>3. CleanInv /\ RunningInv
  BY DEF CleanInv, RunningInv, NoLink, Cleaning, Instances
<1>4. OneRecordPerAddress /\ ResourcesAreRecorded /\ AppliedIsInPlace
  BY DEF OneRecordPerAddress, ResourcesAreRecorded, AppliedIsInPlace, Instances
<1> QED BY <1>1, <1>2, <1>3, <1>4 DEF NetworkInv

\* The inductive invariant: what every operation has done by each of its phases.
THEOREM NetworkInvariant == Spec => []NetworkInv
<1>1. NetworkInv /\ [Next]_vars => NetworkInv'
  BY TypeStep, ExclusionStep, EnsureStep, CleanStep, RunningStep, RecordStep,
     ResourcesStep, AppliedStep
  DEF NetworkInv
<1> QED BY <1>1, InitInv, PTL DEF Spec

\* Every state of the model is well typed.
THEOREM TypeCorrect == Spec => []TypeOK
<1>1. NetworkInv => TypeOK
  BY DEF NetworkInv
<1> QED BY <1>1, NetworkInvariant, PTL

\* saveDedicatedRecord keeps an address for one instance of either driver.
THEOREM AddressesAreReserved == Spec => []OneRecordPerAddress
<1>1. NetworkInv => OneRecordPerAddress
  BY DEF NetworkInv
<1> QED BY <1>1, NetworkInvariant, PTL

\* What is on the host for an instance can be found by its record, but for the bridge of one
\* that has become a bridged one.
THEOREM NothingIsForgotten == Spec => []ResourcesAreRecorded
<1>1. NetworkInv => ResourcesAreRecorded
  BY DEF NetworkInv
<1> QED BY <1>1, NetworkInvariant, PTL

\* What an ensure has set up stays until its own instance undoes it.
THEOREM AppliedStays == Spec => []AppliedIsInPlace
<1>1. NetworkInv => AppliedIsInPlace
  BY DEF NetworkInv
<1> QED BY <1>1, NetworkInvariant, PTL

\* No QEMU guest runs without its chain.
THEOREM GuestsAreProtected == Spec => []RunningIsProtected
<1>1. NetworkInv => RunningIsProtected
  BY DEF NetworkInv, RunningInv, RunningIsProtected
<1> QED BY <1>1, NetworkInvariant, PTL

\* An existing route is only removed, and by its own instance: it is never replaced.
THEOREM RoutesStay == Spec => RoutesAreNotTakenOver
<1>1. NetworkInv /\ [Next]_vars =>
        [\A a \in Addresses : route'[a] # route[a] => None \in {route[a], route'[a]}]_vars
  <2> SUFFICES ASSUME NetworkInv, Next, NEW a \in Addresses, route'[a] # route[a]
               PROVE  None \in {route[a], route'[a]}
    OBVIOUS
  <2> USE DEF NetworkInv, TypeOK
  <2>1. ASSUME NEW i \in Instances, AddRoute(i) PROVE None \in {route[a], route'[a]}
    <3>1. route[wanted[i]] \in {None, i} /\ wanted[i] \in Addresses
      BY <2>1 DEF AddRoute, EnsureInv, EnsureInvOf, Ensuring, Recorded
    <3>2. route' = [route EXCEPT ![wanted[i]] = i]
      BY <2>1 DEF AddRoute
    <3> QED BY <3>1, <3>2
  <2>2. ASSUME NEW i \in Instances, DeleteRoute(i) \/ DeleteBridge(i)
        PROVE  None \in {route[a], route'[a]}
    BY <2>2 DEF DeleteRoute, DeleteBridge, WithoutRoutesOf
  <2>3. CASE Reboot
    BY <2>3 DEF Reboot
  <2>4. ASSUME NEW i \in Instances, Step(i) \/ Request(i) \/ Halt(i) \/ Fail(i),
               ~AddRoute(i), ~DeleteRoute(i), ~DeleteBridge(i)
        PROVE  route' = route
    BY <2>4
    DEF Step, Clean, Request, host, saved, history, Save, Refuse, Protect, AddBridge, NameBridge, AddProxy,
        NothingToClean, RefuseCleanup, DeleteProxy, Unprotect, Forget, Ensured, Cleaned,
        Disown, Launch, BeginStop, Halt, Fail, BeginCreate, BeginStart, BeginStatus, BeginHard
  <2>5. CASE Crash
    BY <2>5 DEF Crash, host
  <2> QED BY <2>1, <2>2, <2>3, <2>4, <2>5 DEF Next
<1> QED BY <1>1, NetworkInvariant, PTL DEF Spec, RoutesAreNotTakenOver

\* No record of a routed guest goes before the proxy entry of its address on its uplink
\* (cleanupDedicated), whatever modes and uplinks it has had before.
THEOREM ProxiesGoFirst == Spec => ProxyGoesWithRecord
<1> DEFINE A == \A i \in Instances :
                    Routed(i) /\ record'[i] = None => <<record[i], way[i]>> \notin proxy'
<1>1. Init => ProxyInv
  BY DEF Init, ProxyInv, Routed
<1>2. NetworkInv /\ ProxyInv /\ [Next]_vars => ProxyInv'
  BY ProxyStep DEF NetworkInv
<1>3. NetworkInv /\ ProxyInv /\ [Next]_vars => [A]_vars
  <2> SUFFICES ASSUME NetworkInv, ProxyInv, Next, NEW k \in Instances,
                      Routed(k), record'[k] = None
               PROVE  <<record[k], way[k]>> \notin proxy'
    OBVIOUS
  <2>0. record[k] # None
    BY NoneAssumption DEF NetworkInv, CleanInv, Routed
  <2> USE <2>0, NoneAssumption DEF NetworkInv, TypeOK, saved
  <2>1. ASSUME NEW i \in Instances, Forget(i) PROVE <<record[k], way[k]>> \notin proxy'
    BY <2>1 DEF Forget, host, ProxyInv
  <2>2. ASSUME NEW i \in Instances, NEW w \in Ways(i), Save(i, w) PROVE FALSE
    BY <2>2 DEF Save, EnsureInv, EnsureInvOf
  <2>3. ASSUME NEW i \in Instances, Step(i) \/ Request(i) \/ Halt(i) \/ Fail(i),
               ~Forget(i), \A w \in Ways(i) : ~Save(i, w)
        PROVE  FALSE
    BY <2>3
    DEF Step, Clean, Request, Refuse, Protect, AddBridge, NameBridge, AddRoute, AddProxy,
        NothingToClean, RefuseCleanup, DeleteRoute, DeleteProxy, DeleteBridge, Unprotect,
        Ensured, Cleaned, Disown, Launch, BeginStop, Halt, Fail, BeginCreate, BeginStart,
        BeginStatus, BeginHard
  <2>4. CASE Crash \/ Reboot
    BY <2>4 DEF Crash, Reboot
  <2> QED BY <2>1, <2>2, <2>3, <2>4 DEF Next
<1> QED BY <1>1, <1>2, <1>3, NetworkInvariant, PTL DEF Spec, ProxyGoesWithRecord

-----------------------------------------------------------------------------
(* The promise of AddressPool.                                             *)

Uses(i, a) == spoof[i] = a \/ (route[a] = i /\ ~changed[i])

\* What changes the use an instance makes of its own address, or ends the use of any other,
\* is a Use of the pool.
LEMMA UseRefines ==
    ASSUME TypeOK, NEW i \in Instances, record[i] # None, UNCHANGED record,
           \A j \in Instances \ {i} : \A a \in Addresses : Uses(j, a)' <=> Uses(j, a),
           \A a \in Addresses : Uses(i, a)' => Uses(i, a) \/ a = record[i]
    PROVE  Pool!Next
<1>1. InUse \ Pool!Mine(i) \subseteq InUse'
  BY DEF InUse, Pool!Mine, Uses
<1>2. InUse' \subseteq InUse \cup {<<i, record[i]>>}
  BY DEF InUse, Uses
<1>3. Pool!Use(i)
  BY <1>1, <1>2 DEF Pool!Use
<1> QED BY <1>3 DEF Pool!Next

\* Every step claims, sets up, undoes or forgets as the pool does, or does none of that.
LEMMA StepRefines == NetworkInv /\ [Next]_vars => [Pool!Next]_(Pool!vars)
<1> SUFFICES ASSUME NetworkInv, [Next]_vars PROVE Pool!Next \/ UNCHANGED Pool!vars
  OBVIOUS
<1> USE NoneAssumption DEF NetworkInv, TypeOK, saved, history
<1>0. ASSUME UNCHANGED <<record, spoof, route, changed>> PROVE UNCHANGED Pool!vars
  BY <1>0 DEF Pool!vars, InUse
<1>1. ASSUME NEW i \in Instances, NEW w \in Ways(i), Save(i, w) PROVE Pool!Next
  <2>1. wanted[i] \in Addresses /\ \A j \in Instances \ {i} : record[j] # wanted[i]
    BY <1>1 DEF Save, Reserved, EnsureInv, EnsureInvOf
  <2>2. Pool!Claim(i, wanted[i])
    BY <1>1, <2>1 DEF Save, host, Pool!Claim, Pool!Mine, InUse
  <2> QED BY <2>1, <2>2 DEF Pool!Next
<1>2. ASSUME NEW i \in Instances, Protect(i) PROVE Pool!Next
  <2>1. record[i] = wanted[i] /\ record[i] # None
    BY <1>2 DEF Protect, EnsureInv, EnsureInvOf, Recorded, Ensuring
  <2> QED BY <1>2, <2>1, UseRefines DEF Protect, Protected, Uses
<1>3. ASSUME NEW i \in Instances, AddRoute(i) PROVE Pool!Next
  <2>1. /\ record[i] = wanted[i] /\ record[i] # None /\ wanted[i] \in Addresses
        /\ route[wanted[i]] \in {None, i}
    BY <1>3 DEF AddRoute, EnsureInv, EnsureInvOf, Recorded, Ensuring
  <2> QED BY <1>3, <2>1, UseRefines DEF AddRoute, Uses
<1>4. ASSUME NEW i \in Instances, DeleteRoute(i) PROVE Pool!Next
  BY <1>4, UseRefines DEF DeleteRoute, Uses
<1>5. ASSUME NEW i \in Instances, DeleteBridge(i) PROVE Pool!Next
  <2>1. record[i] # None
    BY <1>5 DEF DeleteBridge, CleanInv, Cleaning
  <2> QED BY <1>5, <2>1, UseRefines DEF DeleteBridge, WithoutRoutesOf, Uses
<1>6. ASSUME NEW i \in Instances, Unprotect(i) PROVE Pool!Next
  <2>1. record[i] # None
    BY <1>6 DEF Unprotect, CleanInv, Cleaning
  <2> QED BY <1>6, <2>1, UseRefines DEF Unprotect, Uses
<1>7. ASSUME NEW i \in Instances, Forget(i) PROVE Pool!Next
  <2>1. spoof[i] = None /\ (changed[i] \/ \A a \in Addresses : route[a] # i)
    BY <1>7 DEF Forget, CleanInv, NoLink
  <2>2. Pool!Mine(i) = {}
    BY <2>1 DEF Pool!Mine, InUse
  <2>3. Pool!Release(i)
    BY <1>7, <2>2 DEF Forget, host, InUse, Pool!Release
  <2> QED BY <2>3 DEF Pool!Next
<1>8. CASE Reboot
  <2>1. InUse' = {}
    BY <1>8, ForeignAssumption DEF Reboot, InUse
  <2> QED BY <1>8, <2>1 DEF Reboot, Pool!Restart, Pool!Next
<1>9. ASSUME NEW i \in Instances,
             \/ \E w \in Ways(i) : Refuse(i, w)
             \/ AddBridge(i) \/ NameBridge(i) \/ AddProxy(i)
             \/ NothingToClean(i) \/ RefuseCleanup(i) \/ DeleteProxy(i)
             \/ Ensured(i) \/ Cleaned(i) \/ Disown(i) \/ Request(i) \/ Halt(i) \/ Fail(i)
      PROVE  UNCHANGED Pool!vars
  BY <1>0, <1>9
  DEF host, Refuse, AddBridge, NameBridge, AddProxy, NothingToClean, RefuseCleanup,
      DeleteProxy, Ensured, Cleaned, Disown, Request, Launch, BeginStop, BeginCreate,
      BeginStart, BeginStatus, BeginHard, Halt, Fail
<1>10. CASE Crash \/ UNCHANGED vars
  BY <1>0, <1>10 DEF Crash, host, vars
<1> QED BY <1>1, <1>2, <1>3, <1>4, <1>5, <1>6, <1>7, <1>8, <1>9, <1>10 DEF Next, Step, Clean

\* The records, chains and routes of dedicated networks implement the pool, across failures,
\* crashes, reboots and moves, and with both drivers at work.
THEOREM NetworkImplementsPool == Spec => ImplementsPool
<1>1. Init => Pool!Init
  BY NoneAssumption, ForeignAssumption DEF Init, Pool!Init, InUse
<1>2. Spec => [][Pool!Next]_(Pool!vars)
  BY StepRefines, NetworkInvariant, PTL DEF Spec
<1> QED BY <1>1, <1>2 DEF Spec, ImplementsPool, Pool!Spec
=============================================================================
