--------------------------- MODULE DiskQuota_proofs ---------------------------
(***************************************************************************)
(* Proofs about the root disk, for any pools, sizes and failures.  What    *)
(* must be added to the invariants is what an operation has checked by     *)
(* each of its phases, and that the master's size bounds what the profile  *)
(* says and is within the instance's own pool.                             *)
(***************************************************************************)
EXTENDS DiskQuota, TLAPS

\* The phases of ensureProfile.
Ensuring == {"profile", "pool", "add", "ready"}

\* Which operation is in which phase.
ControlInv ==
    /\ phase = "idle" => job = "none"
    /\ phase \in Ensuring => job \in {"create", "import", "configure", "start", "reinstall"}
    /\ phase = "launched" => job \in {"create", "import", "reinstall"} /\ volume # None
    /\ phase \in {"remove", "unprofile", "unpool"} => job \in {"delete", "reinstall"}
    /\ phase \in {"unprofile", "unpool"} => volume = None
    /\ phase \in {"grow", "put"} => job = "resize" /\ volume # None
    /\ job \in {"create", "import"} => owned = None
    /\ job \in {"delete", "reinstall"} => owned # None
    /\ job = "import" => device = None

\* What is known of the pools.
PoolInv ==
    /\ volume = None => device = None
    /\ volume = Own => own > 0
    /\ phase = "add" => pool # None /\ (size > 0 => SupportsQuota(pool))
    /\ limit > 0 /\ ~unseen => SupportsQuota(root)

\* A resize has compared the sizes.
ResizeInv ==
    phase \in {"grow", "put"} =>
        /\ Quota > 0 /\ size >= Quota /\ size >= wish
        /\ size > Quota => SupportsQuota(RootPool)
        /\ phase = "grow" => RootPool = Own /\ size > own

\* What follows the master does not exceed what it knows.
MasterInv ==
    ~astray =>
        /\ limit <= wish
        /\ job \notin {"none", "delete", "resize"} => size = wish

\* A pool that the next guest may get, and not one that a delete has to drop first.
Awaits ==
    \/ volume = None /\ owned = None
    \/ volume = None /\ job = "reinstall" /\ phase \in Ensuring
    \/ job = "import"

RoomInv ==
    ~astray /\ ~leftover =>
        /\ volume = Own => own >= Quota /\ own >= wish
        /\ volume = Own /\ phase = "put" => own >= size
        /\ Awaits => own = 0 \/ own >= wish

DiskInv ==
    /\ TypeOK /\ ControlInv /\ PoolInv /\ ResizeInv /\ MasterInv /\ RoomInv
    /\ RootStays /\ QuotaIsEffective

-----------------------------------------------------------------------------
(* Steps.                                                                  *)

\* An operation that ends with an error keeps the types of what it goes by and gives back.
LEMMA AbortType ==
    ASSUME TypeOK, Abort
    PROVE  /\ job' \in Jobs /\ phase' \in Phases /\ size' \in Limits /\ pool' = None
           /\ profile' \in BOOLEAN
           /\ root' \in Pools \cup {Lost, None} /\ limit' \in Limits
           /\ volume' \in Pools \cup {None}
           /\ UNCHANGED <<device, grown>>
<1>1. job' = "none" /\ phase' = "idle" /\ size' = 0 /\ pool' = None
  BY DEF Abort, Finish
<1>2. CASE job = "import"
  <2>1. profile' = FALSE /\ root' = None /\ limit' = 0 /\ volume' = None
        /\ UNCHANGED <<device, grown>>
    BY <1>2 DEF Abort
  <2> QED BY <1>1, <2>1 DEF Jobs, Phases, Limits
<1>3. CASE job # "import"
  <2>1. UNCHANGED devices
    BY <1>3 DEF Abort
  <2> QED BY <1>1, <2>1 DEF devices, Jobs, Phases, Limits, TypeOK
<1> QED BY <1>2, <1>3

\* Types: a root that is put somewhere is on a pool that there is.
LEMMA TypeStep == DiskInv /\ [Next]_vars => TypeOK'
<1> SUFFICES ASSUME DiskInv, [Next]_vars PROVE TypeOK'
  OBVIOUS
<1> USE PoolsAssumption, SizesAssumption, FaultsAssumption
<1> USE DEF DiskInv, TypeOK, ControlInv, PoolInv, RootStays, Jobs, Phases, Shared, Pools,
         Limits, SupportsQuota, PoolExists, Existing, RootPool, Quota, Known, host, devices, sizes,
         control, past, history, Ensuring
<1>1. ASSUME BeginCreate PROVE TypeOK'
  BY <1>1 DEF BeginCreate, Begin
<1>2. ASSUME BeginDelete PROVE TypeOK'
  BY <1>2 DEF BeginDelete, Begin
<1>3. ASSUME Observe PROVE TypeOK'
  BY <1>3 DEF Observe
<1>4. ASSUME NEW s \in Known, BeginConfigure(s) PROVE TypeOK'
  BY <1>4 DEF BeginConfigure, Begin, GoBy
<1>5. ASSUME NEW s \in Known, BeginReinstall(s) PROVE TypeOK'
  BY <1>5 DEF BeginReinstall, Begin, GoBy
<1>6. ASSUME NEW s \in Sizes, BeginResize(s) PROVE TypeOK'
  BY <1>6 DEF BeginResize, Begin
<1>7. ASSUME KeepRoot PROVE TypeOK'
  BY <1>7 DEF KeepRoot, SetLimit, Continue
<1>8. ASSUME KeepRootUnseen PROVE TypeOK'
  BY <1>8 DEF KeepRootUnseen, SetLimit, Continue, Fault
<1>9. ASSUME RefuseRoot PROVE TypeOK'
  BY <1>9, AbortType DEF RefuseRoot
<1>10. ASSUME ReplaceRoot PROVE TypeOK'
  BY <1>10 DEF ReplaceRoot, RemoveDevice, Continue, Fault
<1>11. ASSUME NewRoot PROVE TypeOK'
  BY <1>11 DEF NewRoot, Continue
<1>12. ASSUME ChooseOwn PROVE TypeOK'
  BY <1>12 DEF ChooseOwn, Choose
<1>13. ASSUME ChooseShared PROVE TypeOK'
  BY <1>13 DEF ChooseShared, NeedsShared, Selectable, Choose, Fault
<1>14. ASSUME MakeDefault PROVE TypeOK'
  BY <1>14 DEF MakeDefault, NeedsShared, Choose, Fault
<1>15. ASSUME RefusePool PROVE TypeOK'
  BY <1>15, AbortType DEF RefusePool, NeedsShared, Fault
<1>16. ASSUME AddRoot PROVE TypeOK'
  BY <1>16 DEF AddRoot, Continue
<1>17. ASSUME RefuseAdd PROVE TypeOK'
  BY <1>17, AbortType DEF RefuseAdd
<1>18. ASSUME Launch PROVE TypeOK'
  BY <1>18 DEF Launch, Continue
<1>19. ASSUME Refuse PROVE TypeOK'
  BY <1>19, AbortType DEF Refuse
<1>20. ASSUME Register PROVE TypeOK'
  BY <1>20 DEF Register, Finish
<1>21. ASSUME Configured PROVE TypeOK'
  BY <1>21 DEF Configured, Finish
<1>22. ASSUME GrowPool PROVE TypeOK'
  BY <1>22 DEF GrowPool, Continue
<1>23. ASSUME PutDevice PROVE TypeOK'
  BY <1>23 DEF PutDevice, Resized, Finish
<1>24. ASSUME RemoveGuest PROVE TypeOK'
  BY <1>24 DEF RemoveGuest, Continue
<1>25. ASSUME DropProfile PROVE TypeOK'
  <2>1. faults' \in 0..MaxFaults
    BY <1>25 DEF DropProfile, Fault
  <2>2. profile' \in BOOLEAN /\ root' \in {root, None} /\ limit' \in {limit, 0}
    BY <1>25 DEF DropProfile
  <2>3. phase' = "unpool" /\ UNCHANGED <<job, size, pool>>
    BY <1>25 DEF DropProfile, Continue
  <2>4. UNCHANGED <<host, device, grown, volume, sizes, past>>
    BY <1>25 DEF DropProfile
  <2> QED BY <2>1, <2>2, <2>3, <2>4
<1>26. ASSUME DropPool PROVE TypeOK'
  BY <1>26 DEF DropPool, Deleted, Continue, Finish, Fault
<1>27. ASSUME Fail PROVE TypeOK'
  BY <1>27, AbortType DEF Fail, Fault
<1>28. ASSUME Crash PROVE TypeOK'
  BY <1>28 DEF Crash, Finish, Fault
<1>29. ASSUME OtherPool PROVE TypeOK'
  BY <1>29 DEF OtherPool
<1>30. ASSUME OtherRoot PROVE TypeOK'
  BY <1>30 DEF OtherRoot
<1>31. CASE UNCHANGED vars
  BY <1>31 DEF vars
<1> QED BY <1>1, <1>2, <1>3, <1>4, <1>5, <1>6, <1>7, <1>8, <1>9, <1>10, <1>11, <1>12, <1>13,
     <1>14, <1>15, <1>16, <1>17, <1>18, <1>19, <1>20, <1>21, <1>22, <1>23, <1>24, <1>25,
     <1>26, <1>27, <1>28, <1>29, <1>30, <1>31 DEF Next, Request, EnsureProfile, Step

\* Which operation is in which phase.
LEMMA ControlStep == DiskInv /\ [Next]_vars => ControlInv'
<1> SUFFICES ASSUME DiskInv, [Next]_vars PROVE ControlInv'
  OBVIOUS
<1> USE PoolsAssumption DEF Shared, Pools, PoolExists, Existing, DiskInv, TypeOK, PoolInv, ControlInv,
         Ensuring, host, devices, sizes, control, past, history
<1>1. ASSUME BeginCreate PROVE ControlInv'
  BY <1>1 DEF BeginCreate, Begin
<1>2. ASSUME BeginDelete PROVE ControlInv'
  BY <1>2 DEF BeginDelete, Begin
<1>3. ASSUME Observe PROVE ControlInv'
  BY <1>3 DEF Observe
<1>4. ASSUME NEW s \in Known, BeginConfigure(s) PROVE ControlInv'
  BY <1>4 DEF BeginConfigure, Begin, GoBy
<1>5. ASSUME NEW s \in Known, BeginReinstall(s) PROVE ControlInv'
  BY <1>5 DEF BeginReinstall, Begin, GoBy
<1>6. ASSUME NEW s \in Sizes, BeginResize(s) PROVE ControlInv'
  BY <1>6 DEF BeginResize, Begin
<1>7. ASSUME KeepRoot PROVE ControlInv'
  BY <1>7 DEF KeepRoot, SetLimit, Continue
<1>8. ASSUME KeepRootUnseen PROVE ControlInv'
  BY <1>8 DEF KeepRootUnseen, SetLimit, Continue, Fault
<1>9. ASSUME RefuseRoot PROVE ControlInv'
  BY <1>9 DEF RefuseRoot, Abort, Finish
<1>10. ASSUME ReplaceRoot PROVE ControlInv'
  BY <1>10 DEF ReplaceRoot, RemoveDevice, Continue, Fault
<1>11. ASSUME NewRoot PROVE ControlInv'
  BY <1>11 DEF NewRoot, Continue
<1>12. ASSUME ChooseOwn PROVE ControlInv'
  BY <1>12 DEF ChooseOwn, Choose
<1>13. ASSUME ChooseShared PROVE ControlInv'
  BY <1>13 DEF ChooseShared, NeedsShared, Selectable, Choose, Fault
<1>14. ASSUME MakeDefault PROVE ControlInv'
  BY <1>14 DEF MakeDefault, NeedsShared, Choose, Fault
<1>15. ASSUME RefusePool PROVE ControlInv'
  BY <1>15 DEF RefusePool, NeedsShared, Abort, Finish, Fault
<1>16. ASSUME AddRoot PROVE ControlInv'
  BY <1>16 DEF AddRoot, Continue
<1>17. ASSUME RefuseAdd PROVE ControlInv'
  BY <1>17 DEF RefuseAdd, Abort, Finish
<1>18. ASSUME Launch PROVE ControlInv'
  BY <1>18 DEF Launch, Continue
<1>19. ASSUME Refuse PROVE ControlInv'
  BY <1>19 DEF Refuse, Abort, Finish
<1>20. ASSUME Register PROVE ControlInv'
  BY <1>20 DEF Register, Finish
<1>21. ASSUME Configured PROVE ControlInv'
  BY <1>21 DEF Configured, Finish
<1>22. ASSUME GrowPool PROVE ControlInv'
  BY <1>22 DEF GrowPool, Continue
<1>23. ASSUME PutDevice PROVE ControlInv'
  BY <1>23 DEF PutDevice, Resized, Finish
<1>24. ASSUME RemoveGuest PROVE ControlInv'
  BY <1>24 DEF RemoveGuest, Continue
<1>25. ASSUME DropProfile PROVE ControlInv'
  BY <1>25 DEF DropProfile, Continue, Fault
<1>26. ASSUME DropPool PROVE ControlInv'
  BY <1>26 DEF DropPool, Deleted, Continue, Finish, Fault
<1>27. ASSUME Fail PROVE ControlInv'
  BY <1>27 DEF Fail, Abort, Finish, Fault
<1>28. ASSUME Crash PROVE ControlInv'
  BY <1>28 DEF Crash, Finish, Fault
<1>29. ASSUME OtherPool PROVE ControlInv'
  BY <1>29 DEF OtherPool
<1>30. ASSUME OtherRoot PROVE ControlInv'
  BY <1>30 DEF OtherRoot
<1>31. CASE UNCHANGED vars
  BY <1>31 DEF vars
<1> QED BY <1>1, <1>2, <1>3, <1>4, <1>5, <1>6, <1>7, <1>8, <1>9, <1>10, <1>11, <1>12, <1>13,
     <1>14, <1>15, <1>16, <1>17, <1>18, <1>19, <1>20, <1>21, <1>22, <1>23, <1>24, <1>25,
     <1>26, <1>27, <1>28, <1>29, <1>30, <1>31 DEF Next, Request, EnsureProfile, Step

\* Pools: a pool is chosen for its driver, and nothing but a delete drops it.
LEMMA PoolStep == DiskInv /\ [Next]_vars => PoolInv'
<1> SUFFICES ASSUME DiskInv, [Next]_vars PROVE PoolInv'
  OBVIOUS
<1> USE PoolsAssumption, SizesAssumption
<1> USE DEF DiskInv, TypeOK, ControlInv, PoolInv, ResizeInv, RootStays, Ensuring, Shared,
         Pools, Limits, SupportsQuota, PoolExists, Existing, RootPool, Quota, Known, WantsOwn, host,
         devices, sizes, control, past, history
<1>1. ASSUME BeginCreate PROVE PoolInv'
  BY <1>1 DEF BeginCreate, Begin
<1>2. ASSUME BeginDelete PROVE PoolInv'
  BY <1>2 DEF BeginDelete, Begin
<1>3. ASSUME Observe PROVE PoolInv'
  BY <1>3 DEF Observe
<1>4. ASSUME NEW s \in Known, BeginConfigure(s) PROVE PoolInv'
  BY <1>4 DEF BeginConfigure, Begin, GoBy
<1>5. ASSUME NEW s \in Known, BeginReinstall(s) PROVE PoolInv'
  BY <1>5 DEF BeginReinstall, Begin, GoBy
<1>6. ASSUME NEW s \in Sizes, BeginResize(s) PROVE PoolInv'
  BY <1>6 DEF BeginResize, Begin
<1>7. ASSUME KeepRoot PROVE PoolInv'
  BY <1>7 DEF KeepRoot, SetLimit, Continue
<1>8. ASSUME KeepRootUnseen PROVE PoolInv'
  BY <1>8 DEF KeepRootUnseen, SetLimit, Continue, Fault
<1>9. ASSUME RefuseRoot PROVE PoolInv'
  BY <1>9 DEF RefuseRoot, Abort, Finish
<1>10. ASSUME ReplaceRoot PROVE PoolInv'
  BY <1>10 DEF ReplaceRoot, RemoveDevice, Continue, Fault
<1>11. ASSUME NewRoot PROVE PoolInv'
  BY <1>11 DEF NewRoot, Continue
<1>12. ASSUME ChooseOwn PROVE PoolInv'
  BY <1>12 DEF ChooseOwn, Choose
<1>13. ASSUME ChooseShared PROVE PoolInv'
  BY <1>13 DEF ChooseShared, NeedsShared, Selectable, Choose, Fault
<1>14. ASSUME MakeDefault PROVE PoolInv'
  BY <1>14 DEF MakeDefault, NeedsShared, Choose, Fault
<1>15. ASSUME RefusePool PROVE PoolInv'
  BY <1>15 DEF RefusePool, NeedsShared, Abort, Finish, Fault
<1>16. ASSUME AddRoot PROVE PoolInv'
  BY <1>16 DEF AddRoot, Continue
<1>17. ASSUME RefuseAdd PROVE PoolInv'
  BY <1>17 DEF RefuseAdd, Abort, Finish
<1>18. ASSUME Launch PROVE PoolInv'
  BY <1>18 DEF Launch, Continue
<1>19. ASSUME Refuse PROVE PoolInv'
  BY <1>19 DEF Refuse, Abort, Finish
<1>20. ASSUME Register PROVE PoolInv'
  BY <1>20 DEF Register, Finish
<1>21. ASSUME Configured PROVE PoolInv'
  BY <1>21 DEF Configured, Finish
<1>22. ASSUME GrowPool PROVE PoolInv'
  BY <1>22 DEF GrowPool, Continue
<1>23. ASSUME PutDevice PROVE PoolInv'
  BY <1>23 DEF PutDevice, Resized, Finish
<1>24. ASSUME RemoveGuest PROVE PoolInv'
  BY <1>24 DEF RemoveGuest, Continue
<1>25. ASSUME DropProfile PROVE PoolInv'
  BY <1>25 DEF DropProfile, Continue, Fault
<1>26. ASSUME DropPool PROVE PoolInv'
  BY <1>26 DEF DropPool, Deleted, Continue, Finish, Fault
<1>27. ASSUME Fail PROVE PoolInv'
  BY <1>27 DEF Fail, Abort, Finish, Fault
<1>28. ASSUME Crash PROVE PoolInv'
  BY <1>28 DEF Crash, Finish, Fault
<1>29. ASSUME OtherPool PROVE PoolInv'
  BY <1>29 DEF OtherPool
<1>30. ASSUME OtherRoot PROVE PoolInv'
  BY <1>30 DEF OtherRoot
<1>31. CASE UNCHANGED vars
  BY <1>31 DEF vars
<1> QED BY <1>1, <1>2, <1>3, <1>4, <1>5, <1>6, <1>7, <1>8, <1>9, <1>10, <1>11, <1>12, <1>13,
     <1>14, <1>15, <1>16, <1>17, <1>18, <1>19, <1>20, <1>21, <1>22, <1>23, <1>24, <1>25,
     <1>26, <1>27, <1>28, <1>29, <1>30, <1>31 DEF Next, Request, EnsureProfile, Step

\* Nothing comes between the comparison of the sizes and the change of the device.
LEMMA ResizeStep == DiskInv /\ [Next]_vars => ResizeInv'
<1> SUFFICES ASSUME DiskInv, [Next]_vars PROVE ResizeInv'
  OBVIOUS
<1> USE PoolsAssumption, SizesAssumption
<1> USE DEF DiskInv, TypeOK, ControlInv, ResizeInv, Ensuring, Shared, Pools, Limits,
         SupportsQuota, PoolExists, Existing, RootPool, Quota, Known, host, devices, sizes, control,
         past, history
<1>1. ASSUME BeginCreate PROVE ResizeInv'
  BY <1>1 DEF BeginCreate, Begin
<1>2. ASSUME BeginDelete PROVE ResizeInv'
  BY <1>2 DEF BeginDelete, Begin
<1>3. ASSUME Observe PROVE ResizeInv'
  BY <1>3 DEF Observe
<1>4. ASSUME NEW s \in Known, BeginConfigure(s) PROVE ResizeInv'
  BY <1>4 DEF BeginConfigure, Begin, GoBy
<1>5. ASSUME NEW s \in Known, BeginReinstall(s) PROVE ResizeInv'
  BY <1>5 DEF BeginReinstall, Begin, GoBy
<1>6. ASSUME NEW s \in Sizes, BeginResize(s) PROVE ResizeInv'
  BY <1>6 DEF BeginResize, Begin
<1>7. ASSUME KeepRoot PROVE ResizeInv'
  BY <1>7 DEF KeepRoot, SetLimit, Continue
<1>8. ASSUME KeepRootUnseen PROVE ResizeInv'
  BY <1>8 DEF KeepRootUnseen, SetLimit, Continue, Fault
<1>9. ASSUME RefuseRoot PROVE ResizeInv'
  BY <1>9 DEF RefuseRoot, Abort, Finish
<1>10. ASSUME ReplaceRoot PROVE ResizeInv'
  BY <1>10 DEF ReplaceRoot, RemoveDevice, Continue, Fault
<1>11. ASSUME NewRoot PROVE ResizeInv'
  BY <1>11 DEF NewRoot, Continue
<1>12. ASSUME ChooseOwn PROVE ResizeInv'
  BY <1>12 DEF ChooseOwn, Choose
<1>13. ASSUME ChooseShared PROVE ResizeInv'
  BY <1>13 DEF ChooseShared, NeedsShared, Selectable, Choose, Fault
<1>14. ASSUME MakeDefault PROVE ResizeInv'
  BY <1>14 DEF MakeDefault, NeedsShared, Choose, Fault
<1>15. ASSUME RefusePool PROVE ResizeInv'
  BY <1>15 DEF RefusePool, NeedsShared, Abort, Finish, Fault
<1>16. ASSUME AddRoot PROVE ResizeInv'
  BY <1>16 DEF AddRoot, Continue
<1>17. ASSUME RefuseAdd PROVE ResizeInv'
  BY <1>17 DEF RefuseAdd, Abort, Finish
<1>18. ASSUME Launch PROVE ResizeInv'
  BY <1>18 DEF Launch, Continue
<1>19. ASSUME Refuse PROVE ResizeInv'
  BY <1>19 DEF Refuse, Abort, Finish
<1>20. ASSUME Register PROVE ResizeInv'
  BY <1>20 DEF Register, Finish
<1>21. ASSUME Configured PROVE ResizeInv'
  BY <1>21 DEF Configured, Finish
<1>22. ASSUME GrowPool PROVE ResizeInv'
  BY <1>22 DEF GrowPool, Continue
<1>23. ASSUME PutDevice PROVE ResizeInv'
  BY <1>23 DEF PutDevice, Resized, Finish
<1>24. ASSUME RemoveGuest PROVE ResizeInv'
  BY <1>24 DEF RemoveGuest, Continue
<1>25. ASSUME DropProfile PROVE ResizeInv'
  BY <1>25 DEF DropProfile, Continue, Fault
<1>26. ASSUME DropPool PROVE ResizeInv'
  BY <1>26 DEF DropPool, Deleted, Continue, Finish, Fault
<1>27. ASSUME Fail PROVE ResizeInv'
  BY <1>27 DEF Fail, Abort, Finish, Fault
<1>28. ASSUME Crash PROVE ResizeInv'
  BY <1>28 DEF Crash, Finish, Fault
<1>29. ASSUME OtherPool PROVE ResizeInv'
  BY <1>29 DEF OtherPool
<1>30. ASSUME OtherRoot PROVE ResizeInv'
  BY <1>30 DEF OtherRoot
<1>31. CASE UNCHANGED vars
  BY <1>31 DEF vars
<1> QED BY <1>1, <1>2, <1>3, <1>4, <1>5, <1>6, <1>7, <1>8, <1>9, <1>10, <1>11, <1>12, <1>13,
     <1>14, <1>15, <1>16, <1>17, <1>18, <1>19, <1>20, <1>21, <1>22, <1>23, <1>24, <1>25,
     <1>26, <1>27, <1>28, <1>29, <1>30, <1>31 DEF Next, Request, EnsureProfile, Step

\* The master's size only grows, and the profile follows it.
LEMMA MasterStep == DiskInv /\ [Next]_vars => MasterInv'
<1> SUFFICES ASSUME DiskInv, [Next]_vars PROVE MasterInv'
  OBVIOUS
<1> USE PoolsAssumption, SizesAssumption
<1> USE DEF DiskInv, TypeOK, ControlInv, ResizeInv, MasterInv, Ensuring, Shared, Pools,
         Limits, SupportsQuota, PoolExists, Existing, RootPool, Quota, Known, host, devices, sizes,
         control, past, history
<1>1. ASSUME BeginCreate PROVE MasterInv'
  BY <1>1 DEF BeginCreate, Begin
<1>2. ASSUME BeginDelete PROVE MasterInv'
  BY <1>2 DEF BeginDelete, Begin
<1>3. ASSUME Observe PROVE MasterInv'
  BY <1>3 DEF Observe
<1>4. ASSUME NEW s \in Known, BeginConfigure(s) PROVE MasterInv'
  BY <1>4 DEF BeginConfigure, Begin, GoBy
<1>5. ASSUME NEW s \in Known, BeginReinstall(s) PROVE MasterInv'
  BY <1>5 DEF BeginReinstall, Begin, GoBy
<1>6. ASSUME NEW s \in Sizes, BeginResize(s) PROVE MasterInv'
  BY <1>6 DEF BeginResize, Begin
<1>7. ASSUME KeepRoot PROVE MasterInv'
  BY <1>7 DEF KeepRoot, SetLimit, Continue
<1>8. ASSUME KeepRootUnseen PROVE MasterInv'
  BY <1>8 DEF KeepRootUnseen, SetLimit, Continue, Fault
<1>9. ASSUME RefuseRoot PROVE MasterInv'
  BY <1>9 DEF RefuseRoot, Abort, Finish
<1>10. ASSUME ReplaceRoot PROVE MasterInv'
  BY <1>10 DEF ReplaceRoot, RemoveDevice, Continue, Fault
<1>11. ASSUME NewRoot PROVE MasterInv'
  BY <1>11 DEF NewRoot, Continue
<1>12. ASSUME ChooseOwn PROVE MasterInv'
  BY <1>12 DEF ChooseOwn, Choose
<1>13. ASSUME ChooseShared PROVE MasterInv'
  BY <1>13 DEF ChooseShared, NeedsShared, Selectable, Choose, Fault
<1>14. ASSUME MakeDefault PROVE MasterInv'
  BY <1>14 DEF MakeDefault, NeedsShared, Choose, Fault
<1>15. ASSUME RefusePool PROVE MasterInv'
  BY <1>15 DEF RefusePool, NeedsShared, Abort, Finish, Fault
<1>16. ASSUME AddRoot PROVE MasterInv'
  BY <1>16 DEF AddRoot, Continue
<1>17. ASSUME RefuseAdd PROVE MasterInv'
  BY <1>17 DEF RefuseAdd, Abort, Finish
<1>18. ASSUME Launch PROVE MasterInv'
  BY <1>18 DEF Launch, Continue
<1>19. ASSUME Refuse PROVE MasterInv'
  BY <1>19 DEF Refuse, Abort, Finish
<1>20. ASSUME Register PROVE MasterInv'
  BY <1>20 DEF Register, Finish
<1>21. ASSUME Configured PROVE MasterInv'
  BY <1>21 DEF Configured, Finish
<1>22. ASSUME GrowPool PROVE MasterInv'
  BY <1>22 DEF GrowPool, Continue
<1>23. ASSUME PutDevice PROVE MasterInv'
  BY <1>23 DEF PutDevice, Resized, Finish
<1>24. ASSUME RemoveGuest PROVE MasterInv'
  BY <1>24 DEF RemoveGuest, Continue
<1>25. ASSUME DropProfile PROVE MasterInv'
  BY <1>25 DEF DropProfile, Continue, Fault
<1>26. ASSUME DropPool PROVE MasterInv'
  BY <1>26 DEF DropPool, Deleted, Continue, Finish, Fault
<1>27. ASSUME Fail PROVE MasterInv'
  BY <1>27 DEF Fail, Abort, Finish, Fault
<1>28. ASSUME Crash PROVE MasterInv'
  BY <1>28 DEF Crash, Finish, Fault
<1>29. ASSUME OtherPool PROVE MasterInv'
  BY <1>29 DEF OtherPool
<1>30. ASSUME OtherRoot PROVE MasterInv'
  BY <1>30 DEF OtherRoot
<1>31. CASE UNCHANGED vars
  BY <1>31 DEF vars
<1> QED BY <1>1, <1>2, <1>3, <1>4, <1>5, <1>6, <1>7, <1>8, <1>9, <1>10, <1>11, <1>12, <1>13,
     <1>14, <1>15, <1>16, <1>17, <1>18, <1>19, <1>20, <1>21, <1>22, <1>23, <1>24, <1>25,
     <1>26, <1>27, <1>28, <1>29, <1>30, <1>31 DEF Next, Request, EnsureProfile, Step

\* The pool of an instance has room: it is made with the master's size, and grown before the device.
LEMMA RoomStep == DiskInv /\ [Next]_vars => RoomInv'
<1> SUFFICES ASSUME DiskInv, [Next]_vars PROVE RoomInv'
  OBVIOUS
<1> USE PoolsAssumption, SizesAssumption
<1> USE DEF DiskInv, TypeOK, ControlInv, PoolInv, ResizeInv, MasterInv, RoomInv, Awaits,
         RootStays, Ensuring, WantsOwn, Shared, Pools, Limits, SupportsQuota, PoolExists, Existing,
         RootPool, Quota, Known, host, devices, sizes, control, past, history
<1>1. ASSUME BeginCreate PROVE RoomInv'
  BY <1>1 DEF BeginCreate, Begin
<1>2. ASSUME BeginDelete PROVE RoomInv'
  BY <1>2 DEF BeginDelete, Begin
<1>3. ASSUME Observe PROVE RoomInv'
  BY <1>3 DEF Observe
<1>4. ASSUME NEW s \in Known, BeginConfigure(s) PROVE RoomInv'
  BY <1>4 DEF BeginConfigure, Begin, GoBy
<1>5. ASSUME NEW s \in Known, BeginReinstall(s) PROVE RoomInv'
  BY <1>5 DEF BeginReinstall, Begin, GoBy
<1>6. ASSUME NEW s \in Sizes, BeginResize(s) PROVE RoomInv'
  BY <1>6 DEF BeginResize, Begin
<1>7. ASSUME KeepRoot PROVE RoomInv'
  BY <1>7 DEF KeepRoot, SetLimit, Continue
<1>8. ASSUME KeepRootUnseen PROVE RoomInv'
  BY <1>8 DEF KeepRootUnseen, SetLimit, Continue, Fault
<1>9. ASSUME RefuseRoot PROVE RoomInv'
  BY <1>9 DEF RefuseRoot, Abort, Finish
<1>10. ASSUME ReplaceRoot PROVE RoomInv'
  BY <1>10 DEF ReplaceRoot, RemoveDevice, Continue, Fault
<1>11. ASSUME NewRoot PROVE RoomInv'
  BY <1>11 DEF NewRoot, Continue
<1>12. ASSUME ChooseOwn PROVE RoomInv'
  BY <1>12 DEF ChooseOwn, Choose
<1>13. ASSUME ChooseShared PROVE RoomInv'
  BY <1>13 DEF ChooseShared, NeedsShared, Selectable, Choose, Fault
<1>14. ASSUME MakeDefault PROVE RoomInv'
  BY <1>14 DEF MakeDefault, NeedsShared, Choose, Fault
<1>15. ASSUME RefusePool PROVE RoomInv'
  BY <1>15 DEF RefusePool, NeedsShared, Abort, Finish, Fault
<1>16. ASSUME AddRoot PROVE RoomInv'
  BY <1>16 DEF AddRoot, Continue
<1>17. ASSUME RefuseAdd PROVE RoomInv'
  BY <1>17 DEF RefuseAdd, Abort, Finish
<1>18. ASSUME Launch PROVE RoomInv'
  BY <1>18 DEF Launch, Continue
<1>19. ASSUME Refuse PROVE RoomInv'
  BY <1>19 DEF Refuse, Abort, Finish
<1>20. ASSUME Register PROVE RoomInv'
  BY <1>20 DEF Register, Finish
<1>21. ASSUME Configured PROVE RoomInv'
  BY <1>21 DEF Configured, Finish
<1>22. ASSUME GrowPool PROVE RoomInv'
  BY <1>22 DEF GrowPool, Continue
<1>23. ASSUME PutDevice PROVE RoomInv'
  BY <1>23 DEF PutDevice, Resized, Finish
<1>24. ASSUME RemoveGuest PROVE RoomInv'
  BY <1>24 DEF RemoveGuest, Continue
<1>25. ASSUME DropProfile PROVE RoomInv'
  BY <1>25 DEF DropProfile, Continue, Fault
<1>26. ASSUME DropPool PROVE RoomInv'
  <2>1. ~leftover' => own' = 0
    <3>1. own' \in {own, 0}
      BY <1>26 DEF DropPool
    <3>2. own \in Nat
      OBVIOUS
    <3>3. own' > 0 => leftover'
      BY <1>26 DEF DropPool
    <3> QED BY <3>1, <3>2, <3>3
  <2>2. UNCHANGED <<volume, wish>> /\ volume = None
    BY <1>26 DEF DropPool, Deleted
  <2> QED BY <2>1, <2>2
<1>27. ASSUME Fail PROVE RoomInv'
  BY <1>27 DEF Fail, Abort, Finish, Fault
<1>28. ASSUME Crash PROVE RoomInv'
  BY <1>28 DEF Crash, Finish, Fault
<1>29. ASSUME OtherPool PROVE RoomInv'
  BY <1>29 DEF OtherPool
<1>30. ASSUME OtherRoot PROVE RoomInv'
  BY <1>30 DEF OtherRoot
<1>31. CASE UNCHANGED vars
  BY <1>31 DEF vars
<1> QED BY <1>1, <1>2, <1>3, <1>4, <1>5, <1>6, <1>7, <1>8, <1>9, <1>10, <1>11, <1>12, <1>13,
     <1>14, <1>15, <1>16, <1>17, <1>18, <1>19, <1>20, <1>21, <1>22, <1>23, <1>24, <1>25,
     <1>26, <1>27, <1>28, <1>29, <1>30, <1>31 DEF Next, Request, EnsureProfile, Step

\* The root stays: it is bound where the guest is launched, and added where there is none.
LEMMA RootStep == DiskInv /\ [Next]_vars => RootStays'
<1> SUFFICES ASSUME DiskInv, [Next]_vars PROVE RootStays'
  OBVIOUS
<1> USE PoolsAssumption, SizesAssumption
<1> USE DEF DiskInv, TypeOK, ControlInv, PoolInv, RootStays, Ensuring, RootPool, host,
         devices, sizes, control, past, history
<1>1. ASSUME BeginCreate PROVE RootStays'
  BY <1>1 DEF BeginCreate, Begin
<1>2. ASSUME BeginDelete PROVE RootStays'
  BY <1>2 DEF BeginDelete, Begin
<1>3. ASSUME Observe PROVE RootStays'
  BY <1>3 DEF Observe
<1>4. ASSUME NEW s \in Known, BeginConfigure(s) PROVE RootStays'
  BY <1>4 DEF BeginConfigure, Begin, GoBy
<1>5. ASSUME NEW s \in Known, BeginReinstall(s) PROVE RootStays'
  BY <1>5 DEF BeginReinstall, Begin, GoBy
<1>6. ASSUME NEW s \in Sizes, BeginResize(s) PROVE RootStays'
  BY <1>6 DEF BeginResize, Begin
<1>7. ASSUME KeepRoot PROVE RootStays'
  BY <1>7 DEF KeepRoot, SetLimit, Continue
<1>8. ASSUME KeepRootUnseen PROVE RootStays'
  BY <1>8 DEF KeepRootUnseen, SetLimit, Continue, Fault
<1>9. ASSUME RefuseRoot PROVE RootStays'
  BY <1>9 DEF RefuseRoot, Abort, Finish
<1>10. ASSUME ReplaceRoot PROVE RootStays'
  BY <1>10 DEF ReplaceRoot, RemoveDevice, Continue, Fault
<1>11. ASSUME NewRoot PROVE RootStays'
  BY <1>11 DEF NewRoot, Continue
<1>12. ASSUME ChooseOwn PROVE RootStays'
  BY <1>12 DEF ChooseOwn, Choose
<1>13. ASSUME ChooseShared PROVE RootStays'
  BY <1>13 DEF ChooseShared, NeedsShared, Selectable, Choose, Fault
<1>14. ASSUME MakeDefault PROVE RootStays'
  BY <1>14 DEF MakeDefault, NeedsShared, Choose, Fault
<1>15. ASSUME RefusePool PROVE RootStays'
  BY <1>15 DEF RefusePool, NeedsShared, Abort, Finish, Fault
<1>16. ASSUME AddRoot PROVE RootStays'
  BY <1>16 DEF AddRoot, Continue
<1>17. ASSUME RefuseAdd PROVE RootStays'
  BY <1>17 DEF RefuseAdd, Abort, Finish
<1>18. ASSUME Launch PROVE RootStays'
  BY <1>18 DEF Launch, Continue
<1>19. ASSUME Refuse PROVE RootStays'
  BY <1>19 DEF Refuse, Abort, Finish
<1>20. ASSUME Register PROVE RootStays'
  BY <1>20 DEF Register, Finish
<1>21. ASSUME Configured PROVE RootStays'
  BY <1>21 DEF Configured, Finish
<1>22. ASSUME GrowPool PROVE RootStays'
  BY <1>22 DEF GrowPool, Continue
<1>23. ASSUME PutDevice PROVE RootStays'
  BY <1>23 DEF PutDevice, Resized, Finish
<1>24. ASSUME RemoveGuest PROVE RootStays'
  BY <1>24 DEF RemoveGuest, Continue
<1>25. ASSUME DropProfile PROVE RootStays'
  BY <1>25 DEF DropProfile, Continue, Fault
<1>26. ASSUME DropPool PROVE RootStays'
  BY <1>26 DEF DropPool, Deleted, Continue, Finish, Fault
<1>27. ASSUME Fail PROVE RootStays'
  BY <1>27 DEF Fail, Abort, Finish, Fault
<1>28. ASSUME Crash PROVE RootStays'
  BY <1>28 DEF Crash, Finish, Fault
<1>29. ASSUME OtherPool PROVE RootStays'
  BY <1>29 DEF OtherPool
<1>30. ASSUME OtherRoot PROVE RootStays'
  BY <1>30 DEF OtherRoot
<1>31. CASE UNCHANGED vars
  BY <1>31 DEF vars
<1> QED BY <1>1, <1>2, <1>3, <1>4, <1>5, <1>6, <1>7, <1>8, <1>9, <1>10, <1>11, <1>12, <1>13,
     <1>14, <1>15, <1>16, <1>17, <1>18, <1>19, <1>20, <1>21, <1>22, <1>23, <1>24, <1>25,
     <1>26, <1>27, <1>28, <1>29, <1>30, <1>31 DEF Next, Request, EnsureProfile, Step

\* Quotas: the profile has one on a pool that keeps to it, and a resize asks again.
LEMMA QuotaStep == DiskInv /\ [Next]_vars => QuotaIsEffective'
<1> SUFFICES ASSUME DiskInv, [Next]_vars PROVE QuotaIsEffective'
  OBVIOUS
<1> USE PoolsAssumption, SizesAssumption
<1> USE DEF DiskInv, TypeOK, ControlInv, PoolInv, ResizeInv, RootStays, QuotaIsEffective,
         Ensuring, Shared, Pools, Limits, SupportsQuota, PoolExists, Existing, RootPool, Quota, Known,
         host, devices, sizes, control, past, history
<1>1. ASSUME BeginCreate PROVE QuotaIsEffective'
  BY <1>1 DEF BeginCreate, Begin
<1>2. ASSUME BeginDelete PROVE QuotaIsEffective'
  BY <1>2 DEF BeginDelete, Begin
<1>3. ASSUME Observe PROVE QuotaIsEffective'
  BY <1>3 DEF Observe
<1>4. ASSUME NEW s \in Known, BeginConfigure(s) PROVE QuotaIsEffective'
  BY <1>4 DEF BeginConfigure, Begin, GoBy
<1>5. ASSUME NEW s \in Known, BeginReinstall(s) PROVE QuotaIsEffective'
  BY <1>5 DEF BeginReinstall, Begin, GoBy
<1>6. ASSUME NEW s \in Sizes, BeginResize(s) PROVE QuotaIsEffective'
  BY <1>6 DEF BeginResize, Begin
<1>7. ASSUME KeepRoot PROVE QuotaIsEffective'
  BY <1>7 DEF KeepRoot, SetLimit, Continue
<1>8. ASSUME KeepRootUnseen PROVE QuotaIsEffective'
  BY <1>8 DEF KeepRootUnseen, SetLimit, Continue, Fault
<1>9. ASSUME RefuseRoot PROVE QuotaIsEffective'
  BY <1>9 DEF RefuseRoot, Abort, Finish
<1>10. ASSUME ReplaceRoot PROVE QuotaIsEffective'
  BY <1>10 DEF ReplaceRoot, RemoveDevice, Continue, Fault
<1>11. ASSUME NewRoot PROVE QuotaIsEffective'
  BY <1>11 DEF NewRoot, Continue
<1>12. ASSUME ChooseOwn PROVE QuotaIsEffective'
  BY <1>12 DEF ChooseOwn, Choose
<1>13. ASSUME ChooseShared PROVE QuotaIsEffective'
  BY <1>13 DEF ChooseShared, NeedsShared, Selectable, Choose, Fault
<1>14. ASSUME MakeDefault PROVE QuotaIsEffective'
  BY <1>14 DEF MakeDefault, NeedsShared, Choose, Fault
<1>15. ASSUME RefusePool PROVE QuotaIsEffective'
  BY <1>15 DEF RefusePool, NeedsShared, Abort, Finish, Fault
<1>16. ASSUME AddRoot PROVE QuotaIsEffective'
  BY <1>16 DEF AddRoot, Continue
<1>17. ASSUME RefuseAdd PROVE QuotaIsEffective'
  BY <1>17 DEF RefuseAdd, Abort, Finish
<1>18. ASSUME Launch PROVE QuotaIsEffective'
  BY <1>18 DEF Launch, Continue
<1>19. ASSUME Refuse PROVE QuotaIsEffective'
  BY <1>19 DEF Refuse, Abort, Finish
<1>20. ASSUME Register PROVE QuotaIsEffective'
  BY <1>20 DEF Register, Finish
<1>21. ASSUME Configured PROVE QuotaIsEffective'
  BY <1>21 DEF Configured, Finish
<1>22. ASSUME GrowPool PROVE QuotaIsEffective'
  BY <1>22 DEF GrowPool, Continue
<1>23. ASSUME PutDevice PROVE QuotaIsEffective'
  BY <1>23 DEF PutDevice, Resized, Finish
<1>24. ASSUME RemoveGuest PROVE QuotaIsEffective'
  BY <1>24 DEF RemoveGuest, Continue
<1>25. ASSUME DropProfile PROVE QuotaIsEffective'
  BY <1>25 DEF DropProfile, Continue, Fault
<1>26. ASSUME DropPool PROVE QuotaIsEffective'
  BY <1>26 DEF DropPool, Deleted, Continue, Finish, Fault
<1>27. ASSUME Fail PROVE QuotaIsEffective'
  BY <1>27 DEF Fail, Abort, Finish, Fault
<1>28. ASSUME Crash PROVE QuotaIsEffective'
  BY <1>28 DEF Crash, Finish, Fault
<1>29. ASSUME OtherPool PROVE QuotaIsEffective'
  BY <1>29 DEF OtherPool
<1>30. ASSUME OtherRoot PROVE QuotaIsEffective'
  BY <1>30 DEF OtherRoot
<1>31. CASE UNCHANGED vars
  BY <1>31 DEF vars
<1> QED BY <1>1, <1>2, <1>3, <1>4, <1>5, <1>6, <1>7, <1>8, <1>9, <1>10, <1>11, <1>12, <1>13,
     <1>14, <1>15, <1>16, <1>17, <1>18, <1>19, <1>20, <1>21, <1>22, <1>23, <1>24, <1>25,
     <1>26, <1>27, <1>28, <1>29, <1>30, <1>31 DEF Next, Request, EnsureProfile, Step

LEMMA InitInv == Init => DiskInv
<1> SUFFICES ASSUME Init PROVE DiskInv
  OBVIOUS
<1> USE PoolsAssumption, SizesAssumption, FaultsAssumption DEF Init
<1>1. TypeOK
  <2>1. root \in Pools \cup {Lost, None} /\ profile \in BOOLEAN
    BY DEF Pools, Shared
  <2>2. job \in Jobs /\ phase \in Phases /\ size \in Limits /\ pool \in Pools \cup {None}
    BY DEF Limits, Jobs, Phases
  <2>3. faults \in 0..MaxFaults
    OBVIOUS
  <2> QED BY <2>1, <2>2, <2>3 DEF TypeOK, Limits
<1>2. ControlInv /\ ResizeInv /\ MasterInv
  BY DEF ControlInv, ResizeInv, MasterInv, Ensuring, Limits
<1>3. PoolInv /\ RoomInv /\ RootStays /\ QuotaIsEffective
  BY DEF PoolInv, RoomInv, Awaits, RootStays, QuotaIsEffective, Pools, Ensuring
<1> QED BY <1>1, <1>2, <1>3 DEF DiskInv

-----------------------------------------------------------------------------
(* Theorems.                                                               *)

\* The inductive invariant: what each phase has checked, and which size bounds which.
THEOREM DiskInvariant == Spec => []DiskInv
<1>1. DiskInv /\ [Next]_vars => DiskInv'
  BY TypeStep, ControlStep, PoolStep, ResizeStep, MasterStep, RoomStep, RootStep, QuotaStep
     DEF DiskInv
<1> QED BY InitInv, <1>1, PTL DEF Spec

\* Every state of the model is well typed.
THEOREM TypeCorrect == Spec => []TypeOK
<1>1. DiskInv => TypeOK
  BY DEF DiskInv
<1> QED BY DiskInvariant, <1>1, PTL

\* The root of a guest stays bound to the pool its data is on (incus.go:213-222).
THEOREM RootNeverMoves == Spec => []RootStays
<1>1. DiskInv => RootStays
  BY DEF DiskInv
<1> QED BY DiskInvariant, <1>1, PTL

\* A size that Incus has been given takes effect (incus.go:243-250, 574-616).
THEOREM QuotasTakeEffect == Spec => []QuotaIsEffective
<1>1. DiskInv => QuotaIsEffective
  BY DEF DiskInv
<1> QED BY DiskInvariant, <1>1, PTL

\* A guest on the pool of its own instance has no larger disk than that pool, which is found
\* or made, perhaps with roots of others on it, and grown before the disk is (resize.go:140-170).
THEOREM PoolsHaveRoom == Spec => []PoolHoldsQuota
<1>1. DiskInv => PoolHoldsQuota
  BY DEF DiskInv, RoomInv, PoolHoldsQuota
<1> QED BY DiskInvariant, <1>1, PTL

-----------------------------------------------------------------------------
(* The disk does not shrink.                                               *)

\* Setting the profile up again changes the size of a guest without a device of its own only,
\* and to what the master knows, which is not less.
LEMMA KeepRootKeeps ==
    ASSUME DiskInv, volume # None, ~astray, limit' \in {limit, size}, phase = "profile",
           UNCHANGED <<root, device, grown>>
    PROVE  Quota' >= Quota
<1>1. size = wish /\ limit <= wish
  BY DEF DiskInv, MasterInv, ControlInv, Ensuring
<1>2. limit \in Nat /\ wish \in Nat /\ grown \in Nat
  BY SizesAssumption DEF DiskInv, TypeOK, Limits
<1> QED BY <1>1, <1>2 DEF Quota

\* No step makes the disk of a guest smaller.
LEMMA QuotaKept ==
    ASSUME DiskInv, Next, volume # None, volume' # None, ~astray'
    PROVE  Quota' >= Quota
<1> USE DEF host, devices, sizes, past, history
<1>1. limit \in Nat /\ grown \in Nat /\ size \in Nat
  <2>1. limit \in Limits /\ grown \in Limits /\ size \in Limits
    BY DEF DiskInv, TypeOK
  <2> QED BY <2>1, SizesAssumption DEF Limits
<1>2. CASE UNCHANGED <<limit, device, grown>>
  BY <1>1, <1>2 DEF Quota
<1>3. CASE KeepRoot \/ KeepRootUnseen
  BY <1>3, KeepRootKeeps DEF KeepRoot, KeepRootUnseen, SetLimit
<1>4. CASE ReplaceRoot
  BY <1>1, <1>2, <1>4 DEF ReplaceRoot, RemoveDevice, Quota
<1>5. CASE AddRoot
  BY <1>1, <1>5 DEF AddRoot, Quota, DiskInv, RootStays, RootPool
<1>6. CASE PutDevice
  BY <1>1, <1>6, PoolsAssumption DEF PutDevice, Quota, RootPool, DiskInv, ResizeInv, RootStays
<1>7. CASE RemoveGuest \/ DropProfile
  BY <1>7 DEF RemoveGuest, DropProfile, DiskInv, ControlInv
<1>8. CASE Fail
  BY <1>2, <1>8 DEF Fail, Abort
<1> QED
  BY <1>2, <1>3, <1>4, <1>5, <1>6, <1>7, <1>8
     DEF Next, OtherPool, OtherRoot, Request, EnsureProfile, Step, Abort, Finish, BeginCreate, BeginDelete, Observe, BeginConfigure,
         BeginReinstall, BeginResize, RefuseRoot, NewRoot, ChooseOwn, ChooseShared, MakeDefault,
         RefusePool, RefuseAdd, Launch, Refuse, Register, Configured, GrowPool, DropPool, Crash

\* The disk of a guest does not shrink, whatever sets the size of the profile again, unless
\* it is a size that the master does not know of.
THEOREM DisksKeepTheirSize == Spec => QuotaKeeps
<1>1. DiskInv /\ [Next]_vars =>
          [volume # None /\ volume' # None /\ ~astray' => Quota' >= Quota]_vars
  BY QuotaKept
<1> QED BY DiskInvariant, <1>1, PTL DEF Spec, QuotaKeeps
===============================================================================
