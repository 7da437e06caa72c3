------------------------ MODULE InstanceStorage_proofs ------------------------
(***************************************************************************)
(* Proofs about the storage of an instance, for any number of uploads,     *)
(* imports and failures: its types, that an original which has been put    *)
(* aside has a plan, and that the data of a guest stays within reach.      *)
(***************************************************************************)
EXTENDS InstanceStorage, TLAPS

-----------------------------------------------------------------------------
(* The names of runtimes are all different.                                *)

LEMMA NamesType ==
    /\ Target \in Names
    /\ \A v \in Volumes : Import(v) \in Names
    /\ \A v \in Uploads : Stage(v) \in Names /\ Retained(v) \in Names
    /\ 0 \in Volumes /\ \A v \in Uploads : v \in Volumes
BY DEF Names, Volumes

LEMMA NamesDiffer ==
    /\ \A v : Target # Import(v) /\ Target # Stage(v) /\ Target # Retained(v)
    /\ \A v, u : Import(v) # Stage(u) /\ Import(v) # Retained(u) /\ Stage(v) # Retained(u)
    /\ \A v, u : v # u => Import(v) # Import(u) /\ Stage(v) # Stage(u)
                          /\ Retained(v) # Retained(u)
BY DEF Target, Import, Stage, Retained

LEMMA NumbersType ==
    /\ MaxVolumes \in Nat /\ MaxFailures \in Nat /\ None \notin Volumes
    /\ \A v : v \in Uploads <=> v \in Int /\ 1 <= v /\ v <= MaxVolumes
    /\ \A v : v \in Volumes <=> v \in Int /\ 0 <= v /\ v <= MaxVolumes
BY BoundsAssumption, NoneAssumption DEF Uploads, Volumes

-----------------------------------------------------------------------------
(* The inductive invariant.                                                *)

\* What the phase of an operation says about its kind.
PhaseInv ==
    /\ phase \in {"deleting", "undefined", "unlinked"} => job \in {"delete", "reinstall"}
    /\ phase \in {"importing", "brought", "unpublished", "defined"} => job \in {"import", "replace"}
    /\ phase \in {"planned", "retired", "published", "rearranged", "switched", "committed",
                  "unlinking", "removed"} => job = "replace"
    /\ job = "replace" => vol \in Uploads

\* What no request has brought yet is not there, and no name is taken by a volume
\* it was not made for.
FreshInv ==
    /\ vol <= made
    /\ \A u \in Uploads : u > made => volume[u] = "none" /\ runtime[Retained(u)] = None
    /\ \A v \in Volumes : runtime[Import(v)] \in {None, v}

\* What an import has brought is there, before and after it gets its name.
ImportInv ==
    /\ phase = "unpublished" => runtime[Import(vol)] = vol /\ volume[vol] = "guest"
    /\ phase = "defined" => runtime[Into] = vol /\ volume[vol] = "guest"

\* Where the original and the backup are, in every phase of a replacement.
ReplaceInv ==
    job = "replace" =>
        /\ phase \in {"importing", "brought", "unpublished", "defined", "planned"} =>
               runtime[Target] = old /\ runtime[Retained(vol)] = None
        /\ phase = "planned" => runtime[Stage(vol)] = vol /\ volume[vol] = "guest"
        /\ phase = "retired" =>
               /\ runtime[Stage(vol)] = vol /\ volume[vol] = "guest"
               /\ runtime[Retained(vol)] = old /\ runtime[Target] = None
        /\ phase \in {"published", "rearranged", "switched", "committed"} =>
               /\ runtime[Target] = vol /\ volume[vol] = "guest"
               /\ runtime[Retained(vol)] = old
        /\ phase = "unlinking" =>
               /\ runtime[Target] = vol /\ volume[vol] = "guest"
               /\ runtime[Retained(vol)] = None
        /\ phase = "removed" => runtime[Retained(vol)] = None

\* What the plan says, in every phase of a replacement.
PlanInv ==
    /\ phase \in {"planned", "retired", "published", "rearranged", "switched", "committed",
                  "unlinking", "removed"} => plan[vol] # "none"
    /\ phase \in {"committed", "unlinking"} => plan[vol] = "committed"
    /\ RetainedHasPlan

StorageInv == TypeOK /\ PhaseInv /\ FreshInv /\ ImportInv /\ ReplaceInv /\ PlanInv

-----------------------------------------------------------------------------
(* The types.                                                              *)

\* Renaming keeps the type of a table of names.
LEMMA RenamedType ==
    ASSUME NEW f \in [Names -> Volumes \cup {None}], NEW n \in Names, NEW m \in Names
    PROVE  Renamed(f, n, m) \in [Names -> Volumes \cup {None}]
BY DEF Renamed

LEMMA TypeStep == TypeOK /\ PhaseInv /\ [Next]_vars => TypeOK'
<1> SUFFICES ASSUME TypeOK, PhaseInv, [Next]_vars PROVE TypeOK'
  OBVIOUS
<1> USE NamesType, NumbersType DEF TypeOK, Jobs, Phases, disk, count
<1>1. CASE BeginCreate
  BY <1>1 DEF BeginCreate, Begin, Upload, UseImage
<1>2. CASE BeginDelete
  BY <1>2 DEF BeginDelete, Begin
<1>3. CASE BeginReinstall
  BY <1>3 DEF BeginReinstall, Begin, Upload, UseImage
<1>4. CASE BeginImport
  BY <1>4 DEF BeginImport, Begin, UseImage, MakeItself
<1>5. CASE BeginReplace
  BY <1>5 DEF BeginReplace, Begin, MakeItself
<1>6. CASE ReuseRuntime
  BY <1>6 DEF ReuseRuntime, Continue
<1>7. CASE PrepareStorage
  BY <1>7 DEF PrepareStorage, Continue
<1>8. CASE DefineGuest
  BY <1>8 DEF DefineGuest, Continue
<1>9. CASE Register
  BY <1>9 DEF Register, Finish
<1>10. CASE UndefineGuest
  BY <1>10 DEF UndefineGuest, Allowed, Continue
<1>11. CASE UnlinkVolume
  BY <1>11 DEF UnlinkVolume, Continue
<1>12. CASE DeleteIncus
  BY <1>12 DEF DeleteIncus, Continue
<1>13. CASE DropCompanion
  BY <1>13 DEF DropCompanion, Continue
<1>14. CASE Unregister
  BY <1>14 DEF Unregister, Finish
<1>15. CASE BringBackup
  BY <1>15 DEF BringBackup, Into, Continue
<1>16. CASE DefineImport
  BY <1>16 DEF DefineImport, Continue
<1>17. CASE PublishImport
  BY <1>17, RenamedType DEF PhaseInv, PublishImport, Into, Continue
<1>18. CASE Undo
  <2>1. runtime' \in {runtime, [runtime EXCEPT ![Import(vol)] = None],
                       [runtime EXCEPT ![Into] = None]}
    BY <1>18 DEF Undo
  <2>2. runtime' \in [Names -> Volumes \cup {None}]
    BY <2>1
  <2> QED BY <1>18, <2>2 DEF Undo, Failed, Finish
<1>19. CASE PlanReplacement
  BY <1>19 DEF PlanReplacement, Continue
<1>20. CASE RetireOriginal
  BY <1>20, RenamedType DEF PhaseInv, RetireOriginal, Continue
<1>21. CASE PublishStage
  BY <1>21, RenamedType DEF PhaseInv, PublishStage, Continue
<1>22. CASE RollBack
  BY <1>22, RenamedType DEF PhaseInv, RollBack, Failed, Finish
<1>23. CASE RetireCompanion
  BY <1>23, RenamedType DEF PhaseInv, RetireCompanion, Follow, Continue
<1>24. CASE PublishCompanion
  BY <1>24, RenamedType DEF PhaseInv, PublishCompanion, Follow, Continue
<1>25. CASE Commit
  BY <1>25 DEF Commit, Continue
<1>26. CASE RemoveOriginal
  BY <1>26 DEF RemoveOriginal, Continue
<1>27. CASE UnlinkOriginal
  BY <1>27 DEF UnlinkOriginal, Continue
<1>28. CASE CleanUp
  BY <1>28 DEF CleanUp, Continue
<1>29. CASE TakeSnapshot
  BY <1>29 DEF TakeSnapshot, control
<1>30. CASE FailOrCrash
  BY <1>30 DEF FailOrCrash, Failed, Finish
<1>31. CASE UNCHANGED vars
  BY <1>31 DEF vars, control
<1> QED
  BY <1>1, <1>2, <1>3, <1>4, <1>5, <1>6, <1>7, <1>8, <1>9, <1>10, <1>11, <1>12, <1>13,
     <1>14, <1>15, <1>16, <1>17, <1>18, <1>19, <1>20, <1>21, <1>22, <1>23, <1>24, <1>25,
     <1>26, <1>27, <1>28, <1>29, <1>30, <1>31 DEF Next, Request, CreateStep,
     DeleteStep, ImportStep, ReplaceStep

-----------------------------------------------------------------------------
(* The other parts.                                                        *)

\* Phases follow each other within one operation.
LEMMA PhasePreserved ==
    TypeOK /\ PhaseInv /\ [Next]_vars => PhaseInv'
<1> SUFFICES ASSUME TypeOK, PhaseInv, [Next]_vars PROVE PhaseInv'
  OBVIOUS
<1> USE NumbersType DEF PhaseInv, disk, count
<1>1. CASE BeginCreate
  BY <1>1 DEF BeginCreate, Begin, Upload, UseImage
<1>2. CASE BeginDelete
  BY <1>2 DEF BeginDelete, Begin
<1>3. CASE BeginReinstall
  BY <1>3 DEF BeginReinstall, Begin, Upload, UseImage
<1>4. CASE BeginImport
  BY <1>4 DEF BeginImport, Begin, UseImage, MakeItself
<1>5. CASE BeginReplace
  BY <1>5 DEF BeginReplace, Begin, MakeItself, TypeOK
<1>6. CASE ReuseRuntime
  BY <1>6 DEF ReuseRuntime, Continue
<1>7. CASE PrepareStorage
  BY <1>7 DEF PrepareStorage, Continue
<1>8. CASE DefineGuest
  BY <1>8 DEF DefineGuest, Continue
<1>9. CASE Register
  BY <1>9 DEF Register, Finish
<1>10. CASE UndefineGuest
  BY <1>10 DEF UndefineGuest, Continue
<1>11. CASE UnlinkVolume
  BY <1>11 DEF UnlinkVolume, Continue
<1>12. CASE DeleteIncus
  BY <1>12 DEF DeleteIncus, Continue
<1>13. CASE DropCompanion
  BY <1>13 DEF DropCompanion, Continue
<1>14. CASE Unregister
  BY <1>14 DEF Unregister, Finish
<1>15. CASE BringBackup
  BY <1>15 DEF BringBackup, Into, Continue
<1>16. CASE DefineImport
  BY <1>16 DEF DefineImport, Continue
<1>17. CASE PublishImport
  BY <1>17 DEF PublishImport, Into, Renamed, Continue
<1>18. CASE Undo
  BY <1>18 DEF Undo, Into, Failed, Finish
<1>19. CASE PlanReplacement
  BY <1>19 DEF PlanReplacement, Continue
<1>20. CASE RetireOriginal
  BY <1>20 DEF RetireOriginal, Renamed, Continue
<1>21. CASE PublishStage
  BY <1>21 DEF PublishStage, Renamed, Continue
<1>22. CASE RollBack
  BY <1>22 DEF RollBack, Renamed, Failed, Finish
<1>23. CASE RetireCompanion
  BY <1>23 DEF RetireCompanion, Follow, Continue
<1>24. CASE PublishCompanion
  BY <1>24 DEF PublishCompanion, Follow, Continue
<1>25. CASE Commit
  BY <1>25 DEF Commit, Continue
<1>26. CASE RemoveOriginal
  BY <1>26 DEF RemoveOriginal, Continue
<1>27. CASE UnlinkOriginal
  BY <1>27 DEF UnlinkOriginal, Continue
<1>28. CASE CleanUp
  BY <1>28 DEF CleanUp, Continue
<1>29. CASE TakeSnapshot
  BY <1>29 DEF TakeSnapshot, control
<1>30. CASE FailOrCrash
  BY <1>30 DEF FailOrCrash, Failed, Finish
<1>31. CASE UNCHANGED vars
  BY <1>31 DEF vars, control
<1> QED
  BY <1>1, <1>2, <1>3, <1>4, <1>5, <1>6, <1>7, <1>8, <1>9, <1>10, <1>11, <1>12, <1>13,
     <1>14, <1>15, <1>16, <1>17, <1>18, <1>19, <1>20, <1>21, <1>22, <1>23, <1>24, <1>25,
     <1>26, <1>27, <1>28, <1>29, <1>30, <1>31 DEF Next, Request, CreateStep,
     DeleteStep, ImportStep, ReplaceStep

\* Nothing is used before it is made.
LEMMA FreshPreserved ==
    TypeOK /\ PhaseInv /\ FreshInv /\ [Next]_vars => FreshInv'
<1> SUFFICES ASSUME TypeOK, PhaseInv, FreshInv, [Next]_vars PROVE FreshInv'
  OBVIOUS
<1> USE NamesType, NamesDiffer, NumbersType DEF FreshInv, TypeOK, PhaseInv, disk, count
<1>1. CASE BeginCreate
  BY <1>1 DEF BeginCreate, Begin, Upload, UseImage
<1>2. CASE BeginDelete
  BY <1>2 DEF BeginDelete, Begin
<1>3. CASE BeginReinstall
  BY <1>3 DEF BeginReinstall, Begin, Upload, UseImage
<1>4. CASE BeginImport
  BY <1>4 DEF BeginImport, Begin, UseImage, MakeItself
<1>5. CASE BeginReplace
  BY <1>5 DEF BeginReplace, Begin, MakeItself
<1>6. CASE ReuseRuntime
  BY <1>6 DEF ReuseRuntime, Continue
<1>7. CASE PrepareStorage
  BY <1>7 DEF PrepareStorage, Continue
<1>8. CASE DefineGuest
  BY <1>8 DEF DefineGuest, Continue
<1>9. CASE Register
  BY <1>9 DEF Register, Finish
<1>10. CASE UndefineGuest
  BY <1>10 DEF UndefineGuest, Continue
<1>11. CASE UnlinkVolume
  BY <1>11 DEF UnlinkVolume, Continue
<1>12. CASE DeleteIncus
  BY <1>12 DEF DeleteIncus, Continue
<1>13. CASE DropCompanion
  BY <1>13 DEF DropCompanion, Continue
<1>14. CASE Unregister
  BY <1>14 DEF Unregister, Finish
<1>15. CASE BringBackup
  BY <1>15 DEF BringBackup, Into, Continue
<1>16. CASE DefineImport
  BY <1>16 DEF DefineImport, Continue
<1>17. CASE PublishImport
  BY <1>17 DEF PublishImport, Into, Renamed, Continue
<1>18. CASE Undo
  BY <1>18 DEF Undo, Into, Failed, Finish
<1>19. CASE PlanReplacement
  BY <1>19 DEF PlanReplacement, Continue
<1>20. CASE RetireOriginal
  BY <1>20 DEF RetireOriginal, Renamed, Continue
<1>21. CASE PublishStage
  BY <1>21 DEF PublishStage, Renamed, Continue
<1>22. CASE RollBack
  BY <1>22 DEF RollBack, Renamed, Failed, Finish
<1>23. CASE RetireCompanion
  BY <1>23 DEF RetireCompanion, Follow, Continue
<1>24. CASE PublishCompanion
  BY <1>24 DEF PublishCompanion, Follow, Continue
<1>25. CASE Commit
  BY <1>25 DEF Commit, Continue
<1>26. CASE RemoveOriginal
  BY <1>26 DEF RemoveOriginal, Continue
<1>27. CASE UnlinkOriginal
  BY <1>27 DEF UnlinkOriginal, Continue
<1>28. CASE CleanUp
  BY <1>28 DEF CleanUp, Continue
<1>29. CASE TakeSnapshot
  BY <1>29 DEF TakeSnapshot, control
<1>30. CASE FailOrCrash
  BY <1>30 DEF FailOrCrash, Failed, Finish
<1>31. CASE UNCHANGED vars
  BY <1>31 DEF vars, control
<1> QED
  BY <1>1, <1>2, <1>3, <1>4, <1>5, <1>6, <1>7, <1>8, <1>9, <1>10, <1>11, <1>12, <1>13,
     <1>14, <1>15, <1>16, <1>17, <1>18, <1>19, <1>20, <1>21, <1>22, <1>23, <1>24, <1>25,
     <1>26, <1>27, <1>28, <1>29, <1>30, <1>31 DEF Next, Request, CreateStep,
     DeleteStep, ImportStep, ReplaceStep

\* An import brings its volume and gives it its name.
LEMMA ImportPreserved ==
    TypeOK /\ PhaseInv /\ ImportInv /\ [Next]_vars => ImportInv'
<1> SUFFICES ASSUME TypeOK, PhaseInv, ImportInv, [Next]_vars PROVE ImportInv'
  OBVIOUS
<1> USE NamesType, NamesDiffer, NumbersType DEF ImportInv, TypeOK, PhaseInv, disk, count
<1>1. CASE BeginCreate
  BY <1>1 DEF BeginCreate, Begin, Upload, UseImage
<1>2. CASE BeginDelete
  BY <1>2 DEF BeginDelete, Begin
<1>3. CASE BeginReinstall
  BY <1>3 DEF BeginReinstall, Begin, Upload, UseImage
<1>4. CASE BeginImport
  BY <1>4 DEF BeginImport, Begin, UseImage, MakeItself
<1>5. CASE BeginReplace
  BY <1>5 DEF BeginReplace, Begin, MakeItself
<1>6. CASE ReuseRuntime
  BY <1>6 DEF ReuseRuntime, Continue
<1>7. CASE PrepareStorage
  BY <1>7 DEF PrepareStorage, Continue
<1>8. CASE DefineGuest
  BY <1>8 DEF DefineGuest, Continue
<1>9. CASE Register
  BY <1>9 DEF Register, Finish
<1>10. CASE UndefineGuest
  BY <1>10 DEF UndefineGuest, Continue
<1>11. CASE UnlinkVolume
  BY <1>11 DEF UnlinkVolume, Continue
<1>12. CASE DeleteIncus
  BY <1>12 DEF DeleteIncus, Continue
<1>13. CASE DropCompanion
  BY <1>13 DEF DropCompanion, Continue
<1>14. CASE Unregister
  BY <1>14 DEF Unregister, Finish
<1>15. CASE BringBackup
  BY <1>15 DEF BringBackup, Into, Continue
<1>16. CASE DefineImport
  BY <1>16 DEF DefineImport, Continue
<1>17. CASE PublishImport
  BY <1>17 DEF PublishImport, Into, Renamed, Continue
<1>18. CASE Undo
  BY <1>18 DEF Undo, Into, Failed, Finish
<1>19. CASE PlanReplacement
  BY <1>19 DEF PlanReplacement, Continue
<1>20. CASE RetireOriginal
  BY <1>20 DEF RetireOriginal, Renamed, Continue
<1>21. CASE PublishStage
  BY <1>21 DEF PublishStage, Renamed, Continue
<1>22. CASE RollBack
  BY <1>22 DEF RollBack, Renamed, Failed, Finish
<1>23. CASE RetireCompanion
  BY <1>23 DEF RetireCompanion, Follow, Continue
<1>24. CASE PublishCompanion
  BY <1>24 DEF PublishCompanion, Follow, Continue
<1>25. CASE Commit
  BY <1>25 DEF Commit, Continue
<1>26. CASE RemoveOriginal
  BY <1>26 DEF RemoveOriginal, Continue
<1>27. CASE UnlinkOriginal
  BY <1>27 DEF UnlinkOriginal, Continue
<1>28. CASE CleanUp
  BY <1>28 DEF CleanUp, Continue
<1>29. CASE TakeSnapshot
  BY <1>29 DEF TakeSnapshot, control
<1>30. CASE FailOrCrash
  BY <1>30 DEF FailOrCrash, Failed, Finish
<1>31. CASE UNCHANGED vars
  BY <1>31 DEF vars, control, Into
<1> QED
  BY <1>1, <1>2, <1>3, <1>4, <1>5, <1>6, <1>7, <1>8, <1>9, <1>10, <1>11, <1>12, <1>13,
     <1>14, <1>15, <1>16, <1>17, <1>18, <1>19, <1>20, <1>21, <1>22, <1>23, <1>24, <1>25,
     <1>26, <1>27, <1>28, <1>29, <1>30, <1>31 DEF Next, Request, CreateStep,
     DeleteStep, ImportStep, ReplaceStep

\* A replacement knows where the original and the backup are.
LEMMA ReplacePreserved ==
    TypeOK /\ PhaseInv /\ FreshInv /\ ImportInv /\ ReplaceInv /\ [Next]_vars => ReplaceInv'
<1> SUFFICES ASSUME TypeOK, PhaseInv, FreshInv, ImportInv, ReplaceInv, [Next]_vars PROVE
        ReplaceInv'
  OBVIOUS
<1> USE NamesType, NamesDiffer, NumbersType DEF ReplaceInv, TypeOK, PhaseInv, disk, count
<1>1. CASE BeginCreate
  BY <1>1 DEF BeginCreate, Begin, Upload, UseImage
<1>2. CASE BeginDelete
  BY <1>2 DEF BeginDelete, Begin
<1>3. CASE BeginReinstall
  BY <1>3 DEF BeginReinstall, Begin, Upload, UseImage
<1>4. CASE BeginImport
  BY <1>4 DEF BeginImport, Begin, UseImage, MakeItself
<1>5. CASE BeginReplace
  BY <1>5 DEF BeginReplace, Begin, MakeItself, FreshInv
<1>6. CASE ReuseRuntime
  BY <1>6 DEF ReuseRuntime, Continue
<1>7. CASE PrepareStorage
  BY <1>7 DEF PrepareStorage, Continue
<1>8. CASE DefineGuest
  BY <1>8 DEF DefineGuest, Continue
<1>9. CASE Register
  BY <1>9 DEF Register, Finish
<1>10. CASE UndefineGuest
  BY <1>10 DEF UndefineGuest, Continue
<1>11. CASE UnlinkVolume
  BY <1>11 DEF UnlinkVolume, Continue
<1>12. CASE DeleteIncus
  BY <1>12 DEF DeleteIncus, Continue
<1>13. CASE DropCompanion
  BY <1>13 DEF DropCompanion, Continue
<1>14. CASE Unregister
  BY <1>14 DEF Unregister, Finish
<1>15. CASE BringBackup
  BY <1>15 DEF BringBackup, Into, Continue
<1>16. CASE DefineImport
  BY <1>16 DEF DefineImport, Continue
<1>17. CASE PublishImport
  BY <1>17 DEF PublishImport, Into, Renamed, Continue
<1>18. CASE Undo
  BY <1>18 DEF Undo, Into, Failed, Finish
<1>19. CASE PlanReplacement
  BY <1>19 DEF PlanReplacement, Continue, ImportInv, Into
<1>20. CASE RetireOriginal
  BY <1>20 DEF RetireOriginal, Renamed, Continue
<1>21. CASE PublishStage
  BY <1>21 DEF PublishStage, Renamed, Continue
<1>22. CASE RollBack
  BY <1>22 DEF RollBack, Renamed, Failed, Finish
<1>23. CASE RetireCompanion
  BY <1>23 DEF RetireCompanion, Follow, Continue
<1>24. CASE PublishCompanion
  BY <1>24 DEF PublishCompanion, Follow, Continue
<1>25. CASE Commit
  BY <1>25 DEF Commit, Continue
<1>26. CASE RemoveOriginal
  BY <1>26 DEF RemoveOriginal, Continue
<1>27. CASE UnlinkOriginal
  BY <1>27 DEF UnlinkOriginal, Continue
<1>28. CASE CleanUp
  BY <1>28 DEF CleanUp, Continue
<1>29. CASE TakeSnapshot
  BY <1>29 DEF TakeSnapshot, control
<1>30. CASE FailOrCrash
  BY <1>30 DEF FailOrCrash, Failed, Finish
<1>31. CASE UNCHANGED vars
  BY <1>31 DEF vars, control
<1> QED
  BY <1>1, <1>2, <1>3, <1>4, <1>5, <1>6, <1>7, <1>8, <1>9, <1>10, <1>11, <1>12, <1>13,
     <1>14, <1>15, <1>16, <1>17, <1>18, <1>19, <1>20, <1>21, <1>22, <1>23, <1>24, <1>25,
     <1>26, <1>27, <1>28, <1>29, <1>30, <1>31 DEF Next, Request, CreateStep,
     DeleteStep, ImportStep, ReplaceStep

\* The plan outlives the original under its other name.
LEMMA PlanPreserved ==
    TypeOK /\ PhaseInv /\ FreshInv /\ ReplaceInv /\ PlanInv /\ [Next]_vars => PlanInv'
<1> SUFFICES ASSUME TypeOK, PhaseInv, FreshInv, ReplaceInv, PlanInv, [Next]_vars PROVE
        PlanInv'
  OBVIOUS
<1> USE NamesType, NamesDiffer, NumbersType DEF PlanInv, RetainedHasPlan, TypeOK,
        PhaseInv, disk, count
<1>1. CASE BeginCreate
  BY <1>1 DEF BeginCreate, Begin, Upload, UseImage
<1>2. CASE BeginDelete
  BY <1>2 DEF BeginDelete, Begin
<1>3. CASE BeginReinstall
  BY <1>3 DEF BeginReinstall, Begin, Upload, UseImage
<1>4. CASE BeginImport
  BY <1>4 DEF BeginImport, Begin, UseImage, MakeItself
<1>5. CASE BeginReplace
  BY <1>5 DEF BeginReplace, Begin, MakeItself
<1>6. CASE ReuseRuntime
  BY <1>6 DEF ReuseRuntime, Continue
<1>7. CASE PrepareStorage
  BY <1>7 DEF PrepareStorage, Continue
<1>8. CASE DefineGuest
  BY <1>8 DEF DefineGuest, Continue
<1>9. CASE Register
  BY <1>9 DEF Register, Finish
<1>10. CASE UndefineGuest
  BY <1>10 DEF UndefineGuest, Continue
<1>11. CASE UnlinkVolume
  BY <1>11 DEF UnlinkVolume, Continue
<1>12. CASE DeleteIncus
  BY <1>12 DEF DeleteIncus, Continue
<1>13. CASE DropCompanion
  BY <1>13 DEF DropCompanion, Continue
<1>14. CASE Unregister
  BY <1>14 DEF Unregister, Finish
<1>15. CASE BringBackup
  BY <1>15 DEF BringBackup, Into, Continue
<1>16. CASE DefineImport
  BY <1>16 DEF DefineImport, Continue
<1>17. CASE PublishImport
  BY <1>17 DEF PublishImport, Into, Renamed, Continue
<1>18. CASE Undo
  BY <1>18 DEF Undo, Into, Failed, Finish
<1>19. CASE PlanReplacement
  BY <1>19 DEF PlanReplacement, Continue
<1>20. CASE RetireOriginal
  BY <1>20 DEF RetireOriginal, Renamed, Continue
<1>21. CASE PublishStage
  BY <1>21 DEF PublishStage, Renamed, Continue
<1>22. CASE RollBack
  BY <1>22 DEF RollBack, Renamed, Failed, Finish
<1>23. CASE RetireCompanion
  BY <1>23 DEF RetireCompanion, Follow, Continue
<1>24. CASE PublishCompanion
  BY <1>24 DEF PublishCompanion, Follow, Continue
<1>25. CASE Commit
  BY <1>25 DEF Commit, Continue
<1>26. CASE RemoveOriginal
  BY <1>26 DEF RemoveOriginal, Continue
<1>27. CASE UnlinkOriginal
  BY <1>27 DEF UnlinkOriginal, Continue
<1>28. CASE CleanUp
  BY <1>28 DEF CleanUp, Continue, ReplaceInv
<1>29. CASE TakeSnapshot
  BY <1>29 DEF TakeSnapshot, control
<1>30. CASE FailOrCrash
  BY <1>30 DEF FailOrCrash, Failed, Finish
<1>31. CASE UNCHANGED vars
  BY <1>31 DEF vars, control
<1> QED
  BY <1>1, <1>2, <1>3, <1>4, <1>5, <1>6, <1>7, <1>8, <1>9, <1>10, <1>11, <1>12, <1>13,
     <1>14, <1>15, <1>16, <1>17, <1>18, <1>19, <1>20, <1>21, <1>22, <1>23, <1>24, <1>25,
     <1>26, <1>27, <1>28, <1>29, <1>30, <1>31 DEF Next, Request, CreateStep,
     DeleteStep, ImportStep, ReplaceStep

-----------------------------------------------------------------------------
(* The data of a guest.                                                    *)

\* Renaming into a free name loses nothing.
LEMMA RenamedKeeps ==
    ASSUME NEW f \in [Names -> Volumes \cup {None}], NEW n \in Names, NEW m \in Names,
           n # m, f[m] = None \/ f[n] = None, NEW v \in Volumes, NEW k \in Names, f[k] = v
    PROVE  \E j \in Names : Renamed(f, n, m)[j] = v
<1>1. CASE f[n] = None
  BY <1>1 DEF Renamed
<1>2. CASE f[n] # None /\ k = n
  <2>1. Renamed(f, n, m)[m] = v
    BY <1>2 DEF Renamed
  <2> QED BY <2>1
<1>3. CASE f[n] # None /\ k # n
  <2>1. k # m
    BY <1>3, NumbersType
  <2>2. Renamed(f, n, m)[k] = v
    BY <1>3, <2>1 DEF Renamed
  <2> QED BY <2>2
<1> QED BY <1>1, <1>2, <1>3

\* No step makes the data of a guest unreachable that must not.
LEMMA DataStep ==
    StorageInv /\ [Next]_vars => \A v \in Volumes : Kept(v) /\ ~Kept(v)' => MayLose(v)
<1> SUFFICES ASSUME StorageInv, [Next]_vars, NEW v \in Volumes, NEW k \in Names,
                    volume[v] = "guest", runtime[k] = v, ~MayLose(v)
             PROVE  volume'[v] = "guest" /\ \E n \in Names : runtime'[n] = v
  BY DEF Kept
<1> USE NamesType, NamesDiffer, NumbersType
<1> USE DEF StorageInv, TypeOK, PhaseInv, disk, count
<1>1. CASE BeginCreate
  BY <1>1 DEF BeginCreate, Begin, Upload, UseImage, FreshInv
<1>2. CASE BeginDelete
  BY <1>2 DEF BeginDelete, Begin
<1>3. CASE BeginReinstall
  BY <1>3 DEF BeginReinstall, Begin, Upload, UseImage, FreshInv
<1>4. CASE BeginImport
  BY <1>4 DEF BeginImport, Begin, UseImage, MakeItself
<1>5. CASE BeginReplace
  BY <1>5 DEF BeginReplace, Begin, MakeItself
<1>6. CASE ReuseRuntime
  BY <1>6 DEF ReuseRuntime, Continue
<1>7. CASE PrepareStorage
  BY <1>7 DEF PrepareStorage, Continue
<1>8. CASE DefineGuest
  BY <1>8 DEF DefineGuest, Continue
<1>9. CASE Register
  BY <1>9 DEF Register, Finish
<1>10. CASE UndefineGuest
  BY <1>10 DEF UndefineGuest, Continue, MayLose, FreshInv
<1>11. CASE UnlinkVolume
  BY <1>11 DEF UnlinkVolume, Continue, MayLose, FreshInv
<1>12. CASE DeleteIncus
  BY <1>12 DEF DeleteIncus, Continue, MayLose, FreshInv
<1>13. CASE DropCompanion
  BY <1>13 DEF DropCompanion, Continue
<1>14. CASE Unregister
  BY <1>14 DEF Unregister, Finish
<1>15. CASE BringBackup
  BY <1>15 DEF BringBackup, Into, Continue
<1>16. CASE DefineImport
  BY <1>16 DEF DefineImport, Continue, MayLose, FreshInv
<1>17. CASE PublishImport
  <2>1. Into \in Names /\ Import(vol) \in Names /\ Import(vol) # Into /\ runtime[Into] = None
    BY <1>17 DEF PublishImport, Into
  <2>2. \E n \in Names : Renamed(runtime, Import(vol), Into)[n] = v
    BY <2>1, RenamedKeeps
  <2> QED BY <1>17, <2>2 DEF PublishImport
<1>18. CASE Undo
  <2>1. v # vol
    BY <1>18 DEF Undo, MayLose
  <2>2. volume'[v] = "guest"
    BY <1>18, <2>1 DEF Undo
  <2>3. phase = "unpublished" => k # Import(vol)
    BY <2>1 DEF ImportInv
  <2>4. phase = "defined" => k # Into
    BY <2>1 DEF ImportInv
  <2>5. CASE phase = "brought"
    BY <1>18, <2>2, <2>5 DEF Undo
  <2>6. CASE phase = "unpublished"
    BY <1>18, <2>2, <2>3, <2>6 DEF Undo
  <2>7. CASE phase = "defined"
    BY <1>18, <2>2, <2>4, <2>7 DEF Undo
  <2> QED BY <1>18, <2>5, <2>6, <2>7 DEF Undo
<1>19. CASE PlanReplacement
  BY <1>19 DEF PlanReplacement, Continue
<1>20. CASE RetireOriginal
  <2> DEFINE R == Retained(vol)
  <2>1. R \in Names /\ Target # R /\ runtime[R] = None
    BY <1>20 DEF RetireOriginal, ReplaceInv
  <2>2. runtime' = Renamed(runtime, Target, R) /\ volume' = volume
    BY <1>20 DEF RetireOriginal
  <2> HIDE DEF R
  <2>3. \E n \in Names : Renamed(runtime, Target, R)[n] = v
    BY <2>1, RenamedKeeps
  <2> QED BY <2>2, <2>3
<1>21. CASE PublishStage
  <2> DEFINE S == Stage(vol)
  <2>1. S \in Names /\ Target # S /\ runtime[Target] = None
    BY <1>21 DEF PublishStage
  <2>2. runtime' = Renamed(runtime, S, Target) /\ volume' = volume
    BY <1>21 DEF PublishStage
  <2> HIDE DEF S
  <2>3. \E n \in Names : Renamed(runtime, S, Target)[n] = v
    BY <2>1, RenamedKeeps
  <2> QED BY <2>2, <2>3
<1>22. CASE RollBack
  <2> DEFINE R == Retained(vol)
  <2>1. R \in Names /\ Target # R /\ runtime[Target] = None
    BY <1>22 DEF RollBack, ReplaceInv
  <2>2. runtime' = Renamed(runtime, R, Target) /\ volume' = volume
    BY <1>22 DEF RollBack
  <2> HIDE DEF R
  <2>3. \E n \in Names : Renamed(runtime, R, Target)[n] = v
    BY <2>1, RenamedKeeps
  <2> QED BY <2>2, <2>3
<1>23. CASE RetireCompanion
  BY <1>23 DEF RetireCompanion, Follow, Continue
<1>24. CASE PublishCompanion
  BY <1>24 DEF PublishCompanion, Follow, Continue
<1>25. CASE Commit
  BY <1>25 DEF Commit, Continue
<1>26. CASE RemoveOriginal
  BY <1>26 DEF RemoveOriginal, Continue, MayLose, ReplaceInv, PlanInv, Kept
<1>27. CASE UnlinkOriginal
  BY <1>27 DEF UnlinkOriginal, Continue, MayLose, ReplaceInv, PlanInv, Kept
<1>28. CASE CleanUp
  BY <1>28 DEF CleanUp, Continue
<1>29. CASE TakeSnapshot
  BY <1>29 DEF TakeSnapshot, control
<1>30. CASE FailOrCrash
  BY <1>30 DEF FailOrCrash, Failed, Finish
<1>31. CASE UNCHANGED vars
  BY <1>31 DEF vars
<1> QED
  BY <1>1, <1>2, <1>3, <1>4, <1>5, <1>6, <1>7, <1>8, <1>9, <1>10, <1>11, <1>12, <1>13,
     <1>14, <1>15, <1>16, <1>17, <1>18, <1>19, <1>20, <1>21, <1>22, <1>23, <1>24, <1>25,
     <1>26, <1>27, <1>28, <1>29, <1>30, <1>31 DEF Next, Request, CreateStep,
     DeleteStep, ImportStep, ReplaceStep

-----------------------------------------------------------------------------
(* What goes with a guest.                                                 *)

\* No runtime has a volume that no request has brought, and no name a companion that
\* belongs to a nonce no replacement has drawn.
MadeInv ==
    /\ \A n \in Names : runtime[n] # None => runtime[n] <= made
    /\ \A u \in Uploads : u > made => companion[Retained(u)] = None

\* What goes with the original and the backup, in every phase of an import and a
\* replacement.
WholeInv ==
    /\ phase \in {"brought", "unpublished", "defined"} => companion[Into] \in {None, vol}
    /\ phase = "cleaned" => job = "replace"
    /\ job = "replace" =>
        /\ old # vol /\ old # None
        /\ phase \in {"importing", "brought", "unpublished", "defined", "planned", "retired",
                      "published"} => companion[Retained(vol)] = None
        /\ phase \in {"planned", "retired", "published", "rearranged"} =>
               companion[Stage(vol)] \in {None, vol}
        /\ phase \in {"published", "rearranged", "switched", "committed", "unlinking",
                      "removed", "cleaned"} =>
               runtime[Target] = vol /\ volume[vol] = "guest" /\ runtime[Stage(vol)] = None
        /\ phase = "rearranged" => companion[Target] = None
        /\ phase \in {"switched", "committed", "unlinking", "removed", "cleaned"} =>
               companion[Target] \in {None, vol} /\ companion[Stage(vol)] = None
        /\ phase \in {"removed", "cleaned"} => runtime[Retained(vol)] = None /\ volume[old] = "none"
        /\ phase = "removed" => plan[vol] = "committed"
        /\ phase = "cleaned" => companion[Retained(vol)] = None

\* Only what has been brought is used.
LEMMA MadePreserved ==
    TypeOK /\ PhaseInv /\ FreshInv /\ MadeInv /\ [Next]_vars => MadeInv'
<1> SUFFICES ASSUME TypeOK, PhaseInv, FreshInv, MadeInv, [Next]_vars PROVE MadeInv'
  OBVIOUS
<1> USE NamesType, NamesDiffer, NumbersType DEF MadeInv, TypeOK, PhaseInv, FreshInv,
        disk, count
<1>1. CASE BeginCreate
  BY <1>1 DEF BeginCreate, Begin, Upload, UseImage
<1>2. CASE BeginDelete
  BY <1>2 DEF BeginDelete, Begin
<1>3. CASE BeginReinstall
  BY <1>3 DEF BeginReinstall, Begin, Upload, UseImage
<1>4. CASE BeginImport
  BY <1>4 DEF BeginImport, Begin, UseImage, MakeItself
<1>5. CASE BeginReplace
  BY <1>5 DEF BeginReplace, Begin, MakeItself
<1>6. CASE ReuseRuntime
  BY <1>6 DEF ReuseRuntime, Continue
<1>7. CASE PrepareStorage
  BY <1>7 DEF PrepareStorage, Continue
<1>8. CASE DefineGuest
  BY <1>8 DEF DefineGuest, Continue
<1>9. CASE Register
  BY <1>9 DEF Register, Finish
<1>10. CASE UndefineGuest
  BY <1>10 DEF UndefineGuest, Continue
<1>11. CASE UnlinkVolume
  BY <1>11 DEF UnlinkVolume, Continue
<1>12. CASE DeleteIncus
  BY <1>12 DEF DeleteIncus, Continue
<1>13. CASE DropCompanion
  BY <1>13 DEF DropCompanion, Continue
<1>14. CASE Unregister
  BY <1>14 DEF Unregister, Finish
<1>15. CASE BringBackup
  BY <1>15 DEF BringBackup, Into, Continue
<1>16. CASE DefineImport
  BY <1>16 DEF DefineImport, Continue
<1>17. CASE PublishImport
  BY <1>17 DEF PublishImport, Into, Renamed, Continue
<1>18. CASE Undo
  BY <1>18 DEF Undo, Into, Failed, Finish
<1>19. CASE PlanReplacement
  BY <1>19 DEF PlanReplacement, Continue
<1>20. CASE RetireOriginal
  BY <1>20 DEF RetireOriginal, Renamed, Continue
<1>21. CASE PublishStage
  BY <1>21 DEF PublishStage, Renamed, Continue
<1>22. CASE RollBack
  BY <1>22 DEF RollBack, Renamed, Failed, Finish
<1>23. CASE RetireCompanion
  BY <1>23 DEF RetireCompanion, Follow, Continue, Renamed
<1>24. CASE PublishCompanion
  BY <1>24 DEF PublishCompanion, Follow, Continue, Renamed
<1>25. CASE Commit
  BY <1>25 DEF Commit, Continue
<1>26. CASE RemoveOriginal
  BY <1>26 DEF RemoveOriginal, Continue
<1>27. CASE UnlinkOriginal
  BY <1>27 DEF UnlinkOriginal, Continue
<1>28. CASE CleanUp
  BY <1>28 DEF CleanUp, Continue
<1>29. CASE TakeSnapshot
  BY <1>29 DEF TakeSnapshot, control
<1>30. CASE FailOrCrash
  BY <1>30 DEF FailOrCrash, Failed, Finish
<1>31. CASE UNCHANGED vars
  BY <1>31 DEF vars, control
<1> QED
  BY <1>1, <1>2, <1>3, <1>4, <1>5, <1>6, <1>7, <1>8, <1>9, <1>10, <1>11, <1>12, <1>13,
     <1>14, <1>15, <1>16, <1>17, <1>18, <1>19, <1>20, <1>21, <1>22, <1>23, <1>24, <1>25,
     <1>26, <1>27, <1>28, <1>29, <1>30, <1>31 DEF Next, Request, CreateStep,
     DeleteStep, ImportStep, ReplaceStep

\* A replacement moves all that goes with the original and the backup.
LEMMA WholePreserved ==
    TypeOK /\ StorageInv /\ MadeInv /\ WholeInv /\ [Next]_vars => WholeInv'
<1> SUFFICES ASSUME TypeOK, StorageInv, MadeInv, WholeInv, [Next]_vars PROVE WholeInv'
  OBVIOUS
<1> USE NamesType, NamesDiffer, NumbersType DEF WholeInv, StorageInv, TypeOK, PhaseInv,
        disk, count
<1>1. CASE BeginCreate
  BY <1>1 DEF BeginCreate, Begin, Upload, UseImage
<1>2. CASE BeginDelete
  BY <1>2 DEF BeginDelete, Begin
<1>3. CASE BeginReinstall
  BY <1>3 DEF BeginReinstall, Begin, Upload, UseImage
<1>4. CASE BeginImport
  BY <1>4 DEF BeginImport, Begin, UseImage, MakeItself
<1>5. CASE BeginReplace
  BY <1>5 DEF BeginReplace, Begin, MakeItself, MadeInv, FreshInv
<1>6. CASE ReuseRuntime
  BY <1>6 DEF ReuseRuntime, Continue
<1>7. CASE PrepareStorage
  BY <1>7 DEF PrepareStorage, Continue
<1>8. CASE DefineGuest
  BY <1>8 DEF DefineGuest, Continue
<1>9. CASE Register
  BY <1>9 DEF Register, Finish
<1>10. CASE UndefineGuest
  BY <1>10 DEF UndefineGuest, Continue
<1>11. CASE UnlinkVolume
  BY <1>11 DEF UnlinkVolume, Continue
<1>12. CASE DeleteIncus
  BY <1>12 DEF DeleteIncus, Continue
<1>13. CASE DropCompanion
  BY <1>13 DEF DropCompanion, Continue
<1>14. CASE Unregister
  BY <1>14 DEF Unregister, Finish
<1>15. CASE BringBackup
  BY <1>15 DEF BringBackup, Into, Continue
<1>16. CASE DefineImport
  BY <1>16 DEF DefineImport, Continue, Into
<1>17. CASE PublishImport
  BY <1>17 DEF PublishImport, Into, Renamed, Continue
<1>18. CASE Undo
  BY <1>18 DEF Undo, Into, Failed, Finish
<1>19. CASE PlanReplacement
  BY <1>19 DEF PlanReplacement, Continue, Into
<1>20. CASE RetireOriginal
  BY <1>20 DEF RetireOriginal, Renamed, Continue
<1>21. CASE PublishStage
  BY <1>21 DEF PublishStage, Renamed, Continue, ReplaceInv
<1>22. CASE RollBack
  BY <1>22 DEF RollBack, Renamed, Failed, Finish
<1>23. CASE RetireCompanion
  BY <1>23 DEF RetireCompanion, Follow, Continue, Renamed
<1>24. CASE PublishCompanion
  BY <1>24 DEF PublishCompanion, Follow, Continue, Renamed
<1>25. CASE Commit
  BY <1>25 DEF Commit, Continue
<1>26. CASE RemoveOriginal
  BY <1>26 DEF RemoveOriginal, Continue, ReplaceInv, PlanInv
<1>27. CASE UnlinkOriginal
  BY <1>27 DEF UnlinkOriginal, Continue, ReplaceInv, PlanInv
<1>28. CASE CleanUp
  BY <1>28 DEF CleanUp, Continue
<1>29. CASE TakeSnapshot
  BY <1>29 DEF TakeSnapshot, control
<1>30. CASE FailOrCrash
  BY <1>30 DEF FailOrCrash, Failed, Finish
<1>31. CASE UNCHANGED vars
  BY <1>31 DEF vars, control, Into
<1> QED
  BY <1>1, <1>2, <1>3, <1>4, <1>5, <1>6, <1>7, <1>8, <1>9, <1>10, <1>11, <1>12, <1>13,
     <1>14, <1>15, <1>16, <1>17, <1>18, <1>19, <1>20, <1>21, <1>22, <1>23, <1>24, <1>25,
     <1>26, <1>27, <1>28, <1>29, <1>30, <1>31 DEF Next, Request, CreateStep,
     DeleteStep, ImportStep, ReplaceStep

\* No step takes the snapshots or the profile from a guest that must not.
LEMMA CompanionStep ==
    StorageInv /\ WholeInv /\ [Next]_vars =>
        \A v \in Volumes : KeptWhole(v) /\ ~KeptWhole(v)' =>
            \/ MayLose(v)
            \/ job \in {"delete", "reinstall"} /\ companion[Target] = v
            \/ /\ job = "replace" /\ companion[Retained(vol)] = v
               /\ plan[vol] = "committed" /\ runtime[Target] = vol /\ Kept(vol)
<1> SUFFICES ASSUME StorageInv, WholeInv, [Next]_vars, NEW v \in Volumes, NEW k \in Names,
                    Kept(v), companion[k] = v, ~MayLose(v),
                    ~(job \in {"delete", "reinstall"} /\ companion[Target] = v),
                    ~(/\ job = "replace" /\ companion[Retained(vol)] = v
                      /\ plan[vol] = "committed" /\ runtime[Target] = vol /\ Kept(vol))
             PROVE  \E n \in Names : companion'[n] = v
  BY DataStep DEF KeptWhole
<1> USE NamesType, NamesDiffer, NumbersType
<1> USE DEF StorageInv, TypeOK, PhaseInv, disk, count
<1>1. CASE BeginCreate
  BY <1>1 DEF BeginCreate, Begin, Upload, UseImage
<1>2. CASE BeginDelete
  BY <1>2 DEF BeginDelete, Begin
<1>3. CASE BeginReinstall
  BY <1>3 DEF BeginReinstall, Begin, Upload, UseImage
<1>4. CASE BeginImport
  BY <1>4 DEF BeginImport, Begin, UseImage, MakeItself
<1>5. CASE BeginReplace
  BY <1>5 DEF BeginReplace, Begin, MakeItself
<1>6. CASE ReuseRuntime
  BY <1>6 DEF ReuseRuntime, Continue
<1>7. CASE PrepareStorage
  BY <1>7 DEF PrepareStorage, Continue, Removable, Kept
<1>8. CASE DefineGuest
  BY <1>8 DEF DefineGuest, Continue
<1>9. CASE Register
  BY <1>9 DEF Register, Finish
<1>10. CASE UndefineGuest
  BY <1>10 DEF UndefineGuest, Continue
<1>11. CASE UnlinkVolume
  BY <1>11 DEF UnlinkVolume, Continue
<1>12. CASE DeleteIncus
  BY <1>12 DEF DeleteIncus, Continue
<1>13. CASE DropCompanion
  BY <1>13 DEF DropCompanion, Continue
<1>14. CASE Unregister
  BY <1>14 DEF Unregister, Finish
<1>15. CASE BringBackup
  BY <1>15 DEF BringBackup, Into, Continue
<1>16. CASE DefineImport
  BY <1>16 DEF DefineImport, Continue
<1>17. CASE PublishImport
  BY <1>17 DEF PublishImport, Into, Renamed, Continue
<1>18. CASE Undo
  BY <1>18 DEF Undo, Into, MayLose, WholeInv
<1>19. CASE PlanReplacement
  BY <1>19 DEF PlanReplacement, Continue
<1>20. CASE RetireOriginal
  BY <1>20 DEF RetireOriginal, Renamed, Continue
<1>21. CASE PublishStage
  BY <1>21 DEF PublishStage, Renamed, Continue
<1>22. CASE RollBack
  BY <1>22 DEF RollBack, Renamed, Failed, Finish
<1>23. CASE RetireCompanion
  <2> DEFINE R == Retained(vol)
  <2>1. R \in Names /\ Target # R /\ companion[R] = None
    BY <1>23 DEF RetireCompanion, WholeInv
  <2>2. companion' = Renamed(companion, Target, R)
    BY <1>23 DEF RetireCompanion, Follow
  <2> HIDE DEF R
  <2>3. \E n \in Names : Renamed(companion, Target, R)[n] = v
    BY <2>1, RenamedKeeps
  <2> QED BY <2>2, <2>3
<1>24. CASE PublishCompanion
  <2> DEFINE S == Stage(vol)
  <2>1. S \in Names /\ Target # S /\ companion[Target] = None
    BY <1>24 DEF PublishCompanion, WholeInv
  <2>2. companion' = Renamed(companion, S, Target)
    BY <1>24 DEF PublishCompanion, Follow
  <2> HIDE DEF S
  <2>3. \E n \in Names : Renamed(companion, S, Target)[n] = v
    BY <2>1, RenamedKeeps
  <2> QED BY <2>2, <2>3
<1>25. CASE Commit
  BY <1>25 DEF Commit, Continue
<1>26. CASE RemoveOriginal
  BY <1>26 DEF RemoveOriginal, Continue
<1>27. CASE UnlinkOriginal
  BY <1>27 DEF UnlinkOriginal, Continue
<1>28. CASE CleanUp
  BY <1>28 DEF CleanUp, Continue, WholeInv, Kept
<1>29. CASE TakeSnapshot
  BY <1>29 DEF TakeSnapshot, control
<1>30. CASE FailOrCrash
  BY <1>30 DEF FailOrCrash, Failed, Finish
<1>31. CASE UNCHANGED vars
  BY <1>31 DEF vars
<1> QED
  BY <1>1, <1>2, <1>3, <1>4, <1>5, <1>6, <1>7, <1>8, <1>9, <1>10, <1>11, <1>12, <1>13,
     <1>14, <1>15, <1>16, <1>17, <1>18, <1>19, <1>20, <1>21, <1>22, <1>23, <1>24, <1>25,
     <1>26, <1>27, <1>28, <1>29, <1>30, <1>31 DEF Next, Request, CreateStep,
     DeleteStep, ImportStep, ReplaceStep

-----------------------------------------------------------------------------
(* The disk of the guest that has the name of the instance.                *)

\* The name is free where an operation may remove or bring a volume, and the original of
\* a replacement, under whatever name, has its disk until it may be removed.
GuestInv ==
    /\ TargetHasVolume
    /\ phase = "undefined" => runtime[Target] = None
    /\ job = "import" /\ phase \in {"importing", "brought", "unpublished"} =>
           runtime[Target] = None
    /\ job = "replace" /\ phase = "retired" => volume[old] = "guest"

LEMMA GuestPreserved ==
    StorageInv /\ MadeInv /\ WholeInv /\ GuestInv /\ [Next]_vars => GuestInv'
<1> SUFFICES ASSUME StorageInv, MadeInv, WholeInv, GuestInv, [Next]_vars PROVE GuestInv'
  OBVIOUS
<1> USE NamesType, NamesDiffer, NumbersType DEF GuestInv, TargetHasVolume, StorageInv,
        TypeOK, PhaseInv, disk, count
<1>1. CASE BeginCreate
  BY <1>1 DEF BeginCreate, Begin, Upload, UseImage, MadeInv
<1>2. CASE BeginDelete
  BY <1>2 DEF BeginDelete, Begin
<1>3. CASE BeginReinstall
  BY <1>3 DEF BeginReinstall, Begin, Upload, UseImage, MadeInv
<1>4. CASE BeginImport
  BY <1>4 DEF BeginImport, Begin, UseImage, MakeItself
<1>5. CASE BeginReplace
  BY <1>5 DEF BeginReplace, Begin, MakeItself, TypeOK
<1>6. CASE ReuseRuntime
  BY <1>6 DEF ReuseRuntime, Continue
<1>7. CASE PrepareStorage
  BY <1>7 DEF PrepareStorage, Continue
<1>8. CASE DefineGuest
  BY <1>8 DEF DefineGuest, Continue
<1>9. CASE Register
  BY <1>9 DEF Register, Finish
<1>10. CASE UndefineGuest
  BY <1>10 DEF UndefineGuest, Continue
<1>11. CASE UnlinkVolume
  BY <1>11 DEF UnlinkVolume, Continue
<1>12. CASE DeleteIncus
  BY <1>12 DEF DeleteIncus, Continue, FreshInv
<1>13. CASE DropCompanion
  BY <1>13 DEF DropCompanion, Continue
<1>14. CASE Unregister
  BY <1>14 DEF Unregister, Finish
<1>15. CASE BringBackup
  BY <1>15 DEF BringBackup, Into, Continue
<1>16. CASE DefineImport
  BY <1>16 DEF DefineImport, Continue, Into
<1>17. CASE PublishImport
  BY <1>17 DEF PublishImport, Into, Renamed, Continue, ImportInv
<1>18. CASE Undo
  BY <1>18 DEF Undo, Into, Failed, Finish, ImportInv, ReplaceInv, WholeInv
<1>19. CASE PlanReplacement
  BY <1>19 DEF PlanReplacement, Continue
<1>20. CASE RetireOriginal
  BY <1>20 DEF RetireOriginal, Renamed, Continue, ReplaceInv
<1>21. CASE PublishStage
  BY <1>21 DEF PublishStage, Renamed, Continue, ReplaceInv
<1>22. CASE RollBack
  BY <1>22 DEF RollBack, Renamed, Failed, Finish, ReplaceInv
<1>23. CASE RetireCompanion
  BY <1>23 DEF RetireCompanion, Follow, Continue
<1>24. CASE PublishCompanion
  BY <1>24 DEF PublishCompanion, Follow, Continue
<1>25. CASE Commit
  BY <1>25 DEF Commit, Continue
<1>26. CASE RemoveOriginal
  BY <1>26 DEF RemoveOriginal, Continue, ReplaceInv, WholeInv
<1>27. CASE UnlinkOriginal
  BY <1>27 DEF UnlinkOriginal, Continue, ReplaceInv, WholeInv
<1>28. CASE CleanUp
  BY <1>28 DEF CleanUp, Continue
<1>29. CASE TakeSnapshot
  BY <1>29 DEF TakeSnapshot, control
<1>30. CASE FailOrCrash
  BY <1>30 DEF FailOrCrash, Failed, Finish
<1>31. CASE UNCHANGED vars
  BY <1>31 DEF vars, control
<1> QED
  BY <1>1, <1>2, <1>3, <1>4, <1>5, <1>6, <1>7, <1>8, <1>9, <1>10, <1>11, <1>12, <1>13,
     <1>14, <1>15, <1>16, <1>17, <1>18, <1>19, <1>20, <1>21, <1>22, <1>23, <1>24, <1>25,
     <1>26, <1>27, <1>28, <1>29, <1>30, <1>31 DEF Next, Request, CreateStep,
     DeleteStep, ImportStep, ReplaceStep

\* No volume that a reinstall is about to give to an Incus guest has been another's.
FreshIncusInv ==
    driver = "incus" /\ job = "reinstall"
        /\ phase \in {"deleting", "undefined", "unlinked", "creating", "prepared"} => volume[vol] # "guest"

LEMMA FreshIncusPreserved ==
    StorageInv /\ FreshIncusInv /\ [Next]_vars => FreshIncusInv'
<1> SUFFICES ASSUME StorageInv, FreshIncusInv, [Next]_vars PROVE FreshIncusInv'
  OBVIOUS
<1> USE NamesType, NumbersType DEF FreshIncusInv, StorageInv, TypeOK, PhaseInv, disk, count
<1>1. CASE BeginCreate
  BY <1>1 DEF BeginCreate, Begin, Upload, UseImage
<1>2. CASE BeginDelete
  BY <1>2 DEF BeginDelete, Begin
<1>3. CASE BeginReinstall
  BY <1>3 DEF BeginReinstall, Begin, Upload, UseImage, FreshInv
<1>4. CASE BeginImport
  BY <1>4 DEF BeginImport, Begin, UseImage, MakeItself
<1>5. CASE BeginReplace
  BY <1>5 DEF BeginReplace, Begin, MakeItself, TypeOK
<1>6. CASE ReuseRuntime
  BY <1>6 DEF ReuseRuntime, Continue
<1>7. CASE PrepareStorage
  BY <1>7 DEF PrepareStorage, Continue
<1>8. CASE DefineGuest
  BY <1>8 DEF DefineGuest, Continue
<1>9. CASE Register
  BY <1>9 DEF Register, Finish
<1>10. CASE UndefineGuest
  BY <1>10 DEF UndefineGuest, Continue
<1>11. CASE UnlinkVolume
  BY <1>11 DEF UnlinkVolume, Continue
<1>12. CASE DeleteIncus
  BY <1>12 DEF DeleteIncus, Continue
<1>13. CASE DropCompanion
  BY <1>13 DEF DropCompanion, Continue
<1>14. CASE Unregister
  BY <1>14 DEF Unregister, Finish
<1>15. CASE BringBackup
  BY <1>15 DEF BringBackup, Into, Continue
<1>16. CASE DefineImport
  BY <1>16 DEF DefineImport, Continue
<1>17. CASE PublishImport
  BY <1>17 DEF PublishImport, Into, Renamed, Continue
<1>18. CASE Undo
  BY <1>18 DEF Undo, Into, Failed, Finish
<1>19. CASE PlanReplacement
  BY <1>19 DEF PlanReplacement, Continue
<1>20. CASE RetireOriginal
  BY <1>20 DEF RetireOriginal, Renamed, Continue
<1>21. CASE PublishStage
  BY <1>21 DEF PublishStage, Renamed, Continue
<1>22. CASE RollBack
  BY <1>22 DEF RollBack, Renamed, Failed, Finish
<1>23. CASE RetireCompanion
  BY <1>23 DEF RetireCompanion, Follow, Continue
<1>24. CASE PublishCompanion
  BY <1>24 DEF PublishCompanion, Follow, Continue
<1>25. CASE Commit
  BY <1>25 DEF Commit, Continue
<1>26. CASE RemoveOriginal
  BY <1>26 DEF RemoveOriginal, Continue
<1>27. CASE UnlinkOriginal
  BY <1>27 DEF UnlinkOriginal, Continue
<1>28. CASE CleanUp
  BY <1>28 DEF CleanUp, Continue
<1>29. CASE TakeSnapshot
  BY <1>29 DEF TakeSnapshot, control
<1>30. CASE FailOrCrash
  BY <1>30 DEF FailOrCrash, Failed, Finish
<1>31. CASE UNCHANGED vars
  BY <1>31 DEF vars, control
<1> QED
  BY <1>1, <1>2, <1>3, <1>4, <1>5, <1>6, <1>7, <1>8, <1>9, <1>10, <1>11, <1>12, <1>13,
     <1>14, <1>15, <1>16, <1>17, <1>18, <1>19, <1>20, <1>21, <1>22, <1>23, <1>24, <1>25,
     <1>26, <1>27, <1>28, <1>29, <1>30, <1>31 DEF Next, Request, CreateStep,
     DeleteStep, ImportStep, ReplaceStep

\* A reinstall of an Incus guest gets the name of the instance in one step only.
LEMMA IncusNames ==
    ASSUME StorageInv, [Next]_vars, driver = "incus", job = "reinstall",
           runtime[Target] = None, runtime'[Target] # None
    PROVE  phase = "prepared" /\ runtime'[Target] = vol
<1> USE NamesType, NamesDiffer, NumbersType DEF StorageInv, TypeOK, PhaseInv, disk, count
<1>1. CASE BeginCreate
  BY <1>1 DEF BeginCreate, Begin, Upload, UseImage
<1>2. CASE BeginDelete
  BY <1>2 DEF BeginDelete, Begin
<1>3. CASE BeginReinstall
  BY <1>3 DEF BeginReinstall, Begin, Upload, UseImage
<1>4. CASE BeginImport
  BY <1>4 DEF BeginImport, Begin, UseImage, MakeItself
<1>5. CASE BeginReplace
  BY <1>5 DEF BeginReplace, Begin, MakeItself, TypeOK
<1>6. CASE ReuseRuntime
  BY <1>6 DEF ReuseRuntime, Continue
<1>7. CASE PrepareStorage
  BY <1>7 DEF PrepareStorage, Continue
<1>8. CASE DefineGuest
  BY <1>8 DEF DefineGuest, Continue
<1>9. CASE Register
  BY <1>9 DEF Register, Finish
<1>10. CASE UndefineGuest
  BY <1>10 DEF UndefineGuest, Continue
<1>11. CASE UnlinkVolume
  BY <1>11 DEF UnlinkVolume, Continue
<1>12. CASE DeleteIncus
  BY <1>12 DEF DeleteIncus, Continue
<1>13. CASE DropCompanion
  BY <1>13 DEF DropCompanion, Continue
<1>14. CASE Unregister
  BY <1>14 DEF Unregister, Finish
<1>15. CASE BringBackup
  BY <1>15 DEF BringBackup, Into, Continue
<1>16. CASE DefineImport
  BY <1>16 DEF DefineImport, Continue
<1>17. CASE PublishImport
  BY <1>17 DEF PublishImport, Into, Renamed, Continue
<1>18. CASE Undo
  BY <1>18 DEF Undo, Into, Failed, Finish
<1>19. CASE PlanReplacement
  BY <1>19 DEF PlanReplacement, Continue
<1>20. CASE RetireOriginal
  BY <1>20 DEF RetireOriginal, Renamed, Continue
<1>21. CASE PublishStage
  BY <1>21 DEF PublishStage, Renamed, Continue
<1>22. CASE RollBack
  BY <1>22 DEF RollBack, Renamed, Failed, Finish
<1>23. CASE RetireCompanion
  BY <1>23 DEF RetireCompanion, Follow, Continue
<1>24. CASE PublishCompanion
  BY <1>24 DEF PublishCompanion, Follow, Continue
<1>25. CASE Commit
  BY <1>25 DEF Commit, Continue
<1>26. CASE RemoveOriginal
  BY <1>26 DEF RemoveOriginal, Continue
<1>27. CASE UnlinkOriginal
  BY <1>27 DEF UnlinkOriginal, Continue
<1>28. CASE CleanUp
  BY <1>28 DEF CleanUp, Continue
<1>29. CASE TakeSnapshot
  BY <1>29 DEF TakeSnapshot, control
<1>30. CASE FailOrCrash
  BY <1>30 DEF FailOrCrash, Failed, Finish
<1>31. CASE UNCHANGED vars
  BY <1>31 DEF vars, control
<1> QED
  BY <1>1, <1>2, <1>3, <1>4, <1>5, <1>6, <1>7, <1>8, <1>9, <1>10, <1>11, <1>12, <1>13,
     <1>14, <1>15, <1>16, <1>17, <1>18, <1>19, <1>20, <1>21, <1>22, <1>23, <1>24, <1>25,
     <1>26, <1>27, <1>28, <1>29, <1>30, <1>31 DEF Next, Request, CreateStep,
     DeleteStep, ImportStep, ReplaceStep

-----------------------------------------------------------------------------
(* Theorems.                                                               *)

\* The invariant holds in every state, whatever fails and however often.
THEOREM StorageInvariant == Spec => []StorageInv
<1>1. Init => StorageInv
  BY NamesType, NamesDiffer, NumbersType
  DEF Init, StorageInv, TypeOK, PhaseInv, FreshInv, ImportInv, ReplaceInv, PlanInv,
      RetainedHasPlan, Jobs, Phases
<1>2. StorageInv /\ [Next]_vars => StorageInv'
  BY TypeStep, PhasePreserved, FreshPreserved, ImportPreserved, ReplacePreserved,
     PlanPreserved DEF StorageInv
<1> QED BY <1>1, <1>2, PTL DEF Spec

\* Every state of the storage model is well typed.
THEOREM TypeCorrect == Spec => []TypeOK
<1>1. StorageInv => TypeOK
  BY DEF StorageInv
<1> QED BY <1>1, StorageInvariant, PTL

\* An original that a replacement has put aside has a plan an operator can find it by,
\* from before it is renamed until it is gone (replacementPlan, RemoveAll).
THEOREM RetainedPlanned == Spec => []RetainedHasPlan
<1>1. StorageInv => RetainedHasPlan
  BY DEF StorageInv, PlanInv
<1> QED BY <1>1, StorageInvariant, PTL

\* Only a delete, a reinstall, a failing import and a committed replacement make the
\* data of a guest unreachable, and they only that of theirs (replacement.go:17).
THEOREM DataIsKept == Spec => DataSurvives
<1>1. StorageInv /\ [Next]_vars
        => [\A v \in Volumes : Kept(v) /\ ~Kept(v)' => MayLose(v)]_vars
  BY DataStep
<1> QED BY <1>1, StorageInvariant, PTL DEF Spec, DataSurvives

\* So are the invariants of what goes with a guest.
LEMMA WholeInvariant == Spec => [](MadeInv /\ WholeInv)
<1>1. Init => MadeInv /\ WholeInv
  BY NamesType, NumbersType DEF Init, MadeInv, WholeInv
<1>2. StorageInv /\ MadeInv /\ WholeInv /\ [Next]_vars => (MadeInv /\ WholeInv)'
  BY MadePreserved, WholePreserved DEF StorageInv
<1> QED BY <1>1, <1>2, StorageInvariant, PTL DEF Spec

\* A replacement that is about to report success has put the backup in the place of the
\* original, with all that belongs to it, and has left nothing behind.
THEOREM ReplacementIsWhole == Spec => []ReplacedIsWhole
<1>1. StorageInv /\ WholeInv => ReplacedIsWhole
  BY NamesType DEF WholeInv, ReplacedIsWhole, Kept
<1> QED BY <1>1, StorageInvariant, WholeInvariant, PTL

\* The snapshots or the profile of a guest stay with it like its data, although they are
\* renamed in other steps (ReplaceImport).
THEOREM CompanionsAreKept == Spec => CompanionsSurvive
<1> DEFINE A == \A v \in Volumes : KeptWhole(v) /\ ~KeptWhole(v)' =>
            \/ MayLose(v)
            \/ job \in {"delete", "reinstall"} /\ companion[Target] = v
            \/ /\ job = "replace" /\ companion[Retained(vol)] = v
               /\ plan[vol] = "committed" /\ runtime[Target] = vol /\ Kept(vol)
<1>1. StorageInv /\ WholeInv /\ [Next]_vars => [A]_vars
  BY CompanionStep
<1> QED BY <1>1, StorageInvariant, WholeInvariant, PTL DEF Spec, CompanionsSurvive

\* The runtime with the name of the instance always has its disk: nothing removes the
\* volume first, or that of another (QEMU.Delete, importOps.compensate, ReplaceImport).
THEOREM GuestHasVolume == Spec => []TargetHasVolume
<1>1. Init => GuestInv
  BY NamesType DEF Init, GuestInv, TargetHasVolume
<1>2. StorageInv /\ MadeInv /\ WholeInv /\ GuestInv /\ [Next]_vars => GuestInv'
  BY GuestPreserved
<1>3. GuestInv => TargetHasVolume
  BY DEF GuestInv
<1> QED BY <1>1, <1>2, <1>3, StorageInvariant, WholeInvariant, PTL DEF Spec

\* A reinstall never gives the volume of an old guest to a new one of Incus, after any
\* failures: the flaw of ReinstallIsFresh is one of QEMU only (Incus.Delete).
THEOREM IncusReinstalls == Spec => IncusReinstallIsFresh
<1> DEFINE A == (/\ driver = "incus" /\ job = "reinstall"
                 /\ runtime[Target] = None /\ runtime'[Target] # None)
                    => volume[runtime'[Target]] # "guest"
<1>1. Init => FreshIncusInv
  BY DEF Init, FreshIncusInv
<1>2. StorageInv /\ FreshIncusInv /\ [Next]_vars => FreshIncusInv'
  BY FreshIncusPreserved
<1>3. StorageInv /\ FreshIncusInv /\ [Next]_vars => [A]_vars
  BY IncusNames DEF FreshIncusInv
<1> QED BY <1>1, <1>2, <1>3, StorageInvariant, PTL DEF Spec, IncusReinstallIsFresh
=============================================================================
