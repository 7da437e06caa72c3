-------------------------- MODULE InstanceStorage --------------------------
(***************************************************************************)
(* What becomes of the storage of one instance: the volumes of its guests, *)
(* the runtimes (libvirt domains, Incus instances) that use them, what     *)
(* goes with a runtime (the snapshot directory of QEMU, the profile of     *)
(* Incus), and the records, over create, delete, reinstall, import and     *)
(* above all ReplaceImport (internal/driver/replacement.go), which imports *)
(* a backup beside the original, exchanges the names, and only then        *)
(* removes the original.                                                   *)
(*                                                                         *)
(* The operations of an instance exclude each other (OperationLease).  Any *)
(* of their steps may fail, and the agent may crash between two of them.   *)
(* All their errors look alike to the master, which may send any request   *)
(* next.  Whether a guest runs is left out: a request for a running guest  *)
(* that must be stopped is refused, as any other that fails.               *)
(***************************************************************************)
EXTENDS Integers

CONSTANTS Drivers,      \* the drivers an instance may have: "qemu", "incus"
          MaxVolumes,   \* bound: uploads, imports and Incus guests, in all
          MaxFailures,  \* bound: operations that fail or are cut short, in all
          None

ASSUME DriversAssumption == Drivers \subseteq {"qemu", "incus"}
ASSUME BoundsAssumption == MaxVolumes \in Nat /\ MaxFailures \in Nat
ASSUME NoneAssumption == None \notin Nat

\* 0 is the disk a QEMU instance without an uploaded image has, images/<name>.qcow2,
\* or a first volume of an Incus instance; all others are new with their request.
Uploads == 1..MaxVolumes
Volumes == {0} \cup Uploads

\* The names of runtimes: of the instance itself, of an import of v that is not
\* published yet, and, with the nonce of the replacement that has imported v, of the
\* backup and of the original that is put aside.
Target      == <<"target", 0>>
Import(v)   == <<"import", v>>
Stage(v)    == <<"stage", v>>
Retained(v) == <<"retained", v>>
Names == {Target} \cup {Import(v) : v \in Volumes}
            \cup {Stage(v) : v \in Uploads} \cup {Retained(v) : v \in Uploads}

Jobs == {"none", "create", "delete", "reinstall", "import", "replace"}
Phases == {"idle",
           "creating", "prepared", "made",                       \* Create
           "deleting", "undefined", "unlinked", "deleted",       \* Delete
           "importing", "brought", "unpublished", "defined",     \* Import
           "planned", "retired", "published", "rearranged",      \* ReplaceImport
           "switched", "committed", "unlinking", "removed", "cleaned"}

VARIABLES
    driver,     \* the driver of the instance
    volume,     \* volume[v]: "none", an "image" no guest has used, or a "guest"'s
    runtime,    \* runtime[n]: the volume of the runtime with name n
    companion,  \* the snapshot directory or profile that goes with name n: whose it is
    plan,       \* plan[v]: the phase in retained-<nonce>/recovery.json
    owned,      \* the image in the ownership file, 0 for none
    made,       \* the uploads and imports so far
    failures,   \* the operations that have failed so far
    job, phase, \* the operation that holds the lease, and how far it has come
    vol,        \* the volume it brings
    old         \* the volume it found and is to remove

disk    == <<volume, runtime, companion, plan, owned>>
control == <<job, phase, vol, old>>
count   == <<made, failures>>
vars    == <<driver, disk, count, control>>

TypeOK ==
    /\ driver \in Drivers
    /\ volume \in [Volumes -> {"none", "image", "guest"}]
    /\ runtime \in [Names -> Volumes \cup {None}]
    /\ companion \in [Names -> Volumes \cup {None}]
    /\ plan \in [Uploads -> {"none", "staged", "committed"}]
    /\ owned \in Volumes \cup {None}
    /\ made \in 0..MaxVolumes /\ failures \in 0..MaxFailures
    /\ job \in Jobs /\ phase \in Phases
    /\ vol \in Volumes /\ old \in Volumes \cup {None}

Init ==
    /\ driver \in Drivers
    /\ volume = [v \in Volumes |-> "none"]
    /\ runtime = [n \in Names |-> None]
    /\ companion = [n \in Names |-> None]
    /\ plan = [v \in Uploads |-> "none"]
    /\ owned = None /\ made = 0 /\ failures = 0
    /\ job = "none" /\ phase = "idle" /\ vol = 0 /\ old = None

-----------------------------------------------------------------------------
(* Requests.                                                               *)

\* Incus refuses to delete a profile that an instance uses.
Removable(n) ==
    driver = "incus" => companion[n] = None \/ \A m \in Names : runtime[m] # companion[n]

Finish == phase' = "idle" /\ job' = "none" /\ vol' = 0 /\ old' = None
Continue(p) == phase' = p /\ UNCHANGED <<job, vol>>

Begin(j, p) ==
    /\ phase = "idle"
    /\ job' = j /\ phase' = p
    /\ UNCHANGED <<driver, runtime, companion, plan, owned, failures>>

\* An upload is on the disk before the driver is asked; an import and an Incus
\* guest make their volume themselves.
Upload ==
    /\ made < MaxVolumes
    /\ made' = made + 1 /\ vol' = made + 1
    /\ volume' = [volume EXCEPT ![made + 1] = IF driver = "qemu" THEN "image" ELSE @]
MakeItself == made < MaxVolumes /\ made' = made + 1 /\ vol' = made + 1 /\ UNCHANGED volume
UseImage(v) ==
    /\ driver = "incus" => v = 0 /\ volume[0] = "none"
    /\ vol' = v /\ UNCHANGED <<made, volume>>

\* createInstance refuses an id that has an ownership file, deleteInstance one that
\* has none.  A QEMU guest may come without an image.
BeginCreate ==
    /\ owned = None
    /\ Begin("create", "creating")
    /\ Upload \/ UseImage(0)
    /\ UNCHANGED old

BeginDelete == owned # None /\ Begin("delete", "deleting") /\ UNCHANGED <<made, volume, vol, old>>

\* powerInstance accepts, besides an upload, only the image of the stored record, which
\* is, after a restart or a status request, any that the agent has reported.
BeginReinstall ==
    /\ Begin("reinstall", "deleting")
    /\ Upload \/ \E v \in 0..made : UseImage(v)
    /\ UNCHANGED old

\* An import names the disk after the instance it makes.
BeginImport ==
    /\ runtime[Target] = None
    /\ Begin("import", "importing")
    /\ \/ UseImage(0)
       \/ driver = "incus" /\ MakeItself
    /\ UNCHANGED old

BeginReplace ==
    /\ runtime[Target] # None
    /\ Begin("replace", "importing")
    /\ MakeItself
    /\ old' = runtime[Target]

\* An operation may fail at any step, and the agent may crash at any time; either leaves
\* what has been done, but that Import undoes it, too, when it fails (Undo).
Failed == failures < MaxFailures /\ failures' = failures + 1 /\ UNCHANGED made
FailOrCrash == phase # "idle" /\ Failed /\ Finish /\ UNCHANGED <<driver, disk>>

\* CreateSnapshot of QEMU fills the snapshot directory of the instance.
TakeSnapshot ==
    /\ phase = "idle" /\ driver = "qemu"
    /\ runtime[Target] # None /\ companion[Target] = None
    /\ companion' = [companion EXCEPT ![Target] = runtime[Target]]
    /\ UNCHANGED <<driver, volume, runtime, plan, owned, count, control>>

-----------------------------------------------------------------------------
(* Create, also as the second half of Reinstall.                           *)

\* A domain that exists already is used as it is.
ReuseRuntime ==
    /\ phase = "creating" /\ driver = "qemu" /\ runtime[Target] # None
    /\ Continue("made")
    /\ UNCHANGED <<driver, disk, count, old>>

\* A disk that exists is used, else a blank one is made; so is a profile.
PrepareStorage ==
    /\ phase = "creating"
    /\ \/ /\ driver = "qemu" /\ runtime[Target] = None
          /\ volume' = [volume EXCEPT ![vol] = IF @ = "none" THEN "image" ELSE @]
          /\ UNCHANGED companion
       \/ /\ driver = "incus"
          /\ companion' = [companion EXCEPT ![Target] = IF Removable(Target) THEN vol ELSE @]
          /\ UNCHANGED volume
    /\ Continue("prepared")
    /\ UNCHANGED <<driver, runtime, plan, owned, count, old>>

DefineGuest ==
    /\ phase = "prepared" /\ runtime[Target] = None
    /\ runtime' = [runtime EXCEPT ![Target] = vol]
    /\ volume' = [volume EXCEPT ![vol] = "guest"]
    /\ Continue("made")
    /\ UNCHANGED <<driver, companion, plan, owned, count, old>>

\* Only a create and an import write the ownership file.
Register ==
    /\ \/ phase = "made" /\ owned' = IF job = "create" THEN vol ELSE owned
       \/ phase = "defined" /\ job = "import" /\ owned' = vol
       \/ phase = "cleaned" /\ owned' = vol
    /\ Finish
    /\ UNCHANGED <<driver, volume, runtime, companion, plan, count>>

-----------------------------------------------------------------------------
(* Delete, also as the first half of Reinstall.                            *)

\* The disks a delete may remove: the instance's own, and the image it knows of.
Allowed == {0, IF job = "delete" THEN owned ELSE vol}

UndefineGuest ==
    /\ phase = "deleting" /\ driver = "qemu"
    /\ old' = IF runtime[Target] \in Allowed THEN runtime[Target] ELSE None
    /\ runtime' = [runtime EXCEPT ![Target] = None]
    /\ Continue("undefined")
    /\ UNCHANGED <<driver, volume, companion, plan, owned, count>>

UnlinkVolume ==
    /\ phase = "undefined"
    /\ volume' = IF old = None THEN volume ELSE [volume EXCEPT ![old] = "none"]
    /\ Continue("unlinked")
    /\ UNCHANGED <<driver, runtime, companion, plan, owned, count, old>>

\* incus delete removes the volume with the instance.
DeleteIncus ==
    /\ phase = "deleting" /\ driver = "incus"
    /\ old' = runtime[Target]
    /\ runtime' = [runtime EXCEPT ![Target] = None]
    /\ volume' = IF old' = None THEN volume ELSE [volume EXCEPT ![old'] = "none"]
    /\ Continue("unlinked")
    /\ UNCHANGED <<driver, companion, plan, owned, count>>

\* The errors of removing snapshots or the profile are ignored.
DropCompanion ==
    /\ phase = "unlinked"
    /\ \/ Removable(Target) /\ companion' = [companion EXCEPT ![Target] = None]
       \/ UNCHANGED companion
    /\ Continue(IF job = "delete" THEN "deleted" ELSE "creating")
    /\ UNCHANGED <<driver, volume, runtime, plan, owned, count, old>>

Unregister ==
    /\ phase = "deleted"
    /\ owned' = None
    /\ Finish
    /\ UNCHANGED <<driver, volume, runtime, companion, plan, count>>

-----------------------------------------------------------------------------
(* Import, for an instance of its own or as the stage of a replacement.    *)

\* Renaming n to m; nothing to rename leaves both.
Renamed(f, n, m) == IF f[n] = None THEN f ELSE [f EXCEPT ![n] = None, ![m] = f[n]]

Into == IF job = "replace" THEN Stage(vol) ELSE Target

\* Nothing that exists is overwritten.  A QEMU backup may hold snapshots.
BringBackup ==
    /\ phase = "importing"
    /\ runtime[Into] = None /\ companion[Into] = None /\ volume[vol] = "none"
    /\ \/ /\ driver = "qemu"
          /\ volume' = [volume EXCEPT ![vol] = "guest"]
          /\ companion' \in {companion, [companion EXCEPT ![Into] = vol]}
       \/ /\ driver = "incus"
          /\ companion' = [companion EXCEPT ![Into] = vol]
          /\ UNCHANGED volume
    /\ Continue("brought")
    /\ UNCHANGED <<driver, runtime, plan, owned, count, old>>

DefineImport ==
    /\ phase = "brought"
    /\ runtime' = [runtime EXCEPT ![Import(vol)] = vol]
    /\ volume' = [volume EXCEPT ![vol] = "guest"]
    /\ Continue("unpublished")
    /\ UNCHANGED <<driver, companion, plan, owned, count, old>>

PublishImport ==
    /\ phase = "unpublished" /\ runtime[Into] = None
    /\ runtime' = Renamed(runtime, Import(vol), Into)
    /\ Continue("defined")
    /\ UNCHANGED <<driver, volume, companion, plan, owned, count, old>>

\* Fault: the compensation forgets the runtime.
UndoVolumeOnly ==
    /\ phase \in {"brought", "unpublished", "defined"}
    /\ companion' \in {companion, [companion EXCEPT ![Into] = None]}
    /\ volume' = [volume EXCEPT ![vol] = "none"]
    /\ Failed /\ Finish
    /\ UNCHANGED <<driver, runtime, plan, owned>>

\* The compensation removes what the import owns, the runtime first and nothing
\* that a runtime still uses; each removal may fail, too.
Undo ==
    /\ phase \in {"brought", "unpublished", "defined"}
    /\ runtime' = CASE phase = "brought" -> runtime
                    [] phase = "unpublished" -> [runtime EXCEPT ![Import(vol)] = None]
                    [] phase = "defined" -> [runtime EXCEPT ![Into] = None]
    /\ companion' \in {companion, [companion EXCEPT ![Into] = None]}
    /\ \/ volume' = [volume EXCEPT ![vol] = "none"]
       \/ driver = "qemu" /\ UNCHANGED volume
    /\ Failed /\ Finish
    /\ UNCHANGED <<driver, plan, owned>>

-----------------------------------------------------------------------------
(* ReplaceImport.                                                          *)

\* Fault: recovery.json is not written.
PlanUnwritten ==
    /\ phase = "defined" /\ job = "replace"
    /\ Continue("planned")
    /\ UNCHANGED <<driver, disk, count, old>>

PlanReplacement ==
    /\ phase = "defined" /\ job = "replace"
    /\ plan' = [plan EXCEPT ![vol] = "staged"]
    /\ Continue("planned")
    /\ UNCHANGED <<driver, volume, runtime, companion, owned, count, old>>

RetireOriginal ==
    /\ phase = "planned" /\ runtime[Target] # None
    /\ runtime' = Renamed(runtime, Target, Retained(vol))
    /\ Continue("retired")
    /\ UNCHANGED <<driver, volume, companion, plan, owned, count, old>>

PublishStage ==
    /\ phase = "retired" /\ runtime[Target] = None
    /\ runtime' = Renamed(runtime, Stage(vol), Target)
    /\ Continue("published")
    /\ UNCHANGED <<driver, volume, companion, plan, owned, count, old>>

\* When this fails, the original gets its name back, if that does not fail, too.
RollBack ==
    /\ phase = "retired"
    /\ runtime' = Renamed(runtime, Retained(vol), Target)
    /\ Failed /\ Finish
    /\ UNCHANGED <<driver, volume, companion, plan, owned>>

\* The snapshots or the profile follow.  QEMU accepts that there are none.
Follow(n, m, p) ==
    /\ driver = "incus" => companion[n] # None
    /\ companion' = Renamed(companion, n, m)
    /\ Continue(p)
    /\ UNCHANGED <<driver, volume, runtime, plan, owned, count, old>>

\* Fault: the snapshots or the profile of the original are overwritten.
RetireNoCompanion ==
    /\ phase = "published"
    /\ Continue("rearranged")
    /\ UNCHANGED <<driver, disk, count, old>>

RetireCompanion  == phase = "published" /\ Follow(Target, Retained(vol), "rearranged")
PublishCompanion == phase = "rearranged" /\ Follow(Stage(vol), Target, "switched")

\* Fault: the original is removed without the plan saying that it may be.
CommitUnwritten ==
    /\ phase = "switched"
    /\ Continue("committed")
    /\ UNCHANGED <<driver, disk, count, old>>

\* Only this authorizes the removal of the original.
Commit ==
    /\ phase = "switched"
    /\ plan' = [plan EXCEPT ![vol] = "committed"]
    /\ Continue("committed")
    /\ UNCHANGED <<driver, volume, runtime, companion, owned, count, old>>

\* Incus deletes the volume with the instance, QEMU unlinks it afterwards.
RemoveOriginal ==
    /\ phase = "committed"
    /\ runtime' = [runtime EXCEPT ![Retained(vol)] = None]
    /\ \/ /\ driver = "incus"
          /\ volume' = [volume EXCEPT ![old] = "none"]
          /\ Continue("removed")
       \/ driver = "qemu" /\ UNCHANGED volume /\ Continue("unlinking")
    /\ UNCHANGED <<driver, companion, plan, owned, count, old>>

UnlinkOriginal ==
    /\ phase = "unlinking"
    /\ volume' = [volume EXCEPT ![old] = "none"]
    /\ Continue("removed")
    /\ UNCHANGED <<driver, runtime, companion, plan, owned, count, old>>

\* Fault: the profile or the snapshots stay.
PlanRemovedOnly ==
    /\ phase = "removed"
    /\ plan' = [plan EXCEPT ![vol] = "none"]
    /\ Continue("cleaned")
    /\ UNCHANGED <<driver, volume, runtime, companion, owned, count, old>>

\* The old snapshots or profile, and the directory with the plan.
CleanUp ==
    /\ phase = "removed" /\ Removable(Retained(vol))
    /\ companion' = [companion EXCEPT ![Retained(vol)] = None]
    /\ plan' = [plan EXCEPT ![vol] = "none"]
    /\ Continue("cleaned")
    /\ UNCHANGED <<driver, volume, runtime, owned, count, old>>

-----------------------------------------------------------------------------
Request == BeginCreate \/ BeginDelete \/ BeginReinstall \/ BeginImport \/ BeginReplace
CreateStep == ReuseRuntime \/ PrepareStorage \/ DefineGuest \/ Register
DeleteStep == UndefineGuest \/ UnlinkVolume \/ DeleteIncus \/ DropCompanion \/ Unregister
ImportStep == BringBackup \/ DefineImport \/ PublishImport \/ Undo
ReplaceStep ==
    \/ PlanReplacement \/ RetireOriginal \/ PublishStage \/ RollBack
    \/ RetireCompanion \/ PublishCompanion \/ Commit
    \/ RemoveOriginal \/ UnlinkOriginal \/ CleanUp

Next ==
    \/ Request \/ CreateStep \/ DeleteStep \/ ImportStep \/ ReplaceStep
    \/ TakeSnapshot \/ FailOrCrash

Spec == Init /\ [][Next]_vars

-----------------------------------------------------------------------------
(* Properties.                                                             *)

\* The data of a guest is within reach: on its volume, under some name.
Kept(v) == volume[v] = "guest" /\ \E n \in Names : runtime[n] = v

\* So are its snapshots, or its profile.
KeptWhole(v) == Kept(v) /\ \E n \in Names : companion[n] = v

\* Who may lose v: a delete or reinstall its guest, an import what it has brought,
\* a replacement the original, once the plan says that the backup is published and
\* it is.
MayLose(v) ==
    \/ job \in {"delete", "reinstall"} /\ v \in {runtime[Target], old}
    \/ job \in {"import", "replace"} /\ phase \in {"brought", "unpublished", "defined"} /\ v = vol
    \/ /\ job = "replace" /\ v = old
       /\ plan[vol] = "committed" /\ runtime[Target] = vol /\ Kept(vol)

\* replacement.go:17: no failure and no crash of a replacement, or of any other
\* request, makes the data of a guest unreachable; only what may lose it does.
DataSurvives == [][\A v \in Volumes : Kept(v) /\ ~Kept(v)' => MayLose(v)]_vars

\* The same of the snapshots of a guest, or its profile, although they are renamed in
\* other steps than the guest.  A delete drops those it finds under the name of the
\* instance, and a replacement that is committed those it has put aside.
CompanionsSurvive ==
    [][\A v \in Volumes : KeptWhole(v) /\ ~KeptWhole(v)' =>
            \/ MayLose(v)
            \/ job \in {"delete", "reinstall"} /\ companion[Target] = v
            \/ /\ job = "replace" /\ companion[Retained(vol)] = v
               /\ plan[vol] = "committed" /\ runtime[Target] = vol /\ Kept(vol)]_vars

\* The runtime with the name of the instance always has its disk: no delete, compensation
\* or replacement removes the volume first, and none that another has taken over.
TargetHasVolume == runtime[Target] # None => volume[runtime[Target]] = "guest"

\* An original that has been put aside has a plan an operator can find it by.
RetainedHasPlan == \A v \in Uploads : runtime[Retained(v)] # None => plan[v] # "none"

\* A replacement that is about to report success has put the backup in the place
\* of the original with all that belongs to it, and has left nothing behind.
ReplacedIsWhole ==
    phase = "cleaned" =>
        /\ runtime[Target] = vol /\ Kept(vol)
        /\ companion[Target] \in {None, vol}
        /\ runtime[Stage(vol)] = None /\ companion[Stage(vol)] = None
        /\ runtime[Retained(vol)] = None /\ companion[Retained(vol)] = None
        /\ volume[old] = "none"

\* main.go:453 says that a reinstall gives an entirely new guest: it does not find
\* the data of an old one on its volume.
ReinstallIsFresh ==
    [][(job = "reinstall" /\ runtime[Target] = None /\ runtime'[Target] # None)
        => volume[runtime'[Target]] # "guest"]_vars

\* What does hold: Incus removes the volume with the instance, so that a reinstall of one
\* of its guests never finds an old volume, whatever has failed before.
IncusReinstallIsFresh ==
    [][(/\ driver = "incus" /\ job = "reinstall"
        /\ runtime[Target] = None /\ runtime'[Target] # None)
        => volume[runtime'[Target]] # "guest"]_vars
=============================================================================
