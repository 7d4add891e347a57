------------------------ MODULE ContainerDiskProofs ------------------------
(***************************************************************************)
(* Proofs about ContainerDisk, for any containers, disks and devices, and  *)
(* whatever fails, exits, is edited or killed in between.                  *)
(***************************************************************************)
EXTENDS ContainerDisk, TLAPS, WellFoundedInduction

Cleaning == {"unroot", "unimage", "umount", "disconnect"}
Starts   == {"prepare", "connect", "mountDisk", "mark", "image", "overlay", "create", "run"}

\* An operation is under way: whose loop it came from, and what it may be.
Operating == pc \notin LoopPCs
Phases ==
    /\ pc \in {"dropTask", "dropRec"} => mode \in {"orphan", "stop", "drop"}
    /\ pc = "dropRec" => mode # "stop"
    /\ pc \in Cleaning => mode # "start"
    /\ pc \in Starts \cup {"inspect", "attach", "untask", "unrec"} => mode \in {"start", "drop", "reset"}

\* Only what the lab wants to run is started. A device in hand that is not
\* mounted yet, or not any more, is no container's, and its container has none.
Requested == Operating /\ mode \notin {"orphan", "mount", "stop"} => Disk \in Configs
InHand    == /\ pc \in {"mountDisk", "disconnect"} => \A c \in Containers : mnt[c] # at
             /\ pc \in {"connect", "mountDisk", "disconnect"} => ~Mounted(cur)
TypeInv   == TypeOK /\ Phases /\ Requested /\ InHand

-----------------------------------------------------------------------------
(* Facts about the definitions *)

LEMMA Smallest == ASSUME NEW S, S \subseteq Nat, S # {} PROVE \E n \in S : \A m \in S : n <= m
<1>1. PICK x \in S : \A y \in S : ~(<<y, x>> \in OpToRel(<, Nat))
  BY NatLessThanWellFounded, WFMin
<1>2. \A y \in S : ~(y < x)
  BY <1>1 DEF OpToRel
<1> QED  BY <1>2

\* freeNBDDevice finds a device that no container has mounted, when there is one.
LEMMA FreeDeviceIsFree == Free # {} => FreeDevice \in Devices /\ \A c \in Containers : mnt[c] # FreeDevice
<1> SUFFICES ASSUME Free # {} PROVE FreeDevice \in Free
  BY DEF Free
<1>1. Free \subseteq Nat
  BY ContainerDiskAssumption DEF Free
<1>2. \E n \in Free : \A m \in Free : n <= m
  BY <1>1, Smallest
<1> QED  BY <1>2 DEF FreeDevice

\* An entry that is to run has a disk.
LEMMA WantedDisk == ASSUME NEW e \in Entry, e.desired = "running" PROVE e.config \in Configs
BY DEF Entry, Absent, Stopped, Wants

LEMMA StateInType ==
  ASSUME NEW l, NEW c \in Containers, rec[c] \in Configs \cup {NoConfig}
  PROVE  StateIn(l, c) \in HostState
BY DEF StateIn, HostState, IdleStates, DeadStates, Idle, Running

-----------------------------------------------------------------------------
(* Types *)

LEMMA TypeInit == Init => TypeInv
<1> SUFFICES ASSUME Init PROVE TypeInv
  OBVIOUS
<1>1. All = Containers
  BY ContainerDiskAssumption DEF All
<1>2. Stopped \in Entry /\ Absent \in Entry /\ Idle("missing") \in HostState
  BY DEF Entry, HostState, IdleStates, DeadStates
<1> USE ContainerDiskAssumption DEF Init
<1>3. lab \in Labs /\ loaded \in Labs /\ obs \in [Containers -> HostState]
  BY <1>1, <1>2 DEF Labs
<1>4. /\ rec \in [Containers -> Configs \cup {NoConfig}] /\ under \in [Containers -> Configs \cup {NoConfig}]
      /\ task \in [Containers -> {"none", "running", "exited"}]
      /\ root \in [Containers -> {"none", "image", "overlay"}]
  OBVIOUS
<1>5. /\ mnt \in [Containers -> Devices \cup {NoDev}] /\ \A c \in Containers : ~Mounted(c)
      /\ dev \in [Devices -> Configs \cup {NoConfig}]
      /\ marker \in [Configs -> Configs \cup {NoConfig}] /\ cut \subseteq Configs
  BY DEF Mounted
<1>6. /\ pc \in PCs /\ mode \in Modes /\ pc \in LoopPCs /\ cur \in Containers \cup {None}
      /\ pc \notin {"mountDisk", "mark", "disconnect"}
  BY DEF PCs, Modes, LoopPCs
<1>7. /\ todo \subseteq Containers /\ skip \subseteq Containers /\ at \in Devices \cup {NoDev}
      /\ edits \in 0..MaxEdits /\ mishaps \in 0..MaxMishaps
  OBVIOUS
<1>8. {errs, fresh, made, cancelled} \subseteq BOOLEAN
  <2>1. errs = FALSE /\ fresh = FALSE /\ made = FALSE /\ cancelled = FALSE
    OBVIOUS
  <2> QED  BY <2>1, Zenon
<1>9. TypeOK
  BY <1>3, <1>4, <1>5, <1>6, <1>7, <1>8 DEF TypeOK
<1>10. Phases /\ Requested /\ InHand
  BY DEF Phases, Requested, InHand, Operating, LoopPCs, Cleaning, Starts
<1> QED  BY <1>9, <1>10 DEF TypeInv

LEMMA TypeLoops == TypeInv /\ Loop => TypeInv'
<1> SUFFICES ASSUME TypeInv, Loop PROVE TypeInv'
  OBVIOUS
<1>0. All = Containers
  BY ContainerDiskAssumption DEF All
<1> USE <1>0, ContainerDiskAssumption
    DEF TypeInv, TypeOK, Phases, Requested, InHand, Operating, LoopPCs, PCs, Modes, Labs, Mounted,
        Cleaning, Starts, ctrd, disks, held, bounds
<1>1. CASE Load
  <2>1. obs' \in [Containers -> HostState]
    BY <1>1, StateInType DEF Load
  <2> QED  BY <1>1, <2>1 DEF Load
<1>2. CASE NextLoop
  BY <1>2 DEF NextLoop, Unskipped
<1>3. ASSUME NEW c \in Containers, Orphan(c) \/ Mount(c) \/ Stop(c) PROVE TypeInv'
  BY <1>3 DEF Orphan, Mount, Stop, Take
<1>4. ASSUME NEW c \in Containers, Start(c) PROVE TypeInv'
  <2>1. loaded[c].config \in Configs
    BY <1>4, WantedDisk DEF Start
  <2> QED  BY <1>4, <2>1 DEF Start, Take, Disk
<1>5. ASSUME NEW c \in Containers, Overlook(c) \/ Pass(c) PROVE TypeInv'
  BY <1>5 DEF Overlook, Pass, Disk
<1> QED  BY <1>1, <1>2, <1>3, <1>4, <1>5 DEF Loop

LEMMA MishapType == ASSUME mishaps \in 0..MaxMishaps, NEW k, Mishap(k) PROVE mishaps' \in 0..MaxMishaps
BY ContainerDiskAssumption DEF Mishap

\* The common part of an operation's command: counters, errors and loops.
LEMMA Outcomes ==
  ASSUME TypeOK
  PROVE  /\ (Done \/ Fails \/ Clogs) => mishaps' \in 0..MaxMishaps
         /\ \A p \in PCs : Go(p) => pc' = p /\ errs' \in BOOLEAN
         /\ Error => pc' = LoopOf(mode) /\ errs' \in BOOLEAN
         /\ LoopOf(mode) \in {"orphans", "mounts", "refs"}
<1> USE DEF TypeOK
<1>1. (Done \/ Fails \/ Clogs) => mishaps' \in 0..MaxMishaps
  BY MishapType DEF Done, Fails, Clogs, FailsAs
<1>2. errs \in BOOLEAN
  OBVIOUS
<1>3. \A p \in PCs : Go(p) => pc' = p /\ errs' \in BOOLEAN
  BY <1>2 DEF Go
<1>4. Error => pc' = LoopOf(mode) /\ errs' \in BOOLEAN
  BY DEF Error
<1>5. LoopOf(mode) \in {"orphans", "mounts", "refs"}
  BY DEF LoopOf
<1> QED  BY <1>1, <1>3, <1>4, <1>5

LEMMA TypeClean == TypeInv /\ Clean => TypeInv'
<1> SUFFICES ASSUME TypeInv, Clean PROVE TypeInv'
  OBVIOUS
<1>0. TypeOK
  BY DEF TypeInv
<1> USE ContainerDiskAssumption
    DEF TypeInv, TypeOK, Phases, Requested, InHand, Operating, LoopPCs, PCs, Modes, Mounted,
        Cleaning, Starts, ctrd, disks, held, step, Disk
<1>1. CASE DropTask
  <2>1. mishaps' \in 0..MaxMishaps
    BY <1>1, <1>0, Outcomes DEF DropTask
  <2>2. /\ task' \in [Containers -> {"none", "running", "exited"}]
        /\ under' \in [Containers -> Configs \cup {NoConfig}]
    BY <1>1 DEF DropTask, TaskGone, TaskKept
  <2>3. pc' \in {"idle", "orphans", "mounts", "refs", "unroot", "dropRec"} /\ errs' \in BOOLEAN
        /\ skip' \subseteq Containers /\ (pc' = "unroot" => mode # "start")
        /\ (pc' = "dropRec" => mode \in {"orphan", "drop"})
    BY <1>1, <1>0 DEF DropTask, Go, Error, LoopOf, AfterTask, Spared
  <2> QED  BY <1>1, <2>1, <2>2, <2>3 DEF DropTask
<1>2. CASE DropRec
  <2>1. mishaps' \in 0..MaxMishaps
    BY <1>2, <1>0, Outcomes DEF DropRec
  <2> QED  BY <1>2, <2>1 DEF DropRec, Go, Error, LoopOf, Spared
<1>3. CASE Unroot
  <2>1. mishaps' \in 0..MaxMishaps
    BY <1>3, <1>0, Outcomes DEF Unroot
  <2> QED  BY <1>3, <2>1 DEF Unroot, Go, Error, LoopOf, Failed
<1>4. CASE Unimage
  <2>1. mishaps' \in 0..MaxMishaps
    BY <1>4, <1>0, Outcomes DEF Unimage
  <2> QED  BY <1>4, <2>1 DEF Unimage, Go, Error, LoopOf, Failed
<1>5. CASE Umount
  <2>1. CASE ~Mounted(cur) /\ Go(Resume) /\ UNCHANGED <<mnt, at, mishaps>>
    BY <1>5, <2>1 DEF Umount, Go, LoopOf, Resume
  <2>2. CASE /\ Mounted(cur) /\ ~Busy(cur) /\ Done
             /\ at' = mnt[cur] /\ mnt' = [mnt EXCEPT ![cur] = NoDev] /\ Go("disconnect")
    <3>1. mishaps' \in 0..MaxMishaps
      BY <1>0, <2>2, Outcomes
    <3> QED  BY <1>5, <2>2, <3>1 DEF Umount, Go
  <2>3. CASE /\ Mounted(cur)
             /\ IF Busy(cur) THEN UNCHANGED mishaps ELSE Clogs
             /\ Error /\ UNCHANGED <<mnt, at>>
    <3>1. mishaps' \in 0..MaxMishaps
      BY <1>0, <2>3, Outcomes
    <3> QED  BY <1>5, <2>3, <3>1 DEF Umount, Error, LoopOf
  <2> QED  BY <1>5, <2>1, <2>2, <2>3 DEF Umount
<1>6. CASE Disconnect
  <2>1. mishaps' \in 0..MaxMishaps
    BY <1>6, <1>0, Outcomes DEF Disconnect
  <2> QED  BY <1>6, <2>1 DEF Disconnect, Go, Error, LoopOf, Resume
<1> QED  BY <1>1, <1>2, <1>3, <1>4, <1>5, <1>6 DEF Clean

LEMMA OverlayType ==
  ASSUME TypeInv, NEW from \in {"image", "overlay"}, NEW done \in {"image", "overlay"},
         NEW failed \in SUBSET {"none", "image", "overlay"}, NEW then \in {"overlay", "create"},
         Overlay(from, done, failed, then)
  PROVE  TypeInv'
<1>0. TypeOK
  BY DEF TypeInv
<1>1. mishaps' \in 0..MaxMishaps
  BY <1>0, Outcomes DEF Overlay
<1>2. root' \in [Containers -> {"none", "image", "overlay"}]
  BY <1>0 DEF TypeOK, Overlay
<1>3. pc' \in {"overlay", "create", "unroot", "refs"} /\ errs' \in BOOLEAN
  BY <1>0, Outcomes DEF Overlay, Go, TypeOK
<1>4. IF pc' = "unroot" THEN mode' = "best" ELSE UNCHANGED mode
  BY DEF Overlay, Go
<1> QED
  BY <1>1, <1>2, <1>3, <1>4
     DEF Overlay, TypeInv, TypeOK, Phases, Requested, InHand, Operating, LoopPCs, PCs, Modes, Mounted,
         Cleaning, Starts, ctrd, disks, held, step, Disk

LEMMA TypeLaunch == TypeInv /\ Launch => TypeInv'
<1> SUFFICES ASSUME TypeInv, Launch PROVE TypeInv'
  OBVIOUS
<1>0. TypeOK
  BY DEF TypeInv
<1> USE ContainerDiskAssumption
    DEF TypeInv, TypeOK, Phases, Requested, InHand, Operating, LoopPCs, PCs, Modes, Mounted,
        Cleaning, Starts, ctrd, disks, held, step, Disk
<1>1. CASE Inspect
  BY <1>1, <1>0, Outcomes DEF Inspect, Begin, Go, Error, LoopOf, TaskGone
<1>2. CASE Prepare
  BY <1>2, <1>0, Outcomes DEF Prepare, Begin, Go, Error, LoopOf
<1>3. CASE Connect
  <2>1. CASE CanConnect /\ Done /\ dev' = [dev EXCEPT ![FreeDevice] = Disk] /\ at' = FreeDevice /\ Go("mountDisk")
    <3>1. FreeDevice \in Devices /\ \A c \in Containers : mnt[c] # FreeDevice
      BY <2>1, FreeDeviceIsFree DEF CanConnect
    <3>2. mishaps' \in 0..MaxMishaps
      BY <1>0, <2>1, Outcomes
    <3> QED  BY <1>3, <2>1, <3>1, <3>2 DEF Connect, Go
  <2>2. CASE /\ IF CanConnect THEN Fails ELSE UNCHANGED mishaps
             /\ pc' = "refs" /\ errs' = TRUE /\ UNCHANGED <<dev, at>>
    <3>1. mishaps' \in 0..MaxMishaps
      BY <1>0, <2>2, Outcomes
    <3> QED  BY <1>3, <2>2, <3>1 DEF Connect
  <2> QED  BY <1>3, <2>1, <2>2 DEF Connect
<1>4. CASE MountDisk
  <2>1. mishaps' \in 0..MaxMishaps
    BY <1>4, <1>0, Outcomes DEF MountDisk
  <2>2. CASE dev[at] # NoConfig /\ mnt' = [mnt EXCEPT ![cur] = at] /\ fresh' = TRUE /\ Go("mark") /\ UNCHANGED mode
    BY <1>4, <2>1, <2>2 DEF MountDisk, Go
  <2>3. CASE mode' = "best" /\ pc' = NotMounted /\ errs' = TRUE /\ UNCHANGED <<mnt, fresh>>
    BY <1>4, <2>1, <2>3 DEF MountDisk, NotMounted
  <2> QED  BY <1>4, <2>2, <2>3 DEF MountDisk
<1>5. CASE Mark
  BY <1>5, <1>0, Outcomes DEF Mark, Go
<1>6. CASE MountImage
  <2>1. root[cur] \in {"none", "image", "overlay"}
    BY <1>6 DEF MountImage, Overlay
  <2> DEFINE done == IF root[cur] = "none" THEN "image" ELSE root[cur]
  <2>2. done \in {"image", "overlay"} /\ {root[cur]} \in SUBSET {"none", "image", "overlay"}
    BY <2>1
  <2>3. Overlay("image", done, {root[cur]}, "overlay")
    BY <1>6 DEF MountImage
  <2> HIDE DEF done
  <2> QED  BY <2>2, <2>3, OverlayType
<1>7. CASE MountOverlay
  <2>1. {root[cur], "image"} \in SUBSET {"none", "image", "overlay"}
    BY <1>7 DEF MountOverlay, Overlay
  <2>2. Overlay("overlay", "overlay", {root[cur], "image"}, "create")
    BY <1>7 DEF MountOverlay
  <2> QED  BY <2>1, <2>2, OverlayType
<1>8. CASE Create
  BY <1>8, <1>0, Outcomes DEF Create, Defer, Go
<1>9. CASE RunTask
  <2>1. mishaps' \in 0..MaxMishaps
    BY <1>9, <1>0, Outcomes DEF RunTask
  <2>2. task' \in [Containers -> {"none", "running", "exited"}]
    BY <1>9 DEF RunTask
  <2>3. under' \in [Containers -> Configs \cup {NoConfig}]
    BY <1>9 DEF RunTask, Usable
  <2>4. pc' \in {"attach", "untask"} /\ errs' = errs
    BY <1>9 DEF RunTask, Go
  <2>5. UNCHANGED <<lab, rec, disks, held, step, cancelled, edits>> /\ pc = "run"
    BY <1>9 DEF RunTask
  <2> QED  BY <2>1, <2>2, <2>3, <2>4, <2>5
<1>10. CASE Attach
  BY <1>10, <1>0, Outcomes DEF Attach, Go
<1>11. CASE Untask
  BY <1>11, <1>0, Outcomes DEF Untask, Defer, TaskGone, TaskKept, Go
<1>12. CASE Unrec
  BY <1>12, <1>0, Outcomes DEF Unrec, Defer, TaskGone, TaskKept
<1> QED  BY <1>1, <1>2, <1>3, <1>4, <1>5, <1>6, <1>7, <1>8, <1>9, <1>10, <1>11, <1>12 DEF Launch

LEMMA TypeWorld == TypeInv /\ World => TypeInv'
<1> SUFFICES ASSUME TypeInv, World PROVE TypeInv'
  OBVIOUS
<1>0. All = Containers
  BY ContainerDiskAssumption DEF All
<1> USE <1>0, ContainerDiskAssumption
    DEF TypeInv, TypeOK, Phases, Requested, InHand, Operating, LoopPCs, PCs, Modes, Mounted,
        Cleaning, Starts, ctrd, disks, held, step, Disk
<1>1. CASE Cancel
  BY <1>1, MishapType DEF Cancel
<1>2. CASE Restart
  BY <1>2, MishapType DEF Restart
<1>3. CASE TaskExits
  BY <1>3, MishapType DEF TaskExits
<1>4. CASE BackendDies
  BY <1>4, MishapType DEF BackendDies
<1>5. CASE Edit
  BY <1>5 DEF Edit, Labs
<1> QED  BY <1>1, <1>2, <1>3, <1>4, <1>5 DEF World

LEMMA TypeStep == TypeInv /\ [Next]_vars => TypeInv'
<1>1. TypeInv /\ UNCHANGED vars => TypeInv'
  BY DEF TypeInv, TypeOK, Phases, Requested, InHand, Operating, Mounted, Disk,
         vars, ctrd, disks, held, step, bounds
<1> QED  BY <1>1, TypeLoops, TypeClean, TypeLaunch, TypeWorld DEF Next, Daemon

\* Every variable has its type, no device is mounted twice, and no command is
\* given a device or container it has not got (runtime.go, disk.go).
THEOREM DiskTypes == Spec => []TypeOK
<1>1. TypeInv => TypeOK
  BY DEF TypeInv
<1> QED  BY TypeInit, TypeStep, <1>1, PTL DEF Spec

-----------------------------------------------------------------------------
(* What the daemon works on does not run *)

InLoop(l) == pc = l \/ (Operating /\ LoopOf(mode) = l)
Absentees == {c \in Containers : loaded[c] = Absent}

\* Of the containers without an entry, those that CleanupOrphans has done have
\* no record any more, but the ones it failed at, which it leaves alone.
Swept ==
    /\ InLoop("orphans") =>
          /\ todo \subseteq Absentees /\ (Operating => cur \in Absentees)
          /\ \A c \in Absentees : rec[c] = NoConfig \/ c \in todo \cup skip \/ (Operating /\ c = cur)
    /\ InLoop("mounts") =>
          /\ todo \subseteq Absentees \ skip /\ (Operating => cur \in Absentees \ skip)
          /\ \A c \in Absentees \ skip : rec[c] = NoConfig
    /\ pc \in Cleaning /\ mode = "orphan" => rec[cur] = NoConfig

\* A task has a record; a mount is made and taken down while no task runs on it.
Recorded == \A c \in Containers : rec[c] = NoConfig => task[c] # "running"
Quiet    == pc \in Starts \cup Cleaning \cup {"dropRec"} /\ mode # "deferred" => task[cur] # "running"
Created  == pc = "run" => rec[cur] = Disk
QuietInv == Swept /\ Recorded /\ Quiet /\ Created

LEMMA QuietInit == Init => QuietInv
BY DEF Init, QuietInv, Swept, Recorded, Quiet, Created, InLoop, Operating, LoopPCs, Starts, Cleaning

LEMMA QuietLoops == TypeInv /\ QuietInv /\ Loop => QuietInv'
<1> SUFFICES ASSUME TypeInv, QuietInv, Loop PROVE QuietInv'
  OBVIOUS
<1> USE DEF TypeInv, TypeOK, Phases, QuietInv, Swept, Recorded, Quiet, Created, InLoop, Absentees, Operating,
            LoopPCs, LoopOf, Starts, Cleaning, ctrd, disks, held, bounds
<1>1. CASE Load
  BY <1>1 DEF Load
<1>2. CASE NextLoop
  BY <1>2 DEF NextLoop, Unskipped
<1>3. ASSUME NEW c \in Containers, Orphan(c) PROVE QuietInv'
  BY <1>3 DEF Orphan, Take
<1>4. ASSUME NEW c \in Containers, Mount(c) PROVE QuietInv'
  BY <1>4 DEF Mount, Take
<1>5. ASSUME NEW c \in Containers, Start(c) \/ Stop(c) PROVE QuietInv'
  BY <1>5 DEF Start, Stop, Take
<1>6. ASSUME NEW c \in Containers, Overlook(c) \/ Pass(c) PROVE QuietInv'
  BY <1>6 DEF Overlook, Pass, Disk
<1> QED  BY <1>1, <1>2, <1>3, <1>4, <1>5, <1>6 DEF Loop

LEMMA QuietClean == TypeInv /\ QuietInv /\ Clean => QuietInv'
<1> SUFFICES ASSUME TypeInv, QuietInv, Clean PROVE QuietInv'
  OBVIOUS
<1> USE DEF TypeInv, TypeOK, Phases, QuietInv, Swept, Recorded, Quiet, Created, InLoop, Absentees, Operating,
            LoopPCs, LoopOf, Starts, Cleaning, ctrd, disks, held, step, Disk, PCs
<1>1. CASE DropTask
  BY <1>1 DEF DropTask, Go, Error, AfterTask, TaskGone, TaskKept, Spared
<1>2. CASE DropRec
  BY <1>2 DEF DropRec, Go, Error, Spared
<1>3. CASE Unroot
  BY <1>3 DEF Unroot, Go, Error, Failed
<1>4. CASE Unimage
  BY <1>4 DEF Unimage, Go, Error, Failed
<1>5. CASE Umount
  BY <1>5 DEF Umount, Go, Error, Resume
<1>6. CASE Disconnect
  BY <1>6 DEF Disconnect, Go, Error, Resume
<1> QED  BY <1>1, <1>2, <1>3, <1>4, <1>5, <1>6 DEF Clean

LEMMA QuietLaunch == TypeInv /\ QuietInv /\ Launch => QuietInv'
<1> SUFFICES ASSUME TypeInv, QuietInv, Launch PROVE QuietInv'
  OBVIOUS
<1>0. NoConfig \notin Configs
  BY WorkloadsAssumption
<1> USE <1>0 DEF TypeInv, TypeOK, Phases, Requested, QuietInv, Swept, Recorded, Quiet, Created, InLoop, Absentees,
            Operating, LoopPCs, LoopOf, Starts, Cleaning, ctrd, disks, held, step, Disk, PCs
<1>1. CASE Inspect
  BY <1>1 DEF Inspect, Begin, Go, Error, TaskGone
<1>2. CASE Prepare
  BY <1>2 DEF Prepare, Begin, Go, Error
<1>3. CASE Connect
  BY <1>3 DEF Connect, Go
<1>4. CASE MountDisk
  BY <1>4 DEF MountDisk, NotMounted, Go
<1>5. CASE Mark
  BY <1>5 DEF Mark, Go
<1>6. CASE MountImage \/ MountOverlay
  BY <1>6 DEF MountImage, MountOverlay, Overlay, Go
<1>7. CASE Create
  BY <1>7 DEF Create, Defer, Go
<1>8. CASE RunTask
  BY <1>8 DEF RunTask, Go
<1>9. CASE Attach
  BY <1>9 DEF Attach, Go
<1>10. CASE Untask
  BY <1>10 DEF Untask, Defer, TaskGone, TaskKept, Go
<1>11. CASE Unrec
  BY <1>11 DEF Unrec, Defer, TaskGone, TaskKept
<1> QED  BY <1>1, <1>2, <1>3, <1>4, <1>5, <1>6, <1>7, <1>8, <1>9, <1>10, <1>11 DEF Launch

LEMMA QuietWorld == TypeInv /\ QuietInv /\ World => QuietInv'
<1> SUFFICES ASSUME TypeInv, QuietInv, World PROVE QuietInv'
  OBVIOUS
<1> USE DEF TypeInv, TypeOK, QuietInv, Swept, Recorded, Quiet, Created, InLoop, Absentees, Operating,
            LoopPCs, LoopOf, Starts, Cleaning, ctrd, disks, held, step, Disk
<1>1. CASE Cancel \/ BackendDies \/ Edit
  BY <1>1 DEF Cancel, BackendDies, Edit
<1>2. CASE Restart
  BY <1>2 DEF Restart
<1>3. CASE TaskExits
  BY <1>3 DEF TaskExits
<1> QED  BY <1>1, <1>2, <1>3 DEF World

LEMMA QuietStep == TypeInv /\ QuietInv /\ [Next]_vars => QuietInv'
<1>1. QuietInv /\ UNCHANGED vars => QuietInv'
  BY DEF QuietInv, Swept, Recorded, Quiet, Created, InLoop, Absentees, Operating, Disk,
         vars, ctrd, disks, held, step, bounds
<1> QED  BY <1>1, QuietLoops, QuietClean, QuietLaunch, QuietWorld DEF Next, Daemon

-----------------------------------------------------------------------------
(* A task runs on its own disk *)

\* A marker is the disk's own or the one it was made with, and of a disk that is
\* mounted its own, but where a start was cut before it wrote it. The disk in
\* hand is the one asked for, or such a one, or its qemu-nbd has died, from the
\* command that connects it to the one that runs the task.
Astray(d, want) == d \in cut /\ InitMarker[d] = want
Marks    == /\ \A d \in Configs : marker[d] \in {d, InitMarker[d]}
            /\ \A c \in Containers : Usable(c) =>
                  \/ marker[dev[mnt[c]]] = dev[mnt[c]] \/ dev[mnt[c]] \in cut
                  \/ pc = "mark" /\ cur = c
Handled  == /\ pc \in {"mountDisk", "mark"} => dev[at] \in {Disk, NoConfig}
            /\ pc = "mark" => mnt[cur] = at
            /\ pc \in {"image", "overlay", "create", "run"} =>
                  Mounted(cur) /\ (dev[mnt[cur]] \in {Disk, NoConfig} \/ Astray(dev[mnt[cur]], Disk))
OwnInv   == OwnDisk /\ Marks /\ Handled

LEMMA OwnInit == Init => OwnInv
BY ContainerDiskAssumption DEF Init, OwnInv, OwnDisk, Marks, Handled, Usable, Mounted

LEMMA OwnDaemon == TypeInv /\ QuietInv /\ OwnInv /\ Daemon => OwnInv'
<1> SUFFICES ASSUME TypeInv, QuietInv, OwnInv, Daemon PROVE OwnInv'
  OBVIOUS
<1>0. NoConfig \notin Configs /\ NoDev \notin Devices
  BY WorkloadsAssumption, ContainerDiskAssumption
<1> USE <1>0 DEF TypeInv, TypeOK, Phases, Requested, QuietInv, Quiet, Created, Operating, LoopPCs, Starts, Cleaning,
            OwnInv, OwnDisk, Marks, Handled, Astray, Mounted, Usable, ctrd, disks, held, step, bounds, Disk, PCs
<1>1. CASE Loop
  BY <1>1 DEF Loop, Load, NextLoop, Orphan, Mount, Start, Stop, Take, Overlook, Pass
<1>2. CASE DropTask
  BY <1>2 DEF DropTask, Go, Error, LoopOf, AfterTask, TaskGone, TaskKept
<1>3. CASE DropRec
  BY <1>3 DEF DropRec, Go, Error, LoopOf
<1>4. CASE Unroot \/ Unimage \/ Umount \/ Disconnect
  BY <1>4 DEF Unroot, Unimage, Umount, Disconnect, Go, Error, LoopOf, Failed, Resume
<1>5. CASE Inspect
  BY <1>5 DEF Inspect, Begin, Go, Error, LoopOf, TaskGone
<1>6. CASE Prepare
  BY <1>6 DEF Prepare, Begin, Go, Error, LoopOf, Healthy, Usable
<1>7. CASE Connect
  BY <1>7, FreeDeviceIsFree DEF Connect, CanConnect, Go
<1>8. CASE MountDisk
  BY <1>8 DEF MountDisk, NotMounted, Go
<1>9. CASE Mark
  BY <1>9 DEF Mark, Go
<1>10. CASE MountImage \/ MountOverlay
  BY <1>10 DEF MountImage, MountOverlay, Overlay, Go
<1>11. CASE Create
  BY <1>11 DEF Create, Defer, Go
<1>12. CASE RunTask
  BY <1>12 DEF RunTask, Usable, Go
<1>13. CASE Attach
  BY <1>13 DEF Attach, Go
<1>14. CASE Untask
  BY <1>14 DEF Untask, Defer, TaskGone, TaskKept, Go
<1>15. CASE Unrec
  BY <1>15 DEF Unrec, Defer, TaskGone, TaskKept
<1> QED  BY <1>1, <1>2, <1>3, <1>4, <1>5, <1>6, <1>7, <1>8, <1>9, <1>10, <1>11, <1>12, <1>13, <1>14, <1>15
            DEF Daemon, Clean, Launch

LEMMA OwnWorld == TypeInv /\ OwnInv /\ World => OwnInv'
<1> SUFFICES ASSUME TypeInv, OwnInv, World PROVE OwnInv'
  OBVIOUS
<1> USE DEF TypeInv, TypeOK, Phases, Requested, Operating, LoopPCs, OwnInv, OwnDisk, Marks, Handled, Astray, Mounted,
            Usable, ctrd, disks, held, step, Disk
<1>1. CASE Cancel \/ Restart \/ Edit
  BY <1>1 DEF Cancel, Restart, Edit
<1>2. CASE TaskExits
  BY <1>2 DEF TaskExits
<1>3. CASE BackendDies
  BY <1>3 DEF BackendDies
<1> QED  BY <1>1, <1>2, <1>3 DEF World

\* A task runs on the disk its record was made for, through every reuse of a
\* mount and whatever markers the layers had in the beginning; but on a layer
\* whose start was cut before it wrote the marker (writeContainerDiskSourceMarker).
THEOREM RunsOnOwnDisk == Spec => []OwnDisk
<1> DEFINE Inv == TypeInv /\ QuietInv /\ OwnInv
<1>1. Init => Inv
  BY TypeInit, QuietInit, OwnInit
<1>2. TypeInv /\ OwnInv /\ UNCHANGED vars => OwnInv'
  BY DEF OwnInv, OwnDisk, Marks, Handled, Astray, Mounted, Usable, Disk, vars, ctrd, disks, held, step
<1>3. Inv /\ [Next]_vars => Inv'
  BY <1>2, TypeStep, QuietStep, OwnDaemon, OwnWorld DEF Next
<1>4. Inv => OwnDisk
  BY DEF OwnInv
<1> QED  BY <1>1, <1>3, <1>4, PTL DEF Spec

-----------------------------------------------------------------------------
(* Nothing is taken from under a running task *)

LEMMA PullsStep ==
  ASSUME TypeInv, QuietInv, Next, CallStep, mode # "deferred", NEW c \in Containers, task[c] = "running"
  PROVE  ~Pulls(c)
<1> USE DEF TypeInv, TypeOK, Phases, InHand, QuietInv, Quiet, Operating, CallStep, LoopPCs, Starts, Cleaning,
            Pulls, Mounted, Usable, ctrd, disks, held, step, bounds
<1>1. CASE Loop \/ World
  BY <1>1 DEF Loop, Load, NextLoop, Orphan, Mount, Start, Stop, Take, Overlook, Pass,
              World, Cancel, Restart, TaskExits, BackendDies, Edit
<1>2. CASE DropTask \/ DropRec
  BY <1>2 DEF DropTask, DropRec
<1>3. CASE Unroot \/ Unimage \/ Umount
  BY <1>3 DEF Unroot, Unimage, Umount
<1>4. CASE Disconnect
  BY <1>4 DEF Disconnect
<1>5. CASE Inspect \/ Prepare \/ Create \/ RunTask \/ Attach \/ Untask \/ Unrec
  BY <1>5 DEF Inspect, Prepare, Create, RunTask, Attach, Untask, Unrec
<1>6. CASE Connect
  BY <1>6, FreeDeviceIsFree DEF Connect, CanConnect
<1>7. CASE MountDisk \/ Mark
  BY <1>7 DEF MountDisk, Mark
<1>8. CASE MountImage \/ MountOverlay
  BY <1>8 DEF MountImage, MountOverlay, Overlay
<1> QED  BY <1>1, <1>2, <1>3, <1>4, <1>5, <1>6, <1>7, <1>8 DEF Next, Daemon, Clean, Launch

\* No overlay, mount or device goes from under a running task, whatever failed
\* before, but in the cleanup that a failed start has deferred (deleteContainer
\* before cleanupContainerDiskMount, failedOrphanIDs).
THEOREM NothingPulled == Spec => PullsNoTask
<1> DEFINE Inv == TypeInv /\ QuietInv
<1>1. Init => Inv
  BY TypeInit, QuietInit
<1>2. Inv /\ [Next]_vars => Inv'
  BY TypeStep, QuietStep
<1>3. Inv /\ [Next]_vars =>
        [\A c \in Containers : CallStep /\ task[c] = "running" /\ Pulls(c) => mode = "deferred"]_vars
  BY PullsStep
<1> QED  BY <1>1, <1>2, <1>3, PTL DEF Spec, PullsNoTask

-----------------------------------------------------------------------------
(* No device is left connected *)

StrayInv == NoStray /\ ~cancelled

LEMMA StrayStep ==
  ASSUME Mishaps \cap {"undo", "crash", "cancel"} = {}, TypeInv, StrayInv, Next
  PROVE  StrayInv'
<1>0. NoDev \notin Devices /\ (Ctx /\ ~Clogs)
  BY ContainerDiskAssumption DEF StrayInv, Ctx, Clogs, FailsAs, Mishap
<1> USE <1>0 DEF TypeInv, TypeOK, Phases, InHand, StrayInv, NoStray, Mounted, Starts, Cleaning, LoopPCs,
            ctrd, disks, held, step, bounds
<1>1. CASE Loop
  BY <1>1 DEF Loop, Load, NextLoop, Orphan, Mount, Start, Stop, Take, Overlook, Pass
<1>2. CASE DropTask \/ DropRec \/ Unroot \/ Unimage
  BY <1>2 DEF DropTask, DropRec, Unroot, Unimage, Go, Error, LoopOf, AfterTask, Failed
<1>3. CASE Umount
  BY <1>3 DEF Umount, Go, Error, LoopOf, Resume
<1>4. CASE Disconnect
  BY <1>4 DEF Disconnect, Go, LoopOf, Resume
<1>5. CASE Inspect \/ Prepare
  BY <1>5 DEF Inspect, Prepare, Begin, Go, Error, LoopOf, Healthy, Usable
<1>6. CASE Connect
  BY <1>6, FreeDeviceIsFree DEF Connect, CanConnect, Go
<1>7. CASE MountDisk
  BY <1>7 DEF MountDisk, NotMounted, Go
<1>8. CASE Mark \/ MountImage \/ MountOverlay
  BY <1>8 DEF Mark, MountImage, MountOverlay, Overlay, Go
<1>9. CASE Create \/ RunTask \/ Attach \/ Untask \/ Unrec
  BY <1>9 DEF Create, RunTask, Attach, Untask, Unrec, Defer, Go
<1>10. CASE Cancel \/ Restart
  BY <1>10 DEF Cancel, Restart, Mishap
<1>11. CASE TaskExits \/ Edit
  BY <1>11 DEF TaskExits, Edit
<1>12. CASE BackendDies
  BY <1>12 DEF BackendDies
<1> QED  BY <1>1, <1>2, <1>3, <1>4, <1>5, <1>6, <1>7, <1>8, <1>9, <1>10, <1>11, <1>12
         DEF Next, Daemon, Clean, Launch, World

\* As long as the daemon lives and what takes down works, no device stays
\* connected that no container has mounted (connectContainerDisk).
THEOREM NothingStrays ==
  ASSUME Mishaps \cap {"undo", "crash", "cancel"} = {}
  PROVE  Spec => []NoStray
<1> DEFINE Inv == TypeInv /\ StrayInv
<1>1. Init => Inv
  BY TypeInit DEF Init, StrayInv, NoStray
<1>2. StrayInv /\ UNCHANGED vars => StrayInv'
  BY DEF StrayInv, NoStray, Mounted, vars, disks, held
<1>3. Inv /\ [Next]_vars => Inv'
  BY <1>2, TypeStep, StrayStep
<1>4. Inv => NoStray
  BY DEF StrayInv
<1> QED  BY <1>1, <1>3, <1>4, PTL DEF Spec

-----------------------------------------------------------------------------
(* What a call makes of its container *)

\* A call that goes on after an error remembers it; a stop has no task any more
\* when it unmounts; a start that attaches its task has made its record and task.
CallInv ==
    /\ Operating /\ mode \in {"best", "deferred"} => errs
    /\ pc \in Cleaning /\ mode = "stop" => task[cur] = "none"
    /\ pc = "attach" => rec[cur] = Disk /\ task[cur] # "none"

LEMMA CallInit == Init => CallInv
BY DEF Init, CallInv, Operating, LoopPCs, Cleaning

LEMMA CallDaemon == TypeInv /\ QuietInv /\ CallInv /\ Daemon => CallInv'
<1> SUFFICES ASSUME TypeInv, QuietInv, CallInv, Daemon PROVE CallInv'
  OBVIOUS
<1>0. NoDev \notin Devices
  BY ContainerDiskAssumption
<1> USE <1>0 DEF TypeInv, TypeOK, Phases, CallInv, Mounted, Operating, Starts, Cleaning, LoopPCs,
            ctrd, disks, held, step, bounds, Disk
<1>1. CASE Loop
  BY <1>1 DEF Loop, Load, NextLoop, Orphan, Mount, Start, Stop, Take, Overlook, Pass
<1>2. CASE DropTask
  BY <1>2 DEF DropTask, Go, Error, LoopOf, AfterTask, TaskGone
<1>3. CASE DropRec
  BY <1>3 DEF DropRec, Go, Error, LoopOf
<1>4. CASE Unroot \/ Unimage
  BY <1>4 DEF Unroot, Unimage, Go, Error, LoopOf, Failed
<1>5. CASE Umount
  BY <1>5 DEF Umount, Go, Error, LoopOf, Resume
<1>6. CASE Disconnect
  BY <1>6 DEF Disconnect, Go, Error, LoopOf, Resume
<1>7. CASE Inspect \/ Prepare
  BY <1>7 DEF Inspect, Prepare, Begin, Go, Error, LoopOf
<1>8. CASE Connect \/ MountDisk \/ Mark
  BY <1>8 DEF Connect, MountDisk, NotMounted, Mark, Go
<1>9. CASE MountImage \/ MountOverlay
  BY <1>9 DEF MountImage, MountOverlay, Overlay, Go
<1>10. CASE Create
  BY <1>10 DEF Create, Defer, Go
<1>11. CASE RunTask
  BY <1>11 DEF RunTask, Go, QuietInv, Created
<1>12. CASE Attach \/ Untask \/ Unrec
  BY <1>12 DEF Attach, Untask, Unrec, Defer, Go
<1> QED  BY <1>1, <1>2, <1>3, <1>4, <1>5, <1>6, <1>7, <1>8, <1>9, <1>10, <1>11, <1>12
            DEF Daemon, Clean, Launch

LEMMA CallWorld == TypeInv /\ CallInv /\ World => CallInv'
<1> SUFFICES ASSUME TypeInv, CallInv, World PROVE CallInv'
  OBVIOUS
<1> USE DEF TypeInv, TypeOK, CallInv, Mounted, Operating, Cleaning, LoopPCs, ctrd, disks, held, step, Disk
<1>1. CASE Cancel \/ Restart \/ Edit
  BY <1>1 DEF Cancel, Restart, Edit
<1>2. CASE TaskExits
  BY <1>2 DEF TaskExits
<1>3. CASE BackendDies
  BY <1>3 DEF BackendDies
<1> QED  BY <1>1, <1>2, <1>3 DEF World

\* A step of an operation is a command of its container.
LEMMA Commands ==
  ASSUME TypeInv, Next, CallStep
  PROVE  /\ Clean \/ Launch
         /\ cur' = cur /\ loaded' = loaded
         /\ \A c \in Containers \ {cur} : rec'[c] = rec[c] /\ task'[c] = task[c] /\ mnt'[c] = mnt[c]
<1> USE DEF TypeInv, TypeOK, CallStep, LoopPCs, ctrd, disks, held, step
<1>1. Clean \/ Launch
  BY DEF Next, Daemon, Loop, Load, NextLoop, Orphan, Mount, Start, Stop, Take, Overlook, Pass,
         World, Cancel, Restart, TaskExits, BackendDies, Edit
<1>2. CASE Clean
  BY <1>1, <1>2 DEF Clean, DropTask, DropRec, Unroot, Unimage, Umount, Disconnect, TaskGone, TaskKept
<1>3. CASE Inspect \/ Prepare \/ Connect \/ MountDisk \/ Mark
  BY <1>1, <1>3 DEF Inspect, Prepare, Connect, MountDisk, Mark, Begin, TaskGone
<1>4. CASE MountImage \/ MountOverlay
  BY <1>1, <1>4 DEF MountImage, MountOverlay, Overlay
<1>5. CASE Create \/ RunTask \/ Attach \/ Untask \/ Unrec
  BY <1>1, <1>5 DEF Create, RunTask, Attach, Untask, Unrec, Defer, TaskGone, TaskKept
<1> QED  BY <1>1, <1>2, <1>3, <1>4, <1>5 DEF Launch

\* The states a container can be in, by its record and task.
LEMMA States ==
  ASSUME NEW c \in Containers, TypeOK
  PROVE  /\ rec[c] = NoConfig => StateOf(c) = Idle("missing")
         /\ rec[c] # NoConfig /\ task[c] = "running" => StateOf(c) = Running(rec[c])
         /\ rec[c] # NoConfig /\ task[c] = "exited" => StateOf(c) = Idle("stopped")
         /\ rec[c] # NoConfig /\ task[c] = "none" /\ Mounted(c) /\ loaded[c] # Absent
              => StateOf(c) = Idle("created-mounted")
         /\ rec[c] # NoConfig /\ task[c] = "none" /\ ~(Mounted(c) /\ loaded[c] # Absent)
              => StateOf(c) = Idle("created")
BY DEF StateOf, StateIn

\* Only a start makes a record, for the disk that is asked for, or runs a task,
\* on a record of that disk; a stop keeps the record.
LEMMA RecordMoves ==
  ASSUME TypeInv, QuietInv, Next, CallStep
  PROVE  /\ task'[cur] = "running" =>
              \/ task[cur] = "running" /\ rec'[cur] = rec[cur]
              \/ mode \notin {"orphan", "mount", "stop"} /\ rec'[cur] = Disk
         /\ mode = "stop" => rec'[cur] = rec[cur]
         /\ mode \in {"orphan", "mount"} => rec'[cur] \in {rec[cur], NoConfig}
         /\ cur \in Containers
<1> USE DEF TypeInv, TypeOK, Phases, QuietInv, Quiet, Created, CallStep, LoopPCs, Starts, Cleaning, ctrd, disks, Disk
<1>0. Clean \/ Launch
  BY Commands
<1>1. CASE DropTask
  BY <1>1 DEF DropTask, TaskGone, TaskKept
<1>2. CASE DropRec
  BY <1>2 DEF DropRec
<1>3. CASE Unroot \/ Unimage \/ Umount \/ Disconnect
  BY <1>3 DEF Unroot, Unimage, Umount, Disconnect
<1>4. CASE Inspect
  BY <1>4 DEF Inspect, TaskGone
<1>5. CASE Prepare \/ Connect \/ MountDisk \/ Mark \/ MountImage \/ MountOverlay \/ Attach
  BY <1>5 DEF Prepare, Connect, MountDisk, Mark, MountImage, MountOverlay, Overlay, Attach
<1>6. CASE Create
  BY <1>6 DEF Create
<1>7. CASE RunTask
  BY <1>7 DEF RunTask
<1>8. CASE Untask
  BY <1>8 DEF Untask, TaskGone, TaskKept
<1>9. CASE Unrec
  BY <1>9 DEF Unrec, TaskGone, TaskKept
<1> QED  BY <1>0, <1>1, <1>2, <1>3, <1>4, <1>5, <1>6, <1>7, <1>8, <1>9 DEF Clean, Launch

LEMMA LeavesStep ==
  ASSUME TypeInv, TypeInv', QuietInv, Next, CallStep
  PROVE  StateOf(cur)' \in Leaves(StateOf(cur))
<1> DEFINE h == StateOf(cur)
           k == StateOf(cur)'
           Dead == {Idle("missing"), Idle("created"), Idle("stopped")}
<1>1. cur' = cur /\ loaded' = loaded /\ cur \in Containers
  BY Commands, RecordMoves
<1>2. /\ rec'[cur] = NoConfig => k = Idle("missing")
      /\ task'[cur] = "running" /\ rec'[cur] # NoConfig => k = Running(rec'[cur])
      /\ task'[cur] # "running" \/ rec'[cur] = NoConfig =>
            k \in Dead \/ (k = Idle("created-mounted") /\ loaded[cur] # Absent)
  <2>1. TypeOK'
    BY DEF TypeInv
  <2> QED  BY <1>1, <2>1, States DEF TypeOK, StateOf, StateIn
<1>3. /\ rec[cur] = NoConfig => h = Idle("missing")
      /\ rec[cur] # NoConfig => h # Idle("missing") /\ h.state # "missing"
      /\ task[cur] = "running" /\ rec[cur] # NoConfig => h = Running(rec[cur])
  BY <1>1, States DEF TypeInv, TypeOK, Idle, Running
<1>4. cur \notin VMs /\ cur \in Disked
  BY <1>1, ContainerDiskAssumption
<1>5. \/ k = h
      \/ k = Running(Disk) /\ mode \notin {"orphan", "mount", "stop"}
      \/ k \in Dead
      \/ k = Idle("created-mounted") /\ loaded[cur] # Absent
  BY <1>2, <1>3, RecordMoves
<1>6. CASE mode = "stop"
  <2>1. rec[cur] = NoConfig => k = h
    BY <1>2, <1>3, <1>6, RecordMoves
  <2>2. rec[cur] # NoConfig => h.state # "missing" /\ k # Idle("missing")
    BY <1>1, <1>3, <1>6, <1>2, RecordMoves DEF StateOf, StateIn, Idle, Running
  <2>3. Leaves(h) = StopLeaves(cur, h) /\ h \in StopLeaves(cur, h)
    BY <1>4, <1>6 DEF Leaves, StopLeaves
  <2>4. h.state # "missing" =>
          {Idle("created"), Idle("stopped"), Idle("created-mounted")} \subseteq StopLeaves(cur, h)
    BY <1>4 DEF StopLeaves, StopDone, MountedStates
  <2> QED  BY <1>5, <1>6, <2>1, <2>2, <2>3, <2>4
<1>7. CASE mode \in {"orphan", "mount"}
  <2>1. loaded[cur] = Absent
    BY <1>7, <1>1 DEF QuietInv, Swept, InLoop, Operating, LoopOf, CallStep, Absentees
  <2>2. rec[cur] = NoConfig => k = h
    BY <1>2, <1>3, <1>7, RecordMoves
  <2>3. Leaves(h) = CleanLeaves(cur, h) /\ h \in CleanLeaves(cur, h)
    BY <1>4, <1>7 DEF Leaves, CleanLeaves
  <2>4. h.state # "missing" => Dead \subseteq CleanLeaves(cur, h)
    BY <1>4 DEF CleanLeaves
  <2> QED  BY <1>3, <1>5, <1>7, <2>1, <2>2, <2>3, <2>4
<1>8. CASE mode \notin {"orphan", "mount", "stop"}
  <2>1. Leaves(h) = StartLeaves(cur, Disk, h)
    BY <1>8 DEF Leaves
  <2>2. /\ {h, Running(Disk)} \subseteq StartLeaves(cur, Disk, h)
        /\ Dead \cup {Idle("created-mounted")} \subseteq StartLeaves(cur, Disk, h)
    BY <1>4 DEF StartLeaves, ContainerStates, MountedStates
  <2> QED  BY <1>5, <2>1, <2>2
<1> QED  BY <1>6, <1>7, <1>8

\* A call ends without an error where it attached the task, found one to keep,
\* or unmounted what it was told to.
LEMMA Ends ==
  ASSUME TypeInv, CallInv, Next, CallStep, pc' \in LoopPCs, ~errs'
  PROVE  \/ Umount /\ ~Mounted(cur) /\ mode \in {"orphan", "mount", "stop"}
         \/ Disconnect /\ mode \in {"orphan", "mount", "stop"}
         \/ Inspect /\ rec[cur] = Disk /\ task[cur] = "running" /\ UNCHANGED task
         \/ Attach
<1> USE DEF TypeInv, Phases, CallInv, Operating, CallStep, LoopPCs, Starts, Cleaning
<1>0. Clean \/ Launch
  BY Commands
<1>1. ~DropTask /\ ~DropRec /\ ~Unroot
  BY DEF DropTask, DropRec, Unroot, Go, Error, AfterTask, Failed
<1>2. ~Unimage
  BY DEF Unimage, Go, Error, Failed
<1>3. Umount => ~Mounted(cur) /\ mode \in {"orphan", "mount", "stop"}
  BY DEF Umount, Go, Error, Resume, TypeOK, Modes
<1>4. Disconnect => mode \in {"orphan", "mount", "stop"}
  BY DEF Disconnect, Go, Error, Resume, TypeOK, Modes
<1>5. Inspect => rec[cur] = Disk /\ task[cur] = "running" /\ UNCHANGED task
  BY DEF Inspect, Begin, Go, Error
<1>6. ~Prepare /\ ~Connect /\ ~MountDisk /\ ~Mark
  BY DEF Prepare, Connect, MountDisk, NotMounted, Mark, Begin, Go, Error
<1>7. ~MountImage /\ ~MountOverlay
  BY DEF MountImage, MountOverlay, Overlay, Go
<1>8. ~Create /\ ~RunTask /\ ~Untask /\ ~Unrec
  BY DEF Create, RunTask, Untask, Unrec, Defer, Go
<1> QED  BY <1>0, <1>1, <1>2, <1>3, <1>4, <1>5, <1>6, <1>7, <1>8 DEF Clean, Launch

LEMMA DoneStep ==
  ASSUME TypeInv, TypeInv', QuietInv, CallInv, Next, CallStep, pc' \in LoopPCs, ~errs'
  PROVE  StateOf(cur)' \in CallDone
<1>1. cur' = cur /\ loaded' = loaded /\ cur \in Containers
  BY Commands, RecordMoves
<1>2. TypeOK'
  BY DEF TypeInv
<1> USE DEF TypeInv, TypeOK, Phases, CallInv, Starts, Cleaning, StateOf, StateIn, CallDone
<1>3. CASE ((Umount /\ ~Mounted(cur)) \/ Disconnect) /\ mode \in {"orphan", "mount"}
  <2>1. rec'[cur] = NoConfig
    BY <1>3 DEF QuietInv, Swept, InLoop, Operating, LoopOf, CallStep, Absentees, LoopPCs, Umount, Disconnect, ctrd
  <2> QED  BY <1>1, <1>3, <2>1
<1>4. CASE ((Umount /\ ~Mounted(cur)) \/ Disconnect) /\ mode = "stop"
  <2>1. task'[cur] = "none" /\ ~Mounted(cur)'
    BY <1>4, <1>1 DEF Umount, Disconnect, ctrd, disks, InHand, Mounted
  <2> QED  BY <1>1, <1>4, <2>1
<1>5. CASE \/ Inspect /\ rec[cur] = Disk /\ task[cur] = "running" /\ UNCHANGED task
           \/ Attach
  <2>1. rec'[cur] = Disk /\ task'[cur] \in {"running", "exited"} /\ mode \notin {"orphan", "mount", "stop"}
    BY <1>1, <1>5 DEF Inspect, Attach, ctrd
  <2>2. Disk \in Configs /\ Disk # NoConfig
    BY <1>5, WorkloadsAssumption DEF Inspect, Attach, Requested, Operating, LoopPCs
  <2>3. StateOf(cur)' \in {Running(Disk), Idle("stopped")}
    BY <1>1, <2>1, <2>2
  <2> QED  BY <2>1, <2>3
<1> QED  BY <1>3, <1>4, <1>5, Ends

\* What a call makes of its container, wherever it fails or ends, is what
\* Reconciler assumes of it; other containers keep their state, and a call
\* without an error has done what it was asked (Runtime.Start, Stop, CleanupOrphans).
THEOREM CallsDoAsAssumed == Spec => CallEffects
<1> DEFINE Inv == TypeInv /\ QuietInv /\ CallInv
           Effect == CallStep => /\ StateOf(cur)' \in Leaves(StateOf(cur))
                                 /\ \A c \in Containers \ {cur} : StateOf(c)' = StateOf(c)
                                 /\ pc' \in LoopPCs /\ ~errs' => StateOf(cur)' \in CallDone
<1>1. Init => Inv
  BY TypeInit, QuietInit, CallInit
<1>2. CallInv /\ UNCHANGED vars => CallInv'
  BY DEF CallInv, Mounted, Operating, Disk, vars, ctrd, disks, held, step
<1>3. Inv /\ [Next]_vars => Inv'
  BY <1>2, TypeStep, QuietStep, CallDaemon, CallWorld DEF Next
<1>4. ASSUME Inv, Next, CallStep, NEW c \in Containers \ {cur} PROVE StateOf(c)' = StateOf(c)
  <2>1. rec'[c] = rec[c] /\ task'[c] = task[c] /\ mnt'[c] = mnt[c] /\ loaded' = loaded
    BY <1>4, Commands
  <2> QED  BY <2>1 DEF StateOf, StateIn, Mounted
<1>5. Inv /\ Inv' /\ [Next]_vars => [Effect]_vars
  <2> SUFFICES ASSUME Inv, Inv', Next, CallStep PROVE Effect
    OBVIOUS
  <2>1. StateOf(cur)' \in Leaves(StateOf(cur))
    BY LeavesStep
  <2>2. pc' \in LoopPCs /\ ~errs' => StateOf(cur)' \in CallDone
    BY DoneStep
  <2> QED  BY <1>4, <2>1, <2>2
<1> QED  BY <1>1, <1>3, <1>5, PTL DEF Spec, CallEffects
=============================================================================
