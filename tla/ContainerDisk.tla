--------------------------- MODULE ContainerDisk ---------------------------
(***************************************************************************)
(* The containers of a lab with their disks: internal/containerd driven by *)
(* the steps of foxlabd, one host command at a time.                       *)
(*                                                                         *)
(* A qcow2 disk is connected to an NBD device, mounted under container-data*)
(* and overlaid on the image's root file system; the task runs on the      *)
(* overlay. Commands fail, tasks exit, qemu-nbd dies, the lab file changes *)
(* and the daemon is cancelled or dies at any point. Configs are disks.    *)
(***************************************************************************)
EXTENDS Workloads

CONSTANTS Devices,      \* NBD devices, numbered
          NoDev, None,  \* no device, no container
          InitMarker,   \* .foxlab-disk-source inside each disk; a layer has its base's
          Mishaps,      \* which of Kinds may happen
          MaxEdits, MaxMishaps

\* A command or call fails, or one that takes down; a task exits, a qemu-nbd
\* dies, the daemon is killed, or cancelled.
Kinds == {"fail", "undo", "exit", "death", "crash", "cancel"}

ASSUME ContainerDiskAssumption ==
    /\ VMs = {} /\ Disked = Containers
    /\ Devices \subseteq Nat /\ NoDev \notin Devices /\ None \notin Containers
    /\ InitMarker \in [Configs -> Configs \cup {NoConfig}]
    /\ Mishaps \subseteq Kinds
    /\ MaxEdits \in Nat /\ MaxMishaps \in Nat

VARIABLES
    lab,        \* the lab file
    rec, task,  \* containerd: the record (by the disk in its config hash) and the task
    mnt,        \* the device mounted under container-data/<id>
    root,       \* what of the root is mounted: none, the image, the overlay on it
    dev,        \* the disk qemu-nbd serves on a device; NoConfig when none does
    marker,     \* the path recorded inside each disk
    cut,        \* history: disks whose mount a start had to leave without their marker
    under,      \* history: the disk a running task was started on
    pc, cur,    \* the daemon: where it is, and the container it works on
    mode,       \* why it cleans up: see Resume
    loaded, obs, todo, skip, errs,   \* of the step: failedOrphanIDs is skip
    at,         \* the device in hand
    fresh, made,  \* CleanupDiskOnFailure; the record was created by this start
    cancelled,
    edits, mishaps

ctrd    == <<rec, task, under>>
disks   == <<mnt, root, dev, marker, cut>>
step    == <<loaded, obs, todo, skip>>
held    == <<cur, mode, at, fresh, made>>
bounds  == <<edits, mishaps>>
vars    == <<lab, ctrd, disks, pc, held, step, errs, cancelled, bounds>>

Wanted   == loaded[cur].desired
Disk     == loaded[cur].config
Mounted(c)  == mnt[c] # NoDev
\* mountedContainerDiskUsable: the root can be written and the device be read.
Usable(c)   == Mounted(c) /\ dev[mnt[c]] # NoConfig
UnprobedSource(c) == Mounted(c) /\ (Usable(c) => marker[dev[mnt[c]]] = Disk)   \* mutant
UncheckedSource(c) == Usable(c)                                               \* mutant
Healthy(c)  == Usable(c) /\ marker[dev[mnt[c]]] = Disk

\* What States reports of container c under lab l.
StateIn(l, c) ==
              IF rec[c] = NoConfig THEN Idle("missing")
              ELSE CASE task[c] = "running" -> Running(rec[c])
                     [] task[c] = "exited"  -> Idle("stopped")
                     [] OTHER -> Idle(IF Mounted(c) /\ l[c] # Absent
                                      THEN "created-mounted" ELSE "created")

StateOf(c) == StateIn(loaded, c)

Mishap(kind) == kind \in Mishaps /\ mishaps < MaxMishaps /\ mishaps' = mishaps + 1

\* A command or call of the context of the step. The cleanup a failed start has
\* deferred runs under a context of its own.
Ctx  == ~cancelled \/ mode = "deferred"
Done == Ctx /\ UNCHANGED mishaps
FailsAs(kind) == IF Ctx THEN Mishap(kind) ELSE UNCHANGED mishaps
Fails == FailsAs("fail")
Clogs == FailsAs("undo")

Go(p) == pc' = p /\ UNCHANGED errs
\* The operation ends with an error; the loop it came from goes on.
LoopOf(m) == CASE m = "orphan" -> "orphans" [] m = "mount" -> "mounts" [] OTHER -> "refs"
Error == pc' = LoopOf(mode) /\ errs' = TRUE

-----------------------------------------------------------------------------
(* The step: orphans, their mounts, then the containers of the lab.        *)

Load == /\ pc = "idle" /\ ~cancelled
        /\ loaded' = lab
        /\ IF \A c \in Containers : lab[c] = Absent
           THEN todo' = {} /\ pc' = "idle"
           ELSE /\ todo' = {c \in Containers : rec[c] # NoConfig /\ lab[c] = Absent}
                /\ pc' = "orphans"
        /\ obs' = [c \in Containers |-> StateIn(lab, c)]
        /\ skip' = {} /\ errs' = FALSE
        /\ UNCHANGED <<lab, ctrd, disks, held, cancelled, bounds>>

Take(c, from, m, p) ==
    /\ pc = from /\ ~cancelled /\ c \in todo
    /\ todo' = todo \ {c}
    /\ cur' = c /\ mode' = m /\ pc' = p
    /\ at' = NoDev /\ fresh' = FALSE /\ made' = FALSE
    /\ UNCHANGED <<lab, ctrd, disks, loaded, obs, skip, errs, cancelled, bounds>>

Orphan(c) == Take(c, "orphans", "orphan", "dropTask")

\* cleanupOrphanContainerDiskMounts goes by the marker it reads in the mount; of
\* a disk whose backing died it may still come from the page cache.
AllOf(ids)     == ids          \* mutant
Unskipped(ids) == ids \ skip
Marked(c) == Usable(c) /\ marker[dev[mnt[c]]] # NoConfig
Mount(c) == /\ Take(c, "mounts", "mount", "unroot")
            /\ Marked(c) \/ (Mounted(c) /\ ~Usable(c))
Overlook(c) == /\ pc = "mounts" /\ ~cancelled /\ c \in todo
               /\ ~Marked(c)
               /\ todo' = todo \ {c}
               /\ UNCHANGED <<lab, ctrd, disks, pc, held, loaded, obs, skip, errs, cancelled, bounds>>

Start(c) == loaded[c].desired = "running" /\ Take(c, "refs", "start", "inspect")
\* stoppedCleanupNeeded: a container with a disk is stopped when "created", too.
StopNeeded(c) == obs[c].state \notin DeadStates \ {"created"}
Stop(c)  == /\ loaded[c].desired = "stopped" /\ StopNeeded(c)
            /\ Take(c, "refs", "stop", "dropTask")
Pass(c)  == /\ pc = "refs" /\ ~cancelled /\ c \in todo
            /\ loaded[c].desired = "stopped" /\ ~StopNeeded(c)
            /\ todo' = todo \ {c}
            /\ UNCHANGED <<lab, ctrd, disks, pc, held, loaded, obs, skip, errs, cancelled, bounds>>

NextLoop ==
    /\ todo = {} /\ ~cancelled
    /\ \/ pc = "orphans" /\ pc' = "mounts" /\ todo' = Unskipped({c \in Containers : loaded[c] = Absent})
       \/ pc = "mounts" /\ pc' = "refs" /\ todo' = {c \in Containers : loaded[c] # Absent}
       \/ pc = "refs" /\ pc' = "idle" /\ todo' = {}
    /\ UNCHANGED <<lab, ctrd, disks, held, loaded, obs, skip, errs, cancelled, bounds>>

-----------------------------------------------------------------------------
(* deleteTask and deleteContainer *)

TaskGone == task' = [task EXCEPT ![cur] = "none"] /\ under' = [under EXCEPT ![cur] = NoConfig]
\* A failed deletion may have ended the task.
TaskKept == \/ UNCHANGED <<task, under>>
            \/ /\ task[cur] = "running"
               /\ task' = [task EXCEPT ![cur] = "exited"]
               /\ under' = [under EXCEPT ![cur] = NoConfig]
Spared == IF mode = "orphan" THEN skip \cup {cur} ELSE skip

AfterTaskDestroy == "dropRec"   \* mutant
AfterTask == IF mode = "stop" THEN "unroot" ELSE "dropRec"

DropTask ==
    /\ pc = "dropTask"
    /\ \/ Done /\ TaskGone /\ UNCHANGED skip
          /\ Go(AfterTask)
       \/ Fails /\ TaskKept /\ skip' = Spared /\ Error
    /\ UNCHANGED <<lab, rec, disks, held, loaded, obs, todo, cancelled, edits>>

DropRec ==
    /\ pc = "dropRec"
    /\ \/ Done /\ rec' = [rec EXCEPT ![cur] = NoConfig] /\ Go("unroot") /\ UNCHANGED skip
       \/ Fails /\ skip' = Spared /\ Error /\ UNCHANGED rec
    /\ UNCHANGED <<lab, task, under, disks, held, loaded, obs, todo, cancelled, edits>>

-----------------------------------------------------------------------------
(* cleanupContainerDiskMount: overlay, image, disk, device.                *)
(*   orphan, mount  CleanupOrphans                                         *)
(*   drop, reset    a start that goes on with a new record, or a new mount *)
(*   stop           Stop                                                   *)
(*   best           prepareContainerDiskMount failed: errors are ignored   *)
(*   deferred       Start failed later                                     *)

Resume == CASE mode = "drop" -> "prepare" [] mode = "reset" -> "connect" [] OTHER -> LoopOf(mode)
Failed == IF mode = "best" THEN Go("umount") ELSE Error

Unroot ==
    /\ pc = "unroot"
    /\ \/ Done /\ root' = [root EXCEPT ![cur] = IF @ = "overlay" THEN "image" ELSE @] /\ Go("unimage")
       \/ root[cur] = "overlay" /\ Clogs /\ Failed /\ UNCHANGED root
    /\ UNCHANGED <<lab, ctrd, mnt, dev, marker, cut, held, step, cancelled, edits>>

Unimage ==
    /\ pc = "unimage"
    /\ \/ /\ Done /\ root' = [root EXCEPT ![cur] = "none"]
          /\ Go(IF mode = "deferred" /\ ~fresh THEN "refs" ELSE "umount")
       \/ root[cur] # "none" /\ Clogs /\ Failed /\ UNCHANGED root
    /\ UNCHANGED <<lab, ctrd, mnt, dev, marker, cut, held, step, cancelled, edits>>

\* The kernel refuses while the overlay is mounted below.
Busy(c) == root[c] = "overlay"
Umount ==
    /\ pc = "umount"
    /\ \/ ~Mounted(cur) /\ Go(Resume) /\ UNCHANGED <<mnt, at, mishaps>>
       \/ /\ Mounted(cur) /\ ~Busy(cur) /\ Done
          /\ at' = mnt[cur] /\ mnt' = [mnt EXCEPT ![cur] = NoDev]
          /\ Go("disconnect")
       \/ /\ Mounted(cur)
          /\ IF Busy(cur) THEN UNCHANGED mishaps ELSE Clogs
          /\ Error /\ UNCHANGED <<mnt, at>>
    /\ UNCHANGED <<lab, ctrd, root, dev, marker, cut, cur, mode, fresh, made, step, cancelled, edits>>

Disconnect ==
    /\ pc = "disconnect"
    /\ \/ Done /\ dev' = [dev EXCEPT ![at] = NoConfig] /\ Go(Resume)
       \/ Clogs /\ Error /\ UNCHANGED dev
    /\ UNCHANGED <<lab, ctrd, mnt, root, marker, cut, held, step, cancelled, edits>>

-----------------------------------------------------------------------------
(* Runtime.Start *)

Begin(m, p) == mode' = m /\ Go(p) /\ UNCHANGED <<cur, at, fresh, made>>

\* inspectExistingContainer. AttachContainer may fail on what runs already.
Inspect ==
    /\ pc = "inspect"
    /\ \/ rec[cur] = NoConfig /\ Done /\ Begin("start", "prepare") /\ UNCHANGED <<task, under>>
       \/ /\ rec[cur] \notin {NoConfig, Disk} \/ (task[cur] = "running" /\ ~Healthy(cur))
          /\ Done /\ Begin("drop", "dropTask") /\ UNCHANGED <<task, under>>
       \/ /\ rec[cur] = Disk /\ task[cur] = "running" /\ Healthy(cur)
          /\ Done /\ Begin("start", "refs") /\ UNCHANGED <<task, under>>
       \/ /\ rec[cur] = Disk /\ task[cur] # "running"
          /\ Done /\ TaskGone /\ Begin("start", "prepare")
       \/ Fails /\ Error /\ UNCHANGED <<task, under, held>>
    /\ UNCHANGED <<lab, rec, disks, step, cancelled, edits>>

Prepare ==
    /\ pc = "prepare"
    /\ \/ Healthy(cur) /\ Done /\ Begin("start", "image")
       \/ Mounted(cur) /\ ~Healthy(cur) /\ Done /\ Begin("reset", "umount")
       \/ ~Mounted(cur) /\ Done /\ Begin("start", "connect")
       \/ Fails /\ Error /\ UNCHANGED held
    /\ UNCHANGED <<lab, ctrd, disks, step, cancelled, edits>>

\* freeNBDDevice: the lowest device that is not in /proc/mounts.
Unserved == {n \in Devices : dev[n] = NoConfig}   \* mutant
Free == {n \in Devices : \A c \in Containers : mnt[c] # n}
FreeDevice == CHOOSE n \in Free : \A m \in Free : n <= m
\* qemu-nbd locks the image, and a device serves one image.
CanConnect == /\ Free # {} /\ dev[FreeDevice] = NoConfig
              /\ \A n \in Devices : dev[n] # Disk

Connect ==
    /\ pc = "connect"
    /\ mode' = "start"
    /\ \/ /\ CanConnect /\ Done
          /\ dev' = [dev EXCEPT ![FreeDevice] = Disk] /\ at' = FreeDevice
          /\ Go("mountDisk")
       \/ /\ IF CanConnect THEN Fails ELSE UNCHANGED mishaps
          /\ pc' = "refs" /\ errs' = TRUE /\ UNCHANGED <<dev, at>>
    /\ UNCHANGED <<lab, ctrd, mnt, root, marker, cut, cur, fresh, made, step, cancelled, edits>>

\* waitContainerDiskReady and mountContainerDisk
LeftConnected == "refs"         \* mutant
NotMounted    == "disconnect"
MountDisk ==
    /\ pc = "mountDisk"
    /\ \/ /\ dev[at] # NoConfig /\ Done
          /\ mnt' = [mnt EXCEPT ![cur] = at] /\ fresh' = TRUE
          /\ Go("mark") /\ UNCHANGED mode
       \/ /\ IF dev[at] # NoConfig THEN Fails ELSE UNCHANGED mishaps
          /\ mode' = "best" /\ pc' = NotMounted /\ errs' = TRUE /\ UNCHANGED <<mnt, fresh>>
    /\ UNCHANGED <<lab, ctrd, root, dev, marker, cut, cur, at, made, step, cancelled, edits>>

\* growMountedContainerDiskFilesystem and writeContainerDiskSourceMarker
Mark ==
    /\ pc = "mark"
    /\ \/ /\ dev[at] # NoConfig /\ Done
          /\ marker' = [marker EXCEPT ![dev[at]] = Disk]
          /\ Go("image") /\ UNCHANGED <<mode, cut>>
       \/ /\ IF dev[at] # NoConfig THEN Fails ELSE UNCHANGED mishaps
          /\ mode' = "best" /\ pc' = "umount" /\ errs' = TRUE
          /\ cut' = cut \cup {Disk} /\ UNCHANGED marker
    /\ UNCHANGED <<lab, ctrd, mnt, root, dev, cur, at, fresh, made, step, cancelled, edits>>

\* prepareContainerOverlayMount: the image is mounted when it is not, an overlay
\* is unmounted and mounted anew. A mount that was reused is left on failure.
Overlay(from, done, failed, then) ==
    /\ pc = from
    /\ \/ Done /\ root' = [root EXCEPT ![cur] = done] /\ Go(then) /\ UNCHANGED mode
       \/ /\ Fails /\ errs' = TRUE
          /\ root' \in {[root EXCEPT ![cur] = r] : r \in failed}
          /\ IF fresh THEN mode' = "best" /\ pc' = "unroot" ELSE pc' = "refs" /\ UNCHANGED mode
    /\ UNCHANGED <<lab, ctrd, mnt, dev, marker, cut, cur, at, fresh, made, step, cancelled, edits>>
MountImage   == Overlay("image", IF root[cur] = "none" THEN "image" ELSE root[cur], {root[cur]}, "overlay")
MountOverlay == Overlay("overlay", "overlay", {root[cur], "image"}, "create")

Defer == mode' = "deferred" /\ pc' = "unroot" /\ errs' = TRUE

\* ensureContainerForStart
Create ==
    /\ pc = "create"
    /\ \/ /\ Done /\ rec' = [rec EXCEPT ![cur] = Disk] /\ made' = (rec[cur] = NoConfig)
          /\ Go("run") /\ UNCHANGED mode
       \/ Fails /\ Defer /\ UNCHANGED <<rec, made>>
    /\ UNCHANGED <<lab, task, under, disks, cur, at, fresh, step, cancelled, edits>>

\* ensureContainerTaskRunning: a task that cannot start is deleted again.
RunTask ==
    /\ pc = "run"
    /\ \/ /\ Usable(cur) /\ Done
          /\ task' = [task EXCEPT ![cur] = "running"]
          /\ under' = [under EXCEPT ![cur] = dev[mnt[cur]]]
          /\ Go("attach")
       \/ /\ IF Usable(cur) THEN Fails ELSE UNCHANGED mishaps
          /\ task' \in {[task EXCEPT ![cur] = t] : t \in {"none", "exited"}}
          /\ pc' = "untask" /\ UNCHANGED <<under, errs>>
    /\ UNCHANGED <<lab, rec, disks, held, step, cancelled, edits>>

Attach ==
    /\ pc = "attach"
    /\ \/ Done /\ Go("refs")
       \/ Fails /\ Go("untask")
    /\ UNCHANGED <<lab, ctrd, disks, held, step, cancelled, edits>>

Untask ==
    /\ pc = "untask"
    /\ \/ Done /\ TaskGone
       \/ task[cur] # "none" /\ Clogs /\ TaskKept
    /\ IF made THEN Go("unrec") /\ UNCHANGED mode ELSE Defer
    /\ UNCHANGED <<lab, rec, disks, cur, at, fresh, made, step, cancelled, edits>>

\* startContainerTaskWithRollback
Unrec ==
    /\ pc = "unrec"
    /\ \/ Done /\ TaskGone /\ rec' = [rec EXCEPT ![cur] = NoConfig]
       \/ Clogs /\ (TaskKept \/ TaskGone) /\ UNCHANGED rec
    /\ Defer
    /\ UNCHANGED <<lab, disks, cur, at, fresh, made, step, cancelled, edits>>

-----------------------------------------------------------------------------
(* The surroundings *)

Cancel == /\ ~cancelled /\ pc # "idle"
          /\ Mishap("cancel")
          /\ cancelled' = TRUE
          /\ UNCHANGED <<lab, ctrd, disks, pc, held, step, errs, edits>>

\* The process ends, killed or cancelled, and another one begins.
Restart == /\ \/ cancelled /\ UNCHANGED mishaps
              \/ pc # "idle" /\ Mishap("crash")
           /\ pc' = "idle" /\ cancelled' = FALSE
           /\ cur' = None /\ mode' = "start" /\ at' = NoDev /\ fresh' = FALSE /\ made' = FALSE
           /\ todo' = {} /\ skip' = {} /\ errs' = TRUE
           /\ cut' = IF pc = "mark" THEN cut \cup {Disk} ELSE cut
           /\ UNCHANGED <<lab, ctrd, mnt, root, dev, marker, loaded, obs, edits>>

TaskExits == /\ Mishap("exit")
             /\ \E c \in Containers :
                  /\ task[c] = "running"
                  /\ task' = [task EXCEPT ![c] = "exited"]
                  /\ under' = [under EXCEPT ![c] = NoConfig]
             /\ UNCHANGED <<lab, rec, disks, pc, held, step, errs, cancelled, edits>>

BackendDies == /\ Mishap("death")
               /\ \E n \in Devices : dev[n] # NoConfig /\ dev' = [dev EXCEPT ![n] = NoConfig]
               /\ UNCHANGED <<lab, ctrd, mnt, root, marker, cut, pc, held, step, errs, cancelled, edits>>

\* A disk is attached to one container at a time.
Edit == /\ edits < MaxEdits
        /\ edits' = edits + 1
        /\ \E c \in Containers, e \in Entry :
             /\ e.desired = "running" => \A o \in Containers \ {c} : lab[o] # e
             /\ lab' = [lab EXCEPT ![c] = e]
        /\ UNCHANGED <<ctrd, disks, pc, held, step, errs, cancelled, mishaps>>

-----------------------------------------------------------------------------
Init == /\ lab = [c \in Containers |-> Stopped]
        /\ rec = [c \in Containers |-> NoConfig]
        /\ task = [c \in Containers |-> "none"]
        /\ under = [c \in Containers |-> NoConfig]
        /\ mnt = [c \in Containers |-> NoDev]
        /\ root = [c \in Containers |-> "none"]
        /\ dev = [n \in Devices |-> NoConfig]
        /\ marker = InitMarker /\ cut = {}
        /\ pc = "idle" /\ cur = None /\ mode = "start" /\ at = NoDev
        /\ fresh = FALSE /\ made = FALSE
        /\ loaded = [c \in Containers |-> Absent]
        /\ obs = [c \in Containers |-> Idle("missing")]
        /\ todo = {} /\ skip = {} /\ errs = FALSE /\ cancelled = FALSE
        /\ edits = 0 /\ mishaps = 0

Loop   == Load \/ NextLoop \/ \E c \in Containers : Orphan(c) \/ Mount(c) \/ Overlook(c)
                                                    \/ Start(c) \/ Stop(c) \/ Pass(c)
Clean  == DropTask \/ DropRec \/ Unroot \/ Unimage \/ Umount \/ Disconnect
Launch == Inspect \/ Prepare \/ Connect \/ MountDisk \/ Mark \/ MountImage \/ MountOverlay
          \/ Create \/ RunTask \/ Attach \/ Untask \/ Unrec
Daemon == Loop \/ Clean \/ Launch
World  == Cancel \/ Restart \/ TaskExits \/ BackendDies \/ Edit
Next   == Daemon \/ World
Spec   == Init /\ [][Next]_vars

\* The ticker starts step after step, and host commands return.
FairSpec == Spec /\ WF_vars(Daemon) /\ WF_vars(Restart /\ cancelled)
-----------------------------------------------------------------------------
(* Properties *)

LoopPCs == {"idle", "orphans", "mounts", "refs"}
PCs     == LoopPCs \cup {"inspect", "dropTask", "dropRec", "unroot", "unimage", "umount", "disconnect",
                         "prepare", "connect", "mountDisk", "mark", "image", "overlay", "create", "run",
                         "attach", "untask", "unrec"}
Modes   == {"orphan", "mount", "start", "drop", "reset", "stop", "best", "deferred"}

\* Every variable has its type, no device is mounted twice, and no task or
\* overlay is without what it needs at the time it is made.
TypeOK == /\ lab \in Labs /\ loaded \in Labs
          /\ rec \in [Containers -> Configs \cup {NoConfig}]
          /\ task \in [Containers -> {"none", "running", "exited"}]
          /\ under \in [Containers -> Configs \cup {NoConfig}]
          /\ mnt \in [Containers -> Devices \cup {NoDev}]
          /\ \A c, d \in Containers : c # d /\ Mounted(c) => mnt[c] # mnt[d]
          /\ root \in [Containers -> {"none", "image", "overlay"}]
          /\ dev \in [Devices -> Configs \cup {NoConfig}]
          /\ marker \in [Configs -> Configs \cup {NoConfig}] /\ cut \subseteq Configs
          /\ pc \in PCs /\ mode \in Modes
          /\ cur \in Containers \cup {None} /\ (pc \notin LoopPCs => cur # None)
          /\ obs \in [Containers -> HostState]
          /\ todo \subseteq Containers /\ skip \subseteq Containers
          /\ at \in Devices \cup {NoDev} /\ (pc \in {"mountDisk", "mark", "disconnect"} => at # NoDev)
          /\ {errs, fresh, made, cancelled} \subseteq BOOLEAN
          /\ edits \in 0..MaxEdits /\ mishaps \in 0..MaxMishaps

\* What a call makes of its container, whatever fails in it and wherever it
\* ends, is what Reconciler assumes of it, and other containers keep their
\* state; a call without an error has done what it was asked.
CallStep  == pc \notin LoopPCs /\ pc' # pc /\ pc' # "idle"
Leaves(h) == CASE mode = "stop" -> StopLeaves(cur, h)
               [] mode \in {"orphan", "mount"} -> CleanLeaves(cur, h)
               [] OTHER -> StartLeaves(cur, Disk, h)
CallDone  == CASE mode = "stop" -> {Idle("missing"), Idle("created")}
               [] mode \in {"orphan", "mount"} -> {Idle("missing")}
               [] OTHER -> {Running(Disk), Idle("stopped")}  \* the task may exit again
CallEffects ==
    [][CallStep => /\ StateOf(cur)' \in Leaves(StateOf(cur))
                   /\ \A c \in Containers \ {cur} : StateOf(c)' = StateOf(c)
                   /\ pc' \in LoopPCs /\ ~errs' => StateOf(cur)' \in CallDone]_vars

\* The daemon takes no overlay, mount or device from under a running task, but
\* in the deferred cleanup of a start whose own task it could not delete again
\* (failedOrphanIDs, and the order of deleteContainer and cleanup everywhere).
Pulls(c) == \/ root[c] = "overlay" /\ (root'[c] # "overlay" \/ (pc = "overlay" /\ cur = c))
            \/ Mounted(c) /\ mnt'[c] # mnt[c]
            \/ Usable(c) /\ dev'[mnt[c]] # dev[mnt[c]]
PullsNoTask == [][\A c \in Containers : CallStep /\ task[c] = "running" /\ Pulls(c) => mode = "deferred"]_vars

\* A task runs on the disk its record was made for, though layers carry the
\* marker of their base and mounts are reused by their marker. All but one: when
\* a start mounts a layer and is killed, or fails, before it has written the
\* marker, the mount may stay and pass for the one of its base.
OwnDisk == \A c \in Containers : task[c] = "running" =>
               under[c] = rec[c] \/ (under[c] \in cut /\ InitMarker[under[c]] = rec[c])

\* No device stays connected that no container has mounted, as freeNBDDevice
\* would offer it again and qemu-nbd refuse it.
NoStray == \A n \in Devices : dev[n] # NoConfig =>
               \/ \E c \in Containers : mnt[c] = n
               \/ at = n /\ pc \in {"mountDisk", "disconnect"}

\* A step without errors has unmounted the disks of what the lab wants stopped:
\* its snapshot lets requireDiskOffline pass for every state but "created-mounted".
StoppedIsFree == pc = "idle" /\ ~errs => \A c \in Containers : loaded[c] = Stopped => ~Mounted(c)

\* When edits and mishaps end, the containers settle to the lab file, on
\* healthy disks ("treats an unreadable mounted disk source as unhealthy during
\* reconcile so broken rootfs mounts are recreated", manual runtime report). All
\* but one whose disk a stopped container has kept, as StoppedIsFree tells.
Kept(d) == \E o \in Containers : /\ lab[o] = Stopped /\ task[o] = "exited"
                                  /\ Usable(o) /\ dev[mnt[o]] = d
Settled(c) == CASE lab[c].desired = "running" ->
                      \/ /\ task[c] = "running" /\ under[c] = lab[c].config
                         /\ Usable(c) /\ dev[mnt[c]] = lab[c].config
                      \/ Kept(lab[c].config)
                [] lab[c].desired = "stopped" -> task[c] # "running"
                [] OTHER -> (\E o \in Containers : lab[o] # Absent) => rec[c] = NoConfig /\ ~Mounted(c)
Recovers == <>[](\A c \in Containers : Settled(c))
=============================================================================
