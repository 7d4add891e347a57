------------------------------ MODULE DiskOps ------------------------------
(***************************************************************************)
(* The disk operations (internal/topology): each works on the disk files,   *)
(* by qemu-img or by moving them, and changes the lab by a transaction of   *)
(* LabSession, in the order of its handler.  Host commands fail, the        *)
(* program is killed, and the daemon goes on starting and stopping          *)
(* workloads from the lab it last read.  A file is what it holds that no    *)
(* other file does, the file behind it and its size.                        *)
(***************************************************************************)
EXTENDS LabRules, LabSession

CONSTANTS
  DiskIds,    \* ids that requests give to disks
  Backups,    \* names for files that are moved aside
  Sizes,      \* sizes that requests ask for
  FirstFiles, \* the disk files at the start
  MaxJobs,    \* bound on operations
  MaxMishaps  \* bound on failures, crashes and saves that cannot be read back

ASSUME DiskOpsAssumption == MaxJobs \in Nat /\ MaxMishaps \in Nat

VARIABLES
  files,   \* the disk files, by path
  job,     \* the operation under way
  step,    \* its next step: none, ask, check, qemu, aside, unlink, change, saving, again
  running, \* the workloads that run, each with the path of the disk it opened
  seen,    \* the lab that the daemon's pass works from, NoLab between passes
  hurt,    \* something happened that the code does not repair
  taken,   \* the paths of the lab's disks whose files an import was asked to take
  spoilt,  \* what was on the disks and is no longer as it was
  jobs, mishaps

diskVars == <<files, job, step, running, seen, hurt, taken, spoilt, jobs, mishaps>>
vars == <<sessionVars, diskVars>>

File(holds, back, size) == [holds |-> holds, back |-> back, size |-> size]
NoPath == <<None, None>>
Storage(id) == <<"disks", id>>
LayerPath(id) == <<"layers", id>>

Without(path) == [p \in DOMAIN files \ {path} |-> files[p]]
With(path, f) == [p \in DOMAIN files \union {path} |-> IF p = path THEN f ELSE files[p]]
Moved(from, to) ==
  [p \in (DOMAIN files \ {from}) \union {to} |-> IF p = to THEN files[from] ELSE files[p]]

\* What the files at some paths hold, and what the host holds, wherever it is.
DataOn(paths) == UNION {files[p].holds : p \in paths}
OnHost == DataOn(DOMAIN files) \ spoilt

\* The files that are over a path, at one remove or several: each shows the
\* disk as its base was when it was made.
Above(path) ==
  LET upTo[n \in Nat] ==
        IF n = 0 THEN {}
        ELSE LET under == {path} \union upTo[n - 1] IN {p \in DOMAIN files : files[p].back \in under}
  IN  upTo[Cardinality(DOMAIN files)]

\* Any of this data may be damaged.
Spoils(data) == \E gone \in SUBSET data : spoilt' = spoilt \union gone

NoJob ==
  [kind |-> None, id |-> None, at |-> Nowhere, path |-> NoPath, from |-> NoPath, size |-> 0, shrinks |-> FALSE,
   back |-> NoLab, to |-> NoLab, had |-> {}, told |-> FALSE, stopped |-> FALSE, then |-> None]

Init ==
  /\ SessionInit
  /\ files = FirstFiles /\ job = NoJob /\ step = "none"
  /\ running = << >> /\ seen = NoLab
  /\ hurt = FALSE /\ taken = {} /\ spoilt = {} /\ jobs = 0 /\ mishaps = 0

-----------------------------------------------------------------------------
(* The lab's disks and the requests on them *)

Paths(disks) == {d.path : d \in disks}
DiskWith(id) == CHOOSE d \in cur.disks : d.id = id
Registered == {d.id : d \in cur.disks}
Unused == DiskIds \ Registered  \* the menu and an import take ids of these
NewDisk(id, path, kind, base, at, size) ==
  [id |-> id, path |-> path, kind |-> kind, base |-> base, at |-> at, size |-> size]

At(w) == [kind |-> w.kind, id |-> w.id]
SetWorkloadDisk(l, at, path) ==
  [l EXCEPT !.work = {IF At(w) = at THEN [w EXCEPT !.disk = path] ELSE w : w \in @}]

\* detachActiveDisk: whatever disk the workload has is free again.
DetachActive(l, at) ==
  SetWorkloadDisk([l EXCEPT !.disks = {IF d.at = at THEN [d EXCEPT !.at = Nowhere] ELSE d : d \in @}], at, NoPath)

\* The lab with one more disk, which takes the place of the one attached to at.
Registers(d) ==
  LET l == IF d.at = Nowhere THEN cur ELSE SetWorkloadDisk(DetachActive(cur, d.at), d.at, d.path)
  IN  [l EXCEPT !.disks = @ \union {d}]

Unregisters(d) ==
  LET l == IF d.at = Nowhere THEN cur ELSE SetWorkloadDisk(cur, d.at, NoPath)
  IN  [l EXCEPT !.disks = @ \ {d}]

Targets == {At(w) : w \in {v \in cur.work : ~v.dhcp}}
Attached(at) == {d \in cur.disks : d.at = at}

\* The lab with a disk that it has as the one of a workload.
Activates(d, at) ==
  LET l == DetachActive(cur, at)
  IN  SetWorkloadDisk([l EXCEPT !.disks = {IF e.id = d.id THEN [e EXCEPT !.at = at] ELSE e : e \in @}], at, d.path)

\* A workload that the daemon's pass, or its next one, is to run.
ToRun(l, at) == l # NoLab /\ \E w \in l.work : At(w) = at /\ w.desired = "running"

Job(kind, id, path, to) ==
  [NoJob EXCEPT !.kind = kind, !.id = id, !.path = path, !.to = to, !.had = OnHost]

\* A request that passes the checks of its handler: where it starts.
Request(j, s) ==
  /\ jobs < MaxJobs
  /\ job' = j /\ step' = s /\ jobs' = jobs + 1
  /\ taken' = IF j.kind = "import" THEN taken \union ({j.from} \intersect Paths(cur.disks)) ELSE taken
  /\ UNCHANGED <<sessionVars, running, seen, hurt, spoilt, mishaps>>

\* CreateDisk: the path is reserved by a file of its own before qemu-img runs.
CreateDisk(id, at, size) ==
  /\ id \in Unused /\ Storage(id) \notin DOMAIN files
  /\ Request([Job("create", id, Storage(id), Registers(NewDisk(id, Storage(id), "base", None, at, size)))
                EXCEPT !.size = size], "qemu")
  /\ files' = With(Storage(id), File({}, NoPath, 0))

\* DiskLayerCreate, and DiskLayerCreateAttach with a workload.
CreateLayer(base, id, at) ==
  /\ DiskWith(base).kind = "base" /\ id \in Unused /\ LayerPath(id) \notin DOMAIN files
  /\ Request([Job("layer", id, LayerPath(id), Registers(NewDisk(id, LayerPath(id), "layer", base, at, 0)))
                EXCEPT !.from = DiskWith(base).path], "qemu")
  /\ files' = With(LayerPath(id), File({}, NoPath, 0))

\* DiskImport of any file, a listed disk's too, which it moves from under that
\* disk or lists again: linked at its new place, or left where it is when that
\* is its place already.  importedDiskTarget's id is one that is free.
DiskImport(source, id) ==
  /\ source \in DOMAIN files
  /\ id \in Unused
  /\ Storage(id) = source \/ Storage(id) \notin DOMAIN files
  /\ Request([Job("import", id, Storage(id),
                  Registers(NewDisk(id, Storage(id), "base", None, Nowhere, files[source].size)))
                EXCEPT !.from = source], IF Storage(id) = source THEN "change" ELSE "unlink")
  /\ files' = With(Storage(id), files[source])

\* AttachDisk, for every kind of disk.
AttachDisk(id, at) ==
  LET d == DiskWith(id)
  IN  /\ d.at \in {Nowhere, at} /\ (d.kind = "data" => at.kind = "container")
      /\ Request(Job("edit", id, d.path, Activates(d, at)), "change")
      /\ UNCHANGED files

DetachDisk(at) ==
  /\ Attached(at) # {}
  /\ Request(Job("edit", None, NoPath, DetachActive(cur, at)), "change")
  /\ UNCHANGED files

\* The menu's delete of the disk in use is two operations, the second only
\* after the first has worked: deleteDiskMenuEntry.
DeleteActive(at) ==
  \E d \in Attached(at) :
    /\ Request([Job("edit", d.id, NoPath, DetachActive(cur, at)) EXCEPT !.then = d.id], "change")
    /\ UNCHANGED files

\* diskMerge and diskResize of the UI: of a disk that a workload has, the
\* runtime is asked for the states first.
Asks(d, j) ==
  /\ Request([j EXCEPT !.at = d.at], IF d.at = Nowhere THEN "check" ELSE "ask")
  /\ UNCHANGED files

DiskMerge(id) ==
  LET d == DiskWith(id)
  IN  /\ d.kind = "layer" /\ Sane(Normal(Unregisters(d)))
      /\ Asks(d, Job("merge", id, d.path, Unregisters(d)))

ResizeDisk(id, size, force) ==
  LET d == DiskWith(id)
  IN  /\ d.size > 0 /\ size < d.size => force
      /\ Asks(d, [Job("resize", id, d.path,
                      [cur EXCEPT !.disks = (@ \ {d}) \union {[d EXCEPT !.size = size]}])
                    EXCEPT !.size = size, !.shrinks = d.size > 0 /\ size < d.size, !.back = cur])

\* The file keeps its name: layers find it by its path.
DiskRename(id, new) ==
  /\ new \notin Registered
  /\ Request(Job("edit", id, NoPath,
                 [cur EXCEPT !.disks = {[d EXCEPT !.id = IF @ = id THEN new ELSE @,
                                                  !.base = IF @ = id THEN new ELSE @] : d \in @}]), "change")
  /\ UNCHANGED files

Deletable(d) == d.at = Nowhere /\ \A e \in cur.disks : e.base # d.id
Deletion(d) == Job("delete", d.id, d.path, Unregisters(d))

\* DiskDelete and DiskLayerDelete.
DiskDelete(id) ==
  LET d == DiskWith(id)
  IN  Deletable(d) /\ Request(Deletion(d), "aside") /\ UNCHANGED files

SetDesired(at, state) ==
  /\ Request(Job("edit", None, NoPath,
                 [cur EXCEPT !.work = {IF At(w) = at THEN [w EXCEPT !.desired = state] ELSE w : w \in @}]), "change")
  /\ UNCHANGED files

Requests ==
  /\ phase = "idle" /\ step = "none"
  /\ \/ \E id \in DiskIds, at \in Targets \union {Nowhere} :
          \/ \E size \in Sizes : CreateDisk(id, at, size)
          \/ \E base \in Registered : CreateLayer(base, id, at)
     \/ \E id \in DiskIds, source \in DOMAIN files : DiskImport(source, id)
     \/ \E id \in Registered :
          \/ \E at \in Targets : AttachDisk(id, at)
          \/ \E size \in Sizes, force \in BOOLEAN : ResizeDisk(id, size, force)
          \/ \E new \in DiskIds : DiskRename(id, new)
          \/ DiskMerge(id) \/ DiskDelete(id)
     \/ \E at \in Targets : DetachDisk(at) \/ DeleteActive(at) \/ \E state \in {"running", "stopped"} : SetDesired(at, state)

-----------------------------------------------------------------------------
(* The steps of an operation *)

Goes(s) == step' = s /\ UNCHANGED <<job, running, seen, taken, jobs>>
Over == step' = "none" /\ job' = NoJob /\ UNCHANGED <<running, seen, taken, jobs>>
Fine == UNCHANGED <<hurt, mishaps>>
Mishap == mishaps < MaxMishaps /\ mishaps' = mishaps + 1

\* The daemon has been told to run the workload, and the session's lab does not say so.
Told(at) == ToRun(seen, at) \/ (ToRun(Normal(file), at) /\ ~ToRun(cur, at))

\* refreshDiskOperationStates, of the runtime itself: the operation is given up
\* when it cannot be asked.
ReadStates ==
  /\ step = "ask" /\ UNCHANGED <<sessionVars, files, running, seen, hurt, taken, spoilt, jobs>>
  /\ \/ /\ job' = [job EXCEPT !.stopped = job.at \notin DOMAIN running, !.told = Told(job.at)]
        /\ step' = "check" /\ UNCHANGED mishaps
     \/ job' = NoJob /\ step' = "none" /\ Mishap

\* Mutant: the lab may want the workload to run, as long as it does not yet.
OfflineNow == job.at # Nowhere => job.stopped

\* requireDiskOffline, of the lab and of the states that were read.
Offline == job.at # Nowhere => ~ToRun(cur, job.at) /\ job.stopped

CheckOffline ==
  /\ step = "check" /\ UNCHANGED <<sessionVars, files, spoilt>> /\ Fine
  /\ IF Offline THEN Goes(IF job.kind = "merge" THEN "qemu" ELSE "change") ELSE Over

\* A file that the handler puts away: the call may fail, which it passes over.
PutAway(path) ==
  \/ files' = Without(path) /\ Fine
  \/ UNCHANGED files /\ Mishap /\ UNCHANGED hurt

Layered(path) == path \in DOMAIN files /\ files[path].back \in DOMAIN files

\* qemu-img finds its files, and shrinks none unless it is told to.
QemuCan ==
  CASE job.kind = "create" -> TRUE
    [] job.kind = "layer" -> job.from \in DOMAIN files
    [] job.kind = "merge" -> Layered(job.path)
    [] job.kind = "resize" -> job.path \in DOMAIN files /\ (job.size < files[job.path].size => job.shrinks)

\* What is on other files over the base of the layer that is merged.
OnSiblings == DataOn(Above(files[job.path].back) \ {job.path})

\* A commit writes some of the layer into its base, which grows to its size;
\* the other layers on that base are left on one that has changed.
Commits(some) ==
  LET to == files[job.path].back
      larger == IF files[to].size < files[job.path].size THEN files[job.path].size ELSE files[to].size
  IN  /\ files' = [files EXCEPT ![to].holds = @ \union some, ![to].size = larger]
      /\ Spoils(OnSiblings)

\* What a shrink cuts off, on the disk itself and on those over it.
InReach == IF job.shrinks THEN DataOn({job.path} \union Above(job.path)) ELSE {}

QemuWorks ==
  /\ step = "qemu" /\ QemuCan /\ UNCHANGED sessionVars /\ Fine
  /\ \/ /\ job.kind = "create" /\ Goes("change") /\ UNCHANGED spoilt
        /\ files' = With(job.path, File({}, NoPath, job.size))
     \/ /\ job.kind = "layer" /\ Goes("change") /\ UNCHANGED spoilt
        /\ files' = With(job.path, File({}, job.from, files[job.from].size))
     \/ job.kind = "merge" /\ Goes("aside") /\ Commits(files[job.path].holds)
     \/ /\ job.kind = "resize" /\ Over /\ Spoils(InReach)
        /\ files' = [files EXCEPT ![job.path].size = job.size]

QemuFails ==
  /\ step = "qemu" /\ UNCHANGED <<sessionVars, hurt>>
  /\ IF QemuCan THEN Mishap ELSE UNCHANGED mishaps
  /\ \/ /\ job.kind \in {"create", "layer"} /\ Over
        /\ files' = Without(job.path) /\ UNCHANGED spoilt
     \/ /\ job.kind = "merge" /\ Over
        /\ \/ UNCHANGED <<files, spoilt>>
           \/ Layered(job.path) /\ \E some \in SUBSET files[job.path].holds : Commits(some)
     \/ job.kind = "resize" /\ Goes("again") /\ UNCHANGED <<files, spoilt>>

\* The second half of an import's move; a failure takes the first one back.
Unlink ==
  /\ step = "unlink" /\ UNCHANGED <<sessionVars, spoilt>>
  /\ \/ files' = Without(job.from) /\ Goes("change") /\ Fine
     \/ files' = Without(job.path) /\ Over /\ Mishap /\ UNCHANGED hurt

\* Mutant: the file is removed before the lab is saved.
MoveAsideRemoves ==
  /\ step = "aside" /\ UNCHANGED <<sessionVars, spoilt>> /\ Fine
  /\ files' = Without(job.path) /\ Goes("change")

\* moveFileAside; a file that is missing already is nobody's loss.
MoveAside ==
  /\ step = "aside" /\ UNCHANGED <<sessionVars, spoilt>>
  /\ \/ /\ job.path \in DOMAIN files /\ Fine
        /\ \E b \in Backups \ DOMAIN files :
             /\ files' = Moved(job.path, b)
             /\ job' = [job EXCEPT !.from = b] /\ step' = "change"
             /\ UNCHANGED <<running, seen, taken, jobs>>
     \/ job.path \notin DOMAIN files /\ Goes("change") /\ UNCHANGED files /\ Fine
     \/ Over /\ UNCHANGED files /\ Mishap /\ UNCHANGED hurt

Change ==
  /\ step = "change" /\ cur' = job.to /\ Begin
  /\ Goes("saving") /\ UNCHANGED <<files, spoilt>> /\ Fine

\* Mutant: the lab keeps the size that qemu-img did not give.
ChangeBackNot ==
  /\ step = "again" /\ Over /\ UNCHANGED <<files, spoilt, sessionVars>> /\ Fine

\* ResizeDisk after qemu-img has failed: Rollback, and the lab of before is saved.
ChangeBack ==
  /\ step = "again" /\ cur' = job.back /\ SaveAgain
  /\ step' = "saving" /\ job' = [job EXCEPT !.back = NoLab]
  /\ UNCHANGED <<files, running, seen, taken, spoilt, jobs>> /\ Fine

\* A save that fails is taken back; one that is not read back leaves the file
\* and the session apart, which no handler repairs.
Saving ==
  /\ UNCHANGED <<files, job, step, running, seen, taken, spoilt, jobs>>
  /\ \/ (CreateTemp \/ WriteTemp \/ Rename \/ Reload) /\ Fine
     \/ /\ SaveFails /\ UNCHANGED hurt
        /\ IF Sane(Normal(cur)) THEN Mishap ELSE UNCHANGED mishaps
     \/ ReloadFails /\ Mishap /\ hurt' = TRUE

\* What a file that was moved stands for goes back; hurt when that fails too.
PutBack(from, to) ==
  \/ from \in DOMAIN files /\ files' = Moved(from, to) /\ Fine
  \/ UNCHANGED files /\ Mishap /\ hurt' = TRUE

\* The disk that is deleted once it is free, if nothing stands against it.
ThenDeletes == job.then # None /\ Deletable(DiskWith(job.then))

Saved ==
  /\ result = "ok"
  /\ \/ /\ job.kind \in {"merge", "delete"} /\ job.from # NoPath
        /\ PutAway(job.from) /\ Over
     \/ /\ job.kind = "resize" /\ job.back # NoLab
        /\ Goes("qemu") /\ UNCHANGED files /\ Fine
     \/ /\ ThenDeletes
        /\ job' = [Deletion(DiskWith(job.then)) EXCEPT !.had = job.had] /\ step' = "aside"
        /\ UNCHANGED <<running, seen, taken, jobs, files>> /\ Fine
     \/ /\ ~(job.kind \in {"merge", "delete"} /\ job.from # NoPath)
        /\ ~(job.kind = "resize" /\ job.back # NoLab)
        /\ ~ThenDeletes
        /\ Over /\ UNCHANGED files /\ Fine

NotSaved ==
  /\ result # "ok" /\ Over
  /\ \/ job.kind \in {"create", "layer"} /\ PutAway(job.path)
     \/ /\ job.kind = "import" /\ job.from # job.path
        /\ PutBack(job.path, job.from)
     \/ /\ job.kind \in {"merge", "delete"} /\ job.from # NoPath
        /\ PutBack(job.from, job.path)
     \/ /\ job.kind = "resize" /\ UNCHANGED <<files, mishaps>>
        /\ hurt' = (hurt \/ job.back = NoLab)
     \/ /\ \/ job.kind = "edit"
           \/ job.kind = "import" /\ job.from = job.path
           \/ job.kind \in {"merge", "delete"} /\ job.from = NoPath
        /\ UNCHANGED files /\ Fine

After == step = "saving" /\ Finish /\ UNCHANGED spoilt /\ (Saved \/ NotSaved)

\* The program is killed, wherever it is; nothing is repaired when it starts
\* again.  The bound takes a kill for the last mishap.
Killed ==
  /\ Crash /\ mishaps < MaxMishaps /\ mishaps' = MaxMishaps
  /\ hurt' = (hurt \/ step # "none")
  /\ step' = "none" /\ job' = NoJob
  /\ UNCHANGED <<files, running, seen, taken, spoilt, jobs>>

Restarted == Open /\ UNCHANGED diskVars

\* What follows a request.
Works == ReadStates \/ CheckOffline \/ QemuWorks \/ QemuFails \/ Unlink \/ MoveAside \/ Change \/ ChangeBack \/ Saving \/ After

Operation == Requests \/ Works

-----------------------------------------------------------------------------
(* The daemon, which runs workloads from the lab file it read last *)

DaemonOnly == UNCHANGED <<sessionVars, job, step, hurt, taken, jobs, mishaps>>

LoadsLab == Readable(file) /\ seen' = Normal(file) /\ UNCHANGED <<files, spoilt, running>> /\ DaemonOnly
PassEnds == seen # NoLab /\ seen' = NoLab /\ UNCHANGED <<files, spoilt, running>> /\ DaemonOnly

\* A VM whose disk file is missing is defined without it; a container needs its.
DiskFor(w) == IF w.kind = "vm" /\ w.disk \notin DOMAIN files THEN NoPath ELSE w.disk

Starts ==
  /\ seen # NoLab
  /\ \E w \in seen.work :
       /\ w.desired = "running" /\ At(w) \notin DOMAIN running
       /\ DiskFor(w) = NoPath \/ DiskFor(w) \in DOMAIN files
       /\ running' = [at \in DOMAIN running \union {At(w)} |->
                        IF at = At(w) THEN DiskFor(w) ELSE running[at]]
  /\ UNCHANGED <<files, spoilt, seen>> /\ DaemonOnly

Stops ==
  /\ seen # NoLab
  /\ \E at \in DOMAIN running :
       /\ \A w \in seen.work : At(w) = at => w.desired # "running" \/ DiskFor(w) # running[at]
       /\ running' = [a \in DOMAIN running \ {at} |-> running[a]]
  /\ UNCHANGED <<files, spoilt, seen>> /\ DaemonOnly

\* What a workload writes is on the disk it opened and nowhere else; the layers
\* on that disk are left on one that has changed.
Writes ==
  /\ \E at \in DOMAIN running :
       /\ running[at] \in DOMAIN files
       /\ files' = [files EXCEPT ![running[at]].holds = @ \union {at.id}]
       /\ \E gone \in SUBSET DataOn(Above(running[at])) : spoilt' = (spoilt \union gone) \ {at.id}
  /\ UNCHANGED <<running, seen>> /\ DaemonOnly

Daemon == LoadsLab \/ PassEnds \/ Starts \/ Stops \/ Writes

Next == Operation \/ Killed \/ Restarted \/ Daemon

Spec == Init /\ [][Next]_vars

-----------------------------------------------------------------------------
(* Properties *)

\* Types, and that a snapshot and an operation are held only while they are needed.
TypeOK ==
  /\ step \in {"none", "ask", "check", "qemu", "unlink", "aside", "change", "again", "saving"}
  /\ (step = "none") = (job = NoJob)
  /\ phase \in {"save", "write", "rename", "reload", "done"} => step = "saving"
  /\ step = "saving" => phase \notin {"idle", "down"}
  /\ temp # NoLab => phase \in {"write", "rename"}
  /\ \A p \in DOMAIN files : files[p].size \in Nat
  /\ hurt \in BOOLEAN /\ jobs \in 0..MaxJobs /\ mishaps \in 0..MaxMishaps

\* Between operations every disk of the lab has its file, of at least the size
\* that the lab records, and every layer is on the file of its base: an
\* operation that fails on the way leaves them so, unless the undo failed too.
\* Left out are the disks, and the layers on them, whose own file somebody
\* asked to import, which takes it from them.
Backed ==
  step = "none" /\ phase = "idle" /\ ~hurt =>
    \A d \in cur.disks :
      d.path \notin taken /\ (d.base # None => DiskWith(d.base).path \notin taken) =>
        /\ d.path \in DOMAIN files
        /\ d.size <= files[d.path].size
        /\ d.base # None => files[d.path].back = DiskWith(d.base).path

\* What a step may damage: a shrink that was forced, what is on the disk; a
\* merge, or a workload that writes, what is on other layers over the disk
\* that it changes.
AtRisk ==
  CASE step = "qemu" /\ job.kind = "resize" -> InReach
    [] step = "qemu" /\ job.kind = "merge" /\ Layered(job.path) -> OnSiblings
    [] OTHER -> {}
UnderWrites ==
  IF UNCHANGED <<step, job>>
    THEN UNION {DataOn(Above(p)) : p \in {running[at] : at \in DOMAIN running} \intersect DOMAIN files}
    ELSE {}

\* The file that a deletion gives up is no disk's in the lab file, or is one
\* that two disks were made to share by an import.
GivesUp == job.kind = "delete" /\ (job.path \in taken \/ \A d \in file.disks : d.path # job.path)

\* What was on the disks when an operation was asked for is not lost by it,
\* except the file of a disk that is deleted, and that only after the lab file
\* stopped naming it, and what the code does not protect: what a forced shrink
\* cuts off, and what is on the layers over a disk that a merge or a workload
\* changes.  A merge moves a layer's data before it gives up the layer.
KeepsData ==
  [][(OnHost \ OnHost') \intersect job.had # {} =>
       GivesUp \/ (OnHost \ OnHost') \intersect job.had \subseteq AtRisk \union UnderWrites]_vars

\* qemu-img does not merge or resize a disk while the workload runs that the
\* lab attaches it to, whatever the daemon does meanwhile; only a pass that was
\* under way when the operation was asked for, or a lab file apart from the
\* session's lab, can still start it.  It says nothing of a workload that had
\* the disk open when it was detached, nor of those that run on other layers of
\* the base of a merge: requireDiskOffline does not look at them.
WorksOffline ==
  [][step = "qemu" /\ job.kind \in {"merge", "resize"} /\ files' # files /\ ~job.told =>
       job.at \notin DOMAIN running]_vars
=============================================================================
