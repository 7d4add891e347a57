---------------------------- MODULE DiskOpsProofs ----------------------------
(***************************************************************************)
(* Proofs about DiskOps, for any disks, requests and failures: its          *)
(* operations are transactions of LabSession, so that what holds of the     *)
(* session holds of them; qemu-img changes no disk while the workload runs  *)
(* that the lab attaches it to; between operations the lab's disks have     *)
(* their files, and no data is lost but what a user gives up and what the   *)
(* code does not protect, until an import takes a listed disk's file; and   *)
(* every variable keeps its type.  What the UI asks for is among the        *)
(* requests, so that this holds of the program as the UI drives it.         *)
(***************************************************************************)
EXTENDS DiskCommands, TLAPS

\* A request starts an operation and leaves the session alone.
LEMMA RequestsAsk == Requests => \E j, s : Request(j, s)
BY DEF Requests, CreateDisk, CreateLayer, DiskImport, AttachDisk, DetachDisk, DeleteActive, Asks, DiskMerge,
       ResizeDisk, DiskRename, DiskDelete, SetDesired

LEMMA RequestsWait == Requests => UNCHANGED sessionVars /\ phase = "idle" /\ step = "none"
BY RequestsAsk DEF Requests, Request

\* Every operation, kill and pass of the daemon is a step of the session or
\* none: what each disk handler does to the lab is one of beginLabMutation,
\* Commit, Rollback and SaveAndRefresh (transaction.go, disks.go).
THEOREM DiskSession == Spec => SessionSpec
<1>1. Init => SessionInit
  BY DEF Init
<1>2. [Next]_vars => [SessionNext]_sessionVars
  <2> SUFFICES ASSUME [Next]_vars PROVE [SessionNext]_sessionVars
    OBVIOUS
  <2>1. CASE Requests
    BY <2>1, RequestsWait
  <2>2. CASE ReadStates \/ CheckOffline \/ QemuWorks \/ QemuFails \/ Unlink \/ MoveAside
    BY <2>2 DEF ReadStates, CheckOffline, QemuWorks, QemuFails, Unlink, MoveAside
  <2>3. CASE Change \/ ChangeBack
    BY <2>3 DEF Change, ChangeBack, SessionNext
  <2>4. CASE Saving \/ After
    BY <2>4 DEF Saving, After, SessionNext, Save
  <2>5. CASE Killed \/ Restarted
    BY <2>5 DEF Killed, Restarted, SessionNext
  <2>6. CASE Daemon
    BY <2>6 DEF Daemon, LoadsLab, PassEnds, Starts, Stops, Writes, DaemonOnly
  <2>7. CASE UNCHANGED vars
    BY <2>7 DEF vars
  <2> QED  BY <2>1, <2>2, <2>3, <2>4, <2>5, <2>6, <2>7 DEF Next, Operation, Works
<1> QED  BY <1>1, <1>2, PTL DEF Spec, SessionSpec

-----------------------------------------------------------------------------
(* qemu-img works offline.  Of a lab the proof needs what its records hold,  *)
(* and that Normalize tells no workload to run but a DHCP container that the *)
(* file says nothing of: of a lab where none is like that, which every lab   *)
(* is that it made, it leaves the workloads as they are (normalize.go).      *)

IsWork(w) ==
  /\ w = [kind |-> w.kind, id |-> w.id, disk |-> w.disk, desired |-> w.desired, dhcp |-> w.dhcp]
  /\ At(w) # Nowhere
  /\ w.dhcp => w.desired # None
IsLab(l) == l = [disks |-> l.disks, work |-> l.work] /\ \A w \in l.work : IsWork(w)

LabsAreLabs ==
  /\ \A l \in HandLabs : IsLab(Normal(l))
  /\ \A l : IsLab(l) => l # NoLab /\ IsLab(Normal(l)) /\ Normal(l).work = l.work

\* A lab with the same workloads, which are told the same.
Tells(l, at) == \E w \in l.work : At(w) = at /\ w.desired = "running"
Likewise(l, m) == IsLab(l) /\ \A at : Tells(l, at) <=> Tells(m, at)

LEMMA DisksOnly ==
  ASSUME NEW l, IsLab(l), NEW disks
  PROVE  Likewise([l EXCEPT !.disks = disks], l)
<1> DEFINE m == [l EXCEPT !.disks = disks]
<1>1. m = [disks |-> disks, work |-> l.work]
  BY DEF IsLab
<1> QED  BY <1>1 DEF IsLab, Likewise, Tells

LEMMA PathsOnly ==
  ASSUME NEW l, IsLab(l), NEW at, NEW path
  PROVE  Likewise(SetWorkloadDisk(l, at, path), l)
<1> DEFINE set(w) == IF At(w) = at THEN [w EXCEPT !.disk = path] ELSE w
           m == SetWorkloadDisk(l, at, path)
<1>1. m = [disks |-> l.disks, work |-> {set(w) : w \in l.work}]
  BY DEF IsLab, SetWorkloadDisk
<1>2. ASSUME NEW w \in l.work PROVE IsWork(set(w)) /\ At(set(w)) = At(w) /\ set(w).desired = w.desired
  <2>1. /\ w = [kind |-> w.kind, id |-> w.id, disk |-> w.disk, desired |-> w.desired, dhcp |-> w.dhcp]
        /\ At(w) # Nowhere /\ (w.dhcp => w.desired # None)
    BY DEF IsLab, IsWork
  <2> QED  BY <2>1 DEF IsWork, At
<1> HIDE DEF set, m
<1>3. m.work = {set(w) : w \in l.work} /\ m = [disks |-> m.disks, work |-> m.work]
  BY <1>1
<1>4. IsLab(m)
  BY <1>2, <1>3 DEF IsLab
<1>5. \A b : Tells(m, b) <=> Tells(l, b)
  BY <1>2, <1>3 DEF Tells
<1> QED  BY <1>4, <1>5 DEF Likewise, m

\* The labs that requests ask for are labs; of merge and resize, likewise.
LEMMA DetachedLab ==
  ASSUME NEW l, IsLab(l), NEW at
  PROVE  Likewise(DetachActive(l, at), l)
<1> DEFINE m == [l EXCEPT !.disks = {IF d.at = at THEN [d EXCEPT !.at = Nowhere] ELSE d : d \in @}]
<1>1. Likewise(m, l)
  BY DisksOnly
<1>2. Likewise(SetWorkloadDisk(m, at, NoPath), m)
  BY <1>1, PathsOnly DEF Likewise
<1> QED  BY <1>1, <1>2 DEF DetachActive, Likewise

LEMMA AskedLabs ==
  ASSUME IsLab(cur)
  PROVE  /\ \A d : IsLab(Registers(d)) /\ Likewise(Unregisters(d), cur)
         /\ \A at : IsLab(DetachActive(cur, at))
         /\ \A d, at : IsLab(Activates(d, at))
         /\ \A disks : Likewise([cur EXCEPT !.disks = disks], cur)
<1>1. ASSUME NEW disks, NEW l, IsLab(l) PROVE Likewise([l EXCEPT !.disks = disks], l)
  BY <1>1, DisksOnly
<1>2. ASSUME NEW l, IsLab(l), NEW at, NEW path PROVE Likewise(SetWorkloadDisk(l, at, path), l)
  BY <1>2, PathsOnly
<1>3. ASSUME NEW at PROVE Likewise(DetachActive(cur, at), cur)
  BY DetachedLab
<1>4. ASSUME NEW d PROVE IsLab(Registers(d))
  <2> DEFINE l == IF d.at = Nowhere THEN cur ELSE SetWorkloadDisk(DetachActive(cur, d.at), d.at, d.path)
  <2>1. IsLab(l)
    BY <1>2, <1>3 DEF Likewise
  <2> HIDE DEF l
  <2>2. IsLab([l EXCEPT !.disks = @ \union {d}])
    BY <1>1, <2>1 DEF Likewise
  <2> QED  BY <2>2 DEF Registers, l
<1>5. ASSUME NEW d PROVE Likewise(Unregisters(d), cur)
  <2> DEFINE l == IF d.at = Nowhere THEN cur ELSE SetWorkloadDisk(cur, d.at, NoPath)
  <2>1. Likewise(l, cur)
    BY <1>2 DEF Likewise
  <2> HIDE DEF l
  <2>2. Likewise([l EXCEPT !.disks = @ \ {d}], l)
    BY <1>1, <2>1 DEF Likewise
  <2>3. Likewise([l EXCEPT !.disks = @ \ {d}], cur)
    BY <2>1, <2>2 DEF Likewise
  <2> QED  BY <2>3 DEF Unregisters, l
<1>6. ASSUME NEW d, NEW at PROVE IsLab(Activates(d, at))
  <2> DEFINE l == DetachActive(cur, at)
             m == [l EXCEPT !.disks = {IF e.id = d.id THEN [e EXCEPT !.at = at] ELSE e : e \in @}]
  <2>1. IsLab(m)
    BY <1>1, <1>3 DEF Likewise
  <2>2. IsLab(SetWorkloadDisk(m, at, d.path))
    BY <1>2, <2>1 DEF Likewise
  <2> QED  BY <2>2 DEF Activates
<1> QED  BY <1>1, <1>3, <1>4, <1>5, <1>6 DEF Likewise

LEMMA ToldLab ==
  ASSUME IsLab(cur), NEW at, NEW state \in {"running", "stopped"}
  PROVE  IsLab([cur EXCEPT !.work = {IF At(w) = at THEN [w EXCEPT !.desired = state] ELSE w : w \in @}])
<1> DEFINE set(w) == IF At(w) = at THEN [w EXCEPT !.desired = state] ELSE w
           m == [cur EXCEPT !.work = {set(w) : w \in @}]
<1>1. m = [disks |-> cur.disks, work |-> {set(w) : w \in cur.work}]
  BY DEF IsLab
<1>2. ASSUME NEW w \in cur.work PROVE IsWork(set(w))
  <2>1. /\ w = [kind |-> w.kind, id |-> w.id, disk |-> w.disk, desired |-> w.desired, dhcp |-> w.dhcp]
        /\ At(w) # Nowhere /\ (w.dhcp => w.desired # None)
    BY DEF IsLab, IsWork
  <2>2. state # None
    BY LabRulesAssumption
  <2> QED  BY <2>1, <2>2 DEF IsWork, At
<1> HIDE DEF set
<1>3. IsLab(m)
  BY <1>1, <1>2 DEF IsLab
<1> QED  BY <1>3 DEF set

-----------------------------------------------------------------------------
(* What is kept of the labs that are held, and when they are held. *)

JobFields ==
  {"kind", "id", "at", "path", "from", "size", "shrinks", "back", "to", "had", "told", "stopped", "then"}
IsJob(j) == j = [f \in JobFields |-> j[f]]

HeldLabs ==
  /\ IsLab(Normal(file))
  /\ phase # "down" => IsLab(cur)
  /\ snap # NoLab => IsLab(snap)
  /\ phase = "rename" => IsLab(temp)
  /\ seen # NoLab => IsLab(seen)
  /\ \A at \in DOMAIN running : at # Nowhere

HeldJob ==
  /\ IsJob(job)
  /\ step # "none" => IsLab(job.to)
  /\ job.back # NoLab => IsLab(job.back)

\* Where a transaction, or a save outside one, is under way.
Busy == {"save", "write", "rename", "reload"}

\* The session works only while an operation has it save.
Paced ==
  /\ step \notin {"none", "saving"} => phase = "idle"
  /\ step = "saving" => phase \notin {"idle", "down"}
  /\ step = "none" => phase \in {"idle", "down"}
  /\ phase \in {"idle", "down"} => snap = NoLab

\* A workload that is at rest: it does not run, and no lab that the daemon may
\* read, or that the session may come to, says that it should.
Rests(at) ==
  /\ at \notin DOMAIN running
  /\ \A l \in {Normal(file), cur, snap, seen, job.to, job.back} : ~ToRun(l, at)
  /\ phase = "rename" => ~ToRun(temp, at)

\* An operation that works offline: what its request asks for tells no workload
\* to run, and from the check on its own rests.
Repacks == job.kind \in {"merge", "resize"}
TellsNoMore ==
  Repacks =>
    /\ step # "unlink"
    /\ step \in {"ask", "check"} => \A at : (ToRun(job.to, at) \/ ToRun(job.back, at)) => ToRun(cur, at)
Guarded ==
  Repacks /\ ~job.told =>
    /\ step = "check" /\ Offline => Rests(job.at)
    /\ step \in {"qemu", "aside", "change", "saving", "again"} => Rests(job.at)

OfflineInv == HeldLabs /\ HeldJob /\ Paced /\ TellsNoMore /\ Guarded

\* No workload is nowhere, and no lab is NoLab.
LEMMA NobodyNowhere ==
  ASSUME NEW l, IsLab(l) \/ l = NoLab
  PROVE  ~ToRun(l, Nowhere)
BY DEF IsLab, IsWork, ToRun

LEMMA LikewiseToRun ==
  ASSUME LabsAreLabs, NEW l, NEW m, Likewise(l, m), IsLab(m), NEW at
  PROVE  ToRun(l, at) <=> ToRun(m, at)
BY DEF LabsAreLabs, Likewise, ToRun, Tells

LEMMA NormalToRun ==
  ASSUME LabsAreLabs, NEW l, IsLab(l), NEW at
  PROVE  IsLab(Normal(l)) /\ (ToRun(Normal(l), at) <=> ToRun(l, at))
BY DEF LabsAreLabs, ToRun

\* What a request hands to Request.
Proper(j, s) ==
  /\ IsJob(j) /\ IsLab(j.to) /\ j.back \in {NoLab, cur}
  /\ s \in {"ask", "check", "qemu", "change", "aside", "unlink"}
  /\ j.kind \in {"merge", "resize"} =>
       Likewise(j.to, cur) /\ s \in {"ask", "check"} /\ (s = "check" => j.at = Nowhere)

LEMMA JobShape ==
  ASSUME NEW kind, NEW id, NEW path, NEW to
  PROVE  /\ IsJob(Job(kind, id, path, to)) /\ Job(kind, id, path, to).kind = kind
         /\ Job(kind, id, path, to).to = to /\ Job(kind, id, path, to).back = NoLab
<1>1. IsJob(NoJob) /\ NoJob.back = NoLab
  BY DEF NoJob, IsJob, JobFields
<1>2. ASSUME NEW n, IsJob(n), n.back = NoLab, NEW had
      PROVE  LET j == [n EXCEPT !.kind = kind, !.id = id, !.path = path, !.to = to, !.had = had]
             IN  IsJob(j) /\ j.kind = kind /\ j.to = to /\ j.back = NoLab
  BY <1>2 DEF IsJob, JobFields
<1> QED  BY <1>1, <1>2 DEF Job

\* A job in which only the workload, a size, a path or what follows is another.
Kin(k, j) == IsJob(k) /\ k.kind = j.kind /\ k.to = j.to /\ k.back = j.back

LEMMA KinJobs ==
  ASSUME NEW j, IsJob(j), NEW x
  PROVE  /\ Kin([j EXCEPT !.at = x], j) /\ [j EXCEPT !.at = x].at = x
         /\ Kin([j EXCEPT !.size = x], j) /\ Kin([j EXCEPT !.from = x], j)
         /\ Kin([j EXCEPT !.then = x], j) /\ Kin([j EXCEPT !.had = x], j)
<1>1. Kin([j EXCEPT !.at = x], j) /\ [j EXCEPT !.at = x].at = x
  BY DEF Kin, IsJob, JobFields
<1>2. Kin([j EXCEPT !.size = x], j) /\ Kin([j EXCEPT !.from = x], j)
  BY DEF Kin, IsJob, JobFields
<1>3. Kin([j EXCEPT !.then = x], j) /\ Kin([j EXCEPT !.had = x], j)
  BY DEF Kin, IsJob, JobFields
<1> QED  BY <1>1, <1>2, <1>3

\* Requests that ask for no merge and no resize need only a lab that is one.
LEMMA OtherProper ==
  ASSUME NEW kind \in {"create", "layer", "import", "edit", "delete"}, NEW id, NEW path, NEW to, NEW k, NEW s,
         IsLab(to), Kin(k, Job(kind, id, path, to)), Request(k, s), s \in {"qemu", "change", "aside", "unlink"}
  PROVE  \E j, t : Request(j, t) /\ Proper(j, t)
<1>1. Proper(k, s)
  BY JobShape DEF Kin, Proper
<1> QED  BY <1>1

LEMMA AsksProper ==
  ASSUME NEW d, NEW j, Asks(d, j), IsJob(j), Likewise(j.to, cur), j.back \in {NoLab, cur}
  PROVE  \E k, s : Request(k, s) /\ Proper(k, s)
<1> DEFINE k == [j EXCEPT !.at = d.at]
           s == IF d.at = Nowhere THEN "check" ELSE "ask"
<1>1. Request(k, s)
  BY DEF Asks
<1>2. Kin(k, j) /\ k.at = d.at
  BY KinJobs
<1>3. Proper(k, s)
  BY <1>2 DEF Proper, Kin, Likewise
<1> QED  BY <1>1, <1>3

LEMMA RequestsProper ==
  ASSUME Requests, IsLab(cur)
  PROVE  \E j, s : Request(j, s) /\ Proper(j, s)
<1> DEFINE Goal == \E j, s : Request(j, s) /\ Proper(j, s)
<1>0. \A kind, id, path, to : Kin(Job(kind, id, path, to), Job(kind, id, path, to)) /\ IsJob(Job(kind, id, path, to))
  BY JobShape DEF Kin
<1>1. ASSUME NEW id, NEW at, NEW size, CreateDisk(id, at, size) PROVE Goal
  <2> DEFINE to == Registers(NewDisk(id, Storage(id), "base", None, at, size))
             j == Job("create", id, Storage(id), to)
  <2>1. Request([j EXCEPT !.size = size], "qemu") /\ IsLab(to)
    BY <1>1, AskedLabs DEF CreateDisk
  <2>2. Kin([j EXCEPT !.size = size], j)
    BY <1>0, KinJobs
  <2> QED  BY <2>1, <2>2, OtherProper
<1>2. ASSUME NEW base, NEW id, NEW at, CreateLayer(base, id, at) PROVE Goal
  <2> DEFINE to == Registers(NewDisk(id, LayerPath(id), "layer", base, at, 0))
             j == Job("layer", id, LayerPath(id), to)
             k == [j EXCEPT !.from = DiskWith(base).path]
  <2>1. Request(k, "qemu") /\ IsLab(to)
    BY <1>2, AskedLabs DEF CreateLayer
  <2>2. Kin(k, j)
    BY <1>0, KinJobs
  <2> QED  BY <2>1, <2>2, OtherProper
<1>3. ASSUME NEW id, NEW source, DiskImport(source, id) PROVE Goal
  <2> DEFINE to == Registers(NewDisk(id, Storage(id), "base", None, Nowhere, files[source].size))
             j == Job("import", id, Storage(id), to)
             s == IF Storage(id) = source THEN "change" ELSE "unlink"
  <2>1. Request([j EXCEPT !.from = source], s) /\ IsLab(to)
    BY <1>3, AskedLabs DEF DiskImport
  <2>2. Kin([j EXCEPT !.from = source], j)
    BY <1>0, KinJobs
  <2> QED  BY <2>1, <2>2, OtherProper
<1>4. ASSUME NEW id, NEW at, AttachDisk(id, at) PROVE Goal
  <2> DEFINE j == Job("edit", id, DiskWith(id).path, Activates(DiskWith(id), at))
  <2>1. Request(j, "change") /\ IsLab(Activates(DiskWith(id), at)) /\ Kin(j, j)
    BY <1>0, <1>4, AskedLabs DEF AttachDisk
  <2> QED  BY <2>1, OtherProper
<1>5. ASSUME NEW at, DetachDisk(at) PROVE Goal
  <2> DEFINE j == Job("edit", None, NoPath, DetachActive(cur, at))
  <2>1. Request(j, "change") /\ IsLab(DetachActive(cur, at)) /\ Kin(j, j)
    BY <1>0, <1>5, AskedLabs DEF DetachDisk
  <2> QED  BY <2>1, OtherProper
<1>6. ASSUME NEW at, DeleteActive(at) PROVE Goal
  <2>1. PICK d \in Attached(at) : Request([Job("edit", d.id, NoPath, DetachActive(cur, at)) EXCEPT !.then = d.id], "change")
    BY <1>6 DEF DeleteActive
  <2> DEFINE j == Job("edit", d.id, NoPath, DetachActive(cur, at))
  <2>2. Kin([j EXCEPT !.then = d.id], j) /\ IsLab(DetachActive(cur, at))
    BY <1>0, KinJobs, AskedLabs
  <2> QED  BY <2>1, <2>2, OtherProper
<1>7. ASSUME NEW id, DiskMerge(id) PROVE Goal
  <2> DEFINE to == Unregisters(DiskWith(id))
             j == Job("merge", id, DiskWith(id).path, to)
  <2>1. Asks(DiskWith(id), j) /\ Likewise(to, cur)
    BY <1>7, AskedLabs DEF DiskMerge
  <2>2. IsJob(j) /\ j.to = to /\ j.back = NoLab
    BY JobShape
  <2> HIDE DEF to, j
  <2> QED  BY <2>1, <2>2, AsksProper
<1>8. ASSUME NEW id, NEW size, NEW force, ResizeDisk(id, size, force) PROVE Goal
  <2> DEFINE d == DiskWith(id)
             to == [cur EXCEPT !.disks = (@ \ {d}) \union {[d EXCEPT !.size = size]}]
             shrinks == d.size > 0 /\ size < d.size
             i == Job("resize", id, d.path, to)
             j == [i EXCEPT !.size = size, !.shrinks = shrinks, !.back = cur]
  <2>1. Likewise(to, cur)
    BY AskedLabs
  <2>2. Asks(d, j)
    BY <1>8 DEF ResizeDisk
  <2>3. IsJob(i) /\ i.to = to
    BY JobShape
  <2> HIDE DEF d, to, shrinks, i
  <2>4. IsJob(j) /\ j.to = to /\ j.back = cur
    BY <2>3 DEF IsJob, JobFields
  <2> HIDE DEF j
  <2> QED  BY <2>1, <2>2, <2>4, AsksProper
<1>9. ASSUME NEW id, NEW new, DiskRename(id, new) PROVE Goal
  <2> DEFINE disks == {[d EXCEPT !.id = IF @ = id THEN new ELSE @, !.base = IF @ = id THEN new ELSE @] : d \in cur.disks}
             j == Job("edit", id, NoPath, [cur EXCEPT !.disks = disks])
  <2>1. Request(j, "change") /\ IsLab([cur EXCEPT !.disks = disks]) /\ Kin(j, j)
    BY <1>0, <1>9, AskedLabs DEF DiskRename, Likewise
  <2> QED  BY <2>1, OtherProper
<1>10. ASSUME NEW id, DiskDelete(id) PROVE Goal
  <2> DEFINE j == Job("delete", DiskWith(id).id, DiskWith(id).path, Unregisters(DiskWith(id)))
  <2>1. Request(j, "aside") /\ IsLab(Unregisters(DiskWith(id))) /\ Kin(j, j)
    BY <1>0, <1>10, AskedLabs DEF DiskDelete, Deletion, Likewise
  <2> QED  BY <2>1, OtherProper
<1>11. ASSUME NEW at, NEW state \in {"running", "stopped"}, SetDesired(at, state) PROVE Goal
  <2> DEFINE to == [cur EXCEPT !.work = {IF At(w) = at THEN [w EXCEPT !.desired = state] ELSE w : w \in @}]
             j == Job("edit", None, NoPath, to)
  <2>1. Request(j, "change") /\ IsLab(to) /\ Kin(j, j)
    BY <1>0, <1>11, ToldLab DEF SetDesired
  <2> QED  BY <2>1, OtherProper
<1> HIDE DEF Goal
<1>12. Goal
  BY <1>1, <1>2, <1>3, <1>4, <1>5, <1>6, <1>7, <1>8, <1>9, <1>10, <1>11 DEF Requests
<1> QED  BY <1>12 DEF Goal

-----------------------------------------------------------------------------
(* Every step keeps the invariant. *)

LEMMA RequestsKeep == ASSUME LabsAreLabs, OfflineInv, Requests PROVE OfflineInv'
<1>1. UNCHANGED sessionVars /\ phase = "idle" /\ step = "none" /\ IsLab(cur) /\ snap = NoLab
  BY RequestsWait DEF OfflineInv, HeldLabs, Paced
<1>2. PICK j, s : Request(j, s) /\ Proper(j, s)
  BY <1>1, RequestsProper
<1>3. UNCHANGED <<sessionVars, running, seen>> /\ job' = j /\ step' = s
  BY <1>2 DEF Request
<1>4. HeldLabs'
  BY <1>3 DEF OfflineInv, HeldLabs, sessionVars
<1>5. HeldJob'
  BY <1>1, <1>2, <1>3 DEF HeldJob, Proper
<1>6. Paced'
  BY <1>1, <1>2, <1>3 DEF OfflineInv, Paced, Proper, sessionVars
<1>7. TellsNoMore' /\ Guarded'
  <2> SUFFICES ASSUME j.kind \in {"merge", "resize"} PROVE TellsNoMore' /\ Guarded'
    BY <1>3 DEF TellsNoMore, Guarded, Repacks
  <2>1. Likewise(j.to, cur) /\ s \in {"ask", "check"} /\ (s = "check" => j.at = Nowhere)
    BY <1>2 DEF Proper
  <2>2. \A at : (ToRun(j.to, at) \/ ToRun(j.back, at)) => ToRun(cur, at)
    BY <1>1, <1>2, <2>1, LikewiseToRun DEF Proper, ToRun
  <2>3. \A l \in {Normal(file), cur, snap, seen, j.to, j.back} : IsLab(l) \/ l = NoLab
    BY <1>1, <1>2 DEF OfflineInv, HeldLabs, Proper
  <2>4. \A l \in {Normal(file), cur, snap, seen, j.to, j.back} : ~ToRun(l, Nowhere)
    BY <2>3, NobodyNowhere
  <2>5. \A l \in {Normal(file'), cur', snap', seen', job'.to, job'.back} : ~ToRun(l, Nowhere)
    BY <1>3, <2>4 DEF sessionVars
  <2>6. (s = "check" => Rests(j.at))'
    BY <1>1, <1>3, <1>4, <2>1, <2>5 DEF Rests, HeldLabs, sessionVars
  <2> QED  BY <1>3, <2>1, <2>2, <2>6 DEF TellsNoMore, Guarded, Repacks, sessionVars
<1> QED  BY <1>4, <1>5, <1>6, <1>7 DEF OfflineInv

LEMMA ChecksKeep == ASSUME OfflineInv, ReadStates \/ CheckOffline PROVE OfflineInv'
<1>1. CASE ReadStates
  <2>1. step = "ask" /\ UNCHANGED <<sessionVars, files, running, seen, hurt, jobs>>
    BY <1>1 DEF ReadStates
  <2>2. HeldLabs'
    BY <2>1 DEF OfflineInv, HeldLabs, sessionVars
  <2>3. CASE job' = NoJob /\ step' = "none"
    <3>1. IsJob(NoJob) /\ NoJob.back = NoLab
      BY DEF NoJob, IsJob, JobFields
    <3> QED  BY <2>1, <2>2, <2>3, <3>1 DEF OfflineInv, HeldJob, Paced, TellsNoMore, Guarded, sessionVars
  <2>4. CASE /\ job' = [job EXCEPT !.stopped = job.at \notin DOMAIN running, !.told = Told(job.at)]
             /\ step' = "check"
    <3>1. /\ IsJob(job') /\ job'.kind = job.kind /\ job'.at = job.at /\ job'.to = job.to /\ job'.back = job.back
          /\ job'.stopped = (job.at \notin DOMAIN running) /\ job'.told = Told(job.at)
      BY <2>4 DEF OfflineInv, HeldJob, IsJob, JobFields
    <3>2. HeldJob' /\ Paced'
      BY <2>1, <2>4, <3>1 DEF OfflineInv, HeldJob, Paced, sessionVars
    <3>3. ASSUME Repacks', ~job'.told, Offline' PROVE Rests(job.at)'
      <4>1. \A at : (ToRun(job.to, at) \/ ToRun(job.back, at)) => ToRun(cur, at)
        BY <2>1, <3>1, <3>3 DEF OfflineInv, TellsNoMore, Repacks
      <4>2. ~Told(job.at)
        BY <3>1, <3>3
      <4>3. phase = "idle" /\ snap = NoLab /\ ~ToRun(NoLab, job.at)
        BY <2>1 DEF OfflineInv, Paced, ToRun
      <4>4. CASE job.at = Nowhere
        <5>1. \A l \in {Normal(file), cur, snap, seen, job.to, job.back} : ~ToRun(l, Nowhere)
          BY <2>1, <4>3, NobodyNowhere DEF OfflineInv, HeldLabs, HeldJob
        <5> QED  BY <2>1, <3>1, <4>3, <4>4, <5>1 DEF OfflineInv, HeldLabs, Rests, sessionVars
      <4>5. CASE job.at # Nowhere
        <5>1. ~ToRun(cur, job.at) /\ job.at \notin DOMAIN running
          BY <2>1, <3>1, <3>3, <4>5 DEF Offline, sessionVars
        <5>2. \A l \in {Normal(file), cur, snap, seen, job.to, job.back} : ~ToRun(l, job.at)
          BY <4>1, <4>2, <4>3, <5>1 DEF Told
        <5> QED  BY <2>1, <3>1, <4>3, <5>1, <5>2 DEF Rests, sessionVars
      <4> QED  BY <4>4, <4>5
    <3>4. TellsNoMore'
      BY <2>1, <2>4, <3>1 DEF OfflineInv, TellsNoMore, Repacks, sessionVars
    <3>5. Guarded'
      BY <2>4, <3>3 DEF Guarded
    <3> QED  BY <2>2, <3>2, <3>4, <3>5 DEF OfflineInv
  <2> QED  BY <1>1, <2>3, <2>4 DEF ReadStates
<1>2. CASE CheckOffline
  <2>1. step = "check" /\ UNCHANGED <<sessionVars, running, seen>>
    BY <1>2 DEF CheckOffline, Goes, Over
  <2>2. HeldLabs'
    BY <2>1 DEF OfflineInv, HeldLabs, sessionVars
  <2>3. CASE Over
    <3>1. IsJob(NoJob) /\ NoJob.back = NoLab
      BY DEF NoJob, IsJob, JobFields
    <3> QED  BY <2>1, <2>2, <2>3, <3>1 DEF Over, OfflineInv, HeldJob, Paced, TellsNoMore, Guarded, sessionVars
  <2>4. CASE Offline /\ UNCHANGED job /\ step' \in {"qemu", "change"}
    <3>1. HeldJob' /\ Paced'
      BY <2>1, <2>4 DEF OfflineInv, HeldJob, Paced, sessionVars
    <3>2. TellsNoMore' /\ Guarded'
      BY <2>1, <2>4 DEF OfflineInv, TellsNoMore, Guarded, Repacks, Rests, sessionVars
    <3> QED  BY <2>2, <3>1, <3>2 DEF OfflineInv
  <2> QED  BY <1>2, <2>3, <2>4 DEF CheckOffline, Goes
<1> QED  BY <1>1, <1>2

\* An operation that is over holds nothing.
LEMMA OverKeeps ==
  ASSUME OfflineInv, step' = "none", job' = NoJob, HeldLabs',
         phase' \in {"idle", "down"}, snap' = NoLab
  PROVE  OfflineInv'
<1>1. IsJob(NoJob) /\ NoJob.back = NoLab
  BY DEF NoJob, IsJob, JobFields
<1> QED  BY <1>1 DEF OfflineInv, HeldJob, Paced, TellsNoMore, Guarded

\* Work on the files alone leaves at rest what was.
LEMMA FilesKeep ==
  ASSUME OfflineInv, UNCHANGED <<sessionVars, running, seen>>,
         step \in {"qemu", "aside", "unlink"}, step' \in {"qemu", "aside", "change", "again"},
         Kin(job', job), job'.at = job.at, job'.told = job.told
  PROVE  OfflineInv'
<1>1. HeldLabs' /\ HeldJob' /\ Paced'
  BY DEF OfflineInv, HeldLabs, HeldJob, Paced, Kin, sessionVars
<1>2. TellsNoMore' /\ Guarded'
  BY DEF OfflineInv, TellsNoMore, Guarded, Repacks, Rests, Kin, sessionVars
<1> QED  BY <1>1, <1>2 DEF OfflineInv

LEMMA HostKeeps ==
  ASSUME OfflineInv, QemuWorks \/ QemuFails \/ Unlink \/ MoveAside
  PROVE  OfflineInv'
<1>1. UNCHANGED <<sessionVars, running, seen>> /\ step \in {"qemu", "aside", "unlink"}
  BY DEF QemuWorks, QemuFails, Unlink, MoveAside, Goes, Over
<1>2. HeldLabs' /\ phase' = "idle" /\ snap' = NoLab
  BY <1>1 DEF OfflineInv, HeldLabs, Paced, sessionVars
<1>3. CASE Over
  BY <1>2, <1>3, OverKeeps DEF Over
<1>4. CASE UNCHANGED job /\ step' \in {"qemu", "aside", "change", "again"}
  BY <1>1, <1>4, FilesKeep DEF OfflineInv, HeldJob, Kin
<1>5. ASSUME NEW b, job' = [job EXCEPT !.from = b], step' = "change" PROVE OfflineInv'
  <2>1. Kin(job', job) /\ job'.at = job.at /\ job'.told = job.told
    BY <1>5 DEF OfflineInv, HeldJob, Kin, IsJob, JobFields
  <2> QED  BY <1>1, <1>5, <2>1, FilesKeep
<1>6. Over \/ (UNCHANGED job /\ step' \in {"qemu", "aside", "change", "again"})
        \/ \E b : job' = [job EXCEPT !.from = b] /\ step' = "change"
  BY DEF QemuWorks, QemuFails, Unlink, MoveAside, Goes
<1> QED  BY <1>3, <1>4, <1>5, <1>6

LEMMA ChangesKeep == ASSUME LabsAreLabs, OfflineInv, Change \/ ChangeBack PROVE OfflineInv'
<1>1. CASE Change
  <2>1. /\ step = "change" /\ step' = "saving" /\ cur' = job.to /\ snap' = cur /\ phase = "idle" /\ phase' = "save"
        /\ UNCHANGED <<file, temp, job, running, seen>>
    BY <1>1 DEF Change, Begin, Goes
  <2>2. HeldLabs' /\ HeldJob' /\ Paced'
    BY <2>1 DEF OfflineInv, HeldLabs, HeldJob, Paced
  <2>3. TellsNoMore' /\ Guarded'
    BY <2>1 DEF OfflineInv, TellsNoMore, Guarded, Repacks, Rests
  <2> QED  BY <2>2, <2>3 DEF OfflineInv
<1>2. CASE ChangeBack
  <2>1. /\ step = "again" /\ step' = "saving" /\ cur' = job.back /\ cur' # NoLab /\ snap' = NoLab
        /\ phase = "idle" /\ phase' = "save" /\ UNCHANGED <<file, temp, running, seen>>
        /\ job' = [job EXCEPT !.back = NoLab]
    BY <1>2 DEF ChangeBack, SaveAgain, Sane
  <2>2. /\ IsJob(job') /\ job'.kind = job.kind /\ job'.at = job.at /\ job'.told = job.told
        /\ job'.to = job.to /\ job'.back = NoLab
    BY <2>1 DEF OfflineInv, HeldJob, IsJob, JobFields
  <2>3. HeldLabs' /\ HeldJob' /\ Paced'
    BY <2>1, <2>2 DEF OfflineInv, HeldLabs, HeldJob, Paced
  <2>4. ~ToRun(NoLab, job.at)
    BY DEF ToRun
  <2>5. TellsNoMore' /\ Guarded'
    BY <2>1, <2>2, <2>4 DEF OfflineInv, TellsNoMore, Guarded, Repacks, Rests
  <2> QED  BY <2>3, <2>5 DEF OfflineInv
<1> QED  BY <1>1, <1>2

LEMMA SavesKeep == ASSUME LabsAreLabs, OfflineInv, Saving PROVE OfflineInv'
<1>1. UNCHANGED <<files, job, step, running, seen, jobs>>
  BY DEF Saving
<1>2. CreateTemp \/ WriteTemp \/ Rename \/ Reload \/ SaveFails \/ ReloadFails
  BY DEF Saving
<1>3. /\ phase \notin {"idle", "down"} /\ phase' \notin {"idle", "down"} /\ snap' = snap /\ step = "saving"
  <2>1. phase \in Busy /\ phase' \in Busy \union {"done"} /\ snap' = snap
    BY <1>2 DEF CreateTemp, WriteTemp, Rename, Reload, SaveFails, ReloadFails, Busy
  <2> QED  BY <2>1 DEF OfflineInv, Paced, Busy
\* Every lab that the save puts in a place is one that the session held.
<1>4. /\ file' \in {file, temp} /\ (file' = temp => phase = "rename" \/ file' = file)
      /\ cur' \in {cur, snap, Normal(file)} /\ (cur' = snap => snap # NoLab \/ cur' \in {cur, Normal(file)})
      /\ phase' = "rename" => temp' = Normal(cur)
  BY <1>2 DEF CreateTemp, WriteTemp, Rename, Reload, SaveFails, ReloadFails, AfterFailedSave
<1>5. IsLab(cur) /\ IsLab(Normal(cur)) /\ IsLab(Normal(file)) /\ (phase = "rename" => IsLab(temp) /\ IsLab(Normal(temp)))
  BY <1>3 DEF OfflineInv, HeldLabs, LabsAreLabs
<1>6. HeldLabs'
  BY <1>1, <1>3, <1>4, <1>5 DEF OfflineInv, HeldLabs
<1>7. HeldJob' /\ Paced'
  BY <1>1, <1>3 DEF OfflineInv, HeldJob, Paced
<1>8. TellsNoMore'
  BY <1>1, <1>3 DEF OfflineInv, TellsNoMore, Repacks
<1>9. Guarded'
  <2> SUFFICES ASSUME Repacks, ~job.told PROVE Rests(job.at)'
    BY <1>1, <1>3 DEF Guarded, Repacks
  <2>1. Rests(job.at)
    BY <1>3 DEF OfflineInv, Guarded
  <2>2. ~ToRun(Normal(cur), job.at) /\ ~ToRun(Normal(file), job.at) /\ (phase = "rename" => ~ToRun(Normal(temp), job.at))
    BY <1>5, <2>1, NormalToRun DEF Rests
  <2>3. ~ToRun(Normal(file)', job.at) /\ ~ToRun(cur', job.at) /\ (phase' = "rename" => ~ToRun(temp', job.at))
    BY <1>4, <2>1, <2>2 DEF Rests
  <2> QED  BY <1>1, <1>3, <2>1, <2>3 DEF Rests
<1> QED  BY <1>6, <1>7, <1>8, <1>9 DEF OfflineInv

LEMMA AfterKeeps == ASSUME OfflineInv, After PROVE OfflineInv'
<1>1. /\ step = "saving" /\ phase = "done" /\ phase' = "idle" /\ snap' = NoLab
      /\ UNCHANGED <<file, temp, cur, running, seen>>
  BY DEF After, Finish, Saved, NotSaved, Goes, Over
<1>2. HeldLabs' /\ IsLab(cur)
  BY <1>1 DEF OfflineInv, HeldLabs
<1>3. CASE Over
  BY <1>1, <1>2, <1>3, OverKeeps DEF Over
<1>4. CASE UNCHANGED job /\ step' = "qemu"
  <2>1. HeldJob' /\ Paced' /\ TellsNoMore'
    BY <1>1, <1>4 DEF OfflineInv, HeldJob, Paced, TellsNoMore
  <2>2. ~ToRun(NoLab, job.at)
    BY DEF ToRun
  <2>3. Guarded'
    BY <1>1, <1>4, <2>2 DEF OfflineInv, Guarded, Repacks, Rests
  <2> QED  BY <1>2, <2>1, <2>3 DEF OfflineInv
<1>5. ASSUME NEW d, job' = [Deletion(d) EXCEPT !.had = job.had], step' = "aside" PROVE OfflineInv'
  <2>1. IsJob(Deletion(d)) /\ Deletion(d).kind = "delete" /\ Deletion(d).back = NoLab /\ Deletion(d).to = Unregisters(d)
    BY JobShape DEF Deletion
  <2>2. Kin(job', Deletion(d))
    BY <1>5, <2>1, KinJobs
  <2>3. HeldJob'
    BY <1>2, <2>1, <2>2, AskedLabs DEF HeldJob, Kin, Likewise
  <2>4. Paced' /\ TellsNoMore' /\ Guarded'
    BY <1>1, <1>5, <2>1, <2>2 DEF Paced, TellsNoMore, Guarded, Repacks, Kin
  <2> QED  BY <1>2, <2>3, <2>4 DEF OfflineInv
<1>6. Over \/ (UNCHANGED job /\ step' = "qemu")
        \/ \E d : job' = [Deletion(d) EXCEPT !.had = job.had] /\ step' = "aside"
  BY DEF After, Saved, NotSaved, Goes
<1> QED  BY <1>3, <1>4, <1>5, <1>6

LEMMA RestartsKeep == ASSUME LabsAreLabs, OfflineInv, Killed \/ Restarted PROVE OfflineInv'
<1>1. CASE Killed
  <2>1. /\ step' = "none" /\ job' = NoJob /\ phase' = "down" /\ snap' = NoLab
        /\ UNCHANGED <<file, running, seen>>
    BY <1>1 DEF Killed, Crash
  <2>2. HeldLabs'
    BY <2>1 DEF OfflineInv, HeldLabs
  <2> QED  BY <2>1, <2>2, OverKeeps
<1>2. CASE Restarted
  <2>1. /\ phase = "down" /\ phase' = "idle" /\ cur' = Normal(file)
        /\ UNCHANGED <<file, temp, snap, job, step, running, seen>>
    BY <1>2 DEF Restarted, Open, diskVars
  <2>2. step = "none"
    BY <2>1 DEF OfflineInv, Paced
  <2>3. HeldLabs'
    BY <2>1 DEF OfflineInv, HeldLabs, LabsAreLabs
  <2>4. HeldJob' /\ Paced' /\ TellsNoMore' /\ Guarded'
    BY <2>1, <2>2 DEF OfflineInv, HeldJob, Paced, TellsNoMore, Guarded
  <2> QED  BY <2>3, <2>4 DEF OfflineInv
<1> QED  BY <1>1, <1>2

\* A daemon whose pass works from a lab that lets a workload rest starts it not.
LEMMA DaemonKeeps == ASSUME LabsAreLabs, OfflineInv, Daemon PROVE OfflineInv'
<1>1. UNCHANGED <<sessionVars, job, step>>
  BY DEF Daemon, LoadsLab, PassEnds, Starts, Stops, Writes, DaemonOnly
<1>2. /\ seen' \in {seen, Normal(file), NoLab}
      /\ \A at \in DOMAIN running' :
           at \in DOMAIN running \/ (seen # NoLab /\ \E w \in seen.work : At(w) = at /\ w.desired = "running")
  BY DEF Daemon, LoadsLab, PassEnds, Starts, Stops, Writes
<1>3. \A at \in DOMAIN running' : at \in DOMAIN running \/ ToRun(seen, at)
  BY <1>2 DEF ToRun
<1>4. HeldLabs'
  <2>1. ~ToRun(seen, Nowhere)
    BY NobodyNowhere DEF OfflineInv, HeldLabs
  <2> QED  BY <1>1, <1>2, <1>3, <2>1 DEF OfflineInv, HeldLabs, sessionVars
<1>5. HeldJob' /\ Paced' /\ TellsNoMore'
  BY <1>1 DEF OfflineInv, HeldJob, Paced, TellsNoMore, Repacks, sessionVars
<1>6. ASSUME NEW at, Rests(at) PROVE Rests(at)'
  <2>1. ~ToRun(seen', at)
    BY <1>2, <1>6 DEF Rests, ToRun
  <2> QED  BY <1>1, <1>3, <1>6, <2>1 DEF Rests, sessionVars
<1>7. Guarded'
  <2>1. (Offline' => Offline) /\ (Repacks' => Repacks) /\ job' = job /\ step' = step
    BY <1>1 DEF Offline, Repacks, sessionVars
  <2> QED  BY <1>6, <2>1 DEF OfflineInv, Guarded
<1> QED  BY <1>4, <1>5, <1>7 DEF OfflineInv

LEMMA OfflineInit == LabsAreLabs /\ Init => OfflineInv
<1> SUFFICES ASSUME LabsAreLabs, Init PROVE OfflineInv
  OBVIOUS
<1>1. IsJob(NoJob) /\ NoJob.back = NoLab
  BY DEF NoJob, IsJob, JobFields
<1>2. HeldLabs
  BY DEF Init, SessionInit, HeldLabs, LabsAreLabs
<1> QED  BY <1>1, <1>2 DEF Init, SessionInit, OfflineInv, HeldJob, Paced, TellsNoMore, Guarded

\* qemu-img merges and resizes no disk while the workload runs that the lab
\* attaches it to: requireDiskOffline, of the lab and of the states read, holds
\* from the check to the end of the operation, though the daemon goes on, saves
\* fail and the program is killed, if no pass was to start the workload when
\* the states were read.  Other workloads that have the file, or the base of a
\* merge, open are not in it: the code does not look at them.
THEOREM OfflineWork == LabsAreLabs => (Spec => WorksOffline)
<1> SUFFICES ASSUME LabsAreLabs PROVE Spec => WorksOffline
  OBVIOUS
<1>1. OfflineInv /\ [Next]_vars => OfflineInv'
  <2>1. UNCHANGED vars /\ OfflineInv => OfflineInv'
    BY DEF vars, sessionVars, diskVars, OfflineInv, HeldLabs, HeldJob, Paced, TellsNoMore, Guarded, Repacks, Offline, Rests
  <2> QED
    BY <2>1, RequestsKeep, ChecksKeep, HostKeeps, ChangesKeep, SavesKeep, AfterKeeps, RestartsKeep, DaemonKeeps
       DEF Next, Operation, Works
<1> DEFINE Quiet == step = "qemu" /\ job.kind \in {"merge", "resize"} /\ files' # files /\ ~job.told =>
                      job.at \notin DOMAIN running
<1>2. OfflineInv /\ [Next]_vars => [Quiet]_vars
  BY DEF OfflineInv, Guarded, Repacks, Rests
<1> QED  BY OfflineInit, <1>1, <1>2, PTL DEF Spec, WorksOffline

-----------------------------------------------------------------------------
(* The disks of a lab and the files that they need. *)

IsFile(f) == f = File(f.holds, f.back, f.size) /\ f.size \in Nat
FilesAre == files = [p \in DOMAIN files |-> files[p]] /\ \A p \in DOMAIN files : IsFile(files[p])

IsDisk(d) ==
  /\ d = [id |-> d.id, path |-> d.path, kind |-> d.kind, base |-> d.base, at |-> d.at, size |-> d.size]
  /\ d.id # None /\ d.size \in Nat

\* Disks with an id and a path each, and a base for each layer.
Apart(disks) == \A d, e \in disks : d.id = e.id \/ d.path = e.path => d = e
Based(disks) ==
  \A d \in disks : /\ d.kind = "layer" => d.base # None
                   /\ d.base # None => \E b \in disks : b.id = d.base /\ b.kind = "base"
Good(disks) == (\A d \in disks : IsDisk(d)) /\ Apart(disks) /\ Based(disks)

\* Each disk has its file, of its size at least and behind it that of its base.
Fits(disks, f) ==
  \A d \in disks :
    /\ d.path \in DOMAIN f /\ d.size <= f[d.path].size
    /\ \A b \in disks : d.base # None /\ b.id = d.base => f[d.path].back = b.path

\* What the proof needs of labs: their disks are such at first, and Normalize
\* leaves them alone.
DisksFit ==
  /\ \A l \in HandLabs : Good(l.disks) /\ Fits(l.disks, FirstFiles)
  /\ \A l : IsLab(Normal(l)) => Normal(l).disks = l.disks
  /\ FirstFiles = [p \in DOMAIN FirstFiles |-> FirstFiles[p]] /\ \A p \in DOMAIN FirstFiles : IsFile(FirstFiles[p])
  /\ None \notin DiskIds /\ Sizes \subseteq Nat /\ NoPath \notin Backups

\* Files that are as large and have the same behind them will do.
LEMMA FitsFrame ==
  ASSUME NEW disks, NEW f, NEW g, Fits(disks, f), \A d \in disks : d.size \in Nat,
         \A p \in Paths(disks) : /\ p \in DOMAIN g /\ g[p].back = f[p].back
                                 /\ f[p].size \in Nat /\ g[p].size \in Nat /\ f[p].size <= g[p].size
  PROVE  Fits(disks, g)
BY DEF Fits, Paths

LEMMA FitsFewer ==
  ASSUME NEW disks, NEW f, Fits(disks, f), NEW fewer, fewer \subseteq disks
  PROVE  Fits(fewer, f)
BY DEF Fits

\* Disks of which some have another workload.
Reattached(new, disks, same) ==
  /\ \A d \in disks : \E at : new[d] = [d EXCEPT !.at = at]
  /\ \A e : e \in same <=> \E d \in disks : e = new[d]

LEMMA SameButAt ==
  ASSUME NEW disks, Good(disks), NEW f, Fits(disks, f), NEW new, NEW same, Reattached(new, disks, same)
  PROVE  /\ Good(same) /\ Fits(same, f) /\ Paths(same) = Paths(disks)
         /\ {d.id : d \in same} = {d.id : d \in disks}
         /\ \A d \in disks : \E e \in same : e.id = d.id /\ e.kind = d.kind /\ e.path = d.path
<1>1. ASSUME NEW d \in disks
      PROVE  /\ IsDisk(new[d]) /\ new[d].id = d.id /\ new[d].path = d.path /\ new[d].kind = d.kind
             /\ new[d].base = d.base /\ new[d].size = d.size
  <2>1. PICK at : new[d] = [d EXCEPT !.at = at]
    BY DEF Reattached
  <2>2. IsDisk(d)
    BY DEF Good
  <2> QED  BY <2>1, <2>2 DEF IsDisk
<1>2. Good(same)
  BY <1>1 DEF Good, Apart, Based, Reattached
<1>3. Fits(same, f) /\ Paths(same) = Paths(disks)
  BY <1>1 DEF Fits, Paths, Reattached
<1>4. {d.id : d \in same} = {d.id : d \in disks}
  BY <1>1 DEF Reattached
<1> QED  BY <1>1, <1>2, <1>3, <1>4 DEF Reattached

\* One more disk, at a path of its own.
LEMMA OneMore ==
  ASSUME NEW disks, Good(disks), NEW f, Fits(disks, f), NEW d, IsDisk(d),
         d.id \notin {e.id : e \in disks}, d.path \notin Paths(disks), d.path \in DOMAIN f, d.size <= f[d.path].size,
         d.kind = "layer" => d.base # None,
         d.base # None => \E b \in disks : b.id = d.base /\ b.kind = "base" /\ f[d.path].back = b.path
  PROVE  Good(disks \union {d}) /\ Fits(disks \union {d}, f)
<1>1. Good(disks \union {d})
  BY DEF Good, Apart, Based, Paths
<1>2. ASSUME NEW e \in disks \union {d}
      PROVE  /\ e.path \in DOMAIN f /\ e.size <= f[e.path].size
             /\ \A b \in disks \union {d} : e.base # None /\ b.id = e.base => f[e.path].back = b.path
  <2>1. CASE e \in disks
    BY <2>1 DEF Fits, Good, Based
  <2>2. CASE e = d
    BY <2>2 DEF Good, Apart
  <2> QED  BY <2>1, <2>2
<1> QED  BY <1>1, <1>2 DEF Fits

\* One disk less, which is the base of none.
LEMMA OneLess ==
  ASSUME NEW disks, Good(disks), NEW d \in disks, \A e \in disks : e.base # d.id
  PROVE  Good(disks \ {d}) /\ d.path \notin Paths(disks \ {d})
<1>1. Based(disks \ {d})
  BY DEF Good, Based
<1> QED  BY <1>1 DEF Good, Apart, Paths

\* A name for another, which no disk has: the disk and the layers on it.
Renamed(disks, id, name) ==
  {[d EXCEPT !.id = IF @ = id THEN name ELSE @, !.base = IF @ = id THEN name ELSE @] : d \in disks}

LEMMA OtherName ==
  ASSUME NEW disks, Good(disks), NEW f, Fits(disks, f), NEW id, id # None, NEW name, name # None,
         name \notin {d.id : d \in disks}
  PROVE  Good(Renamed(disks, id, name)) /\ Fits(Renamed(disks, id, name), f)
<1> DEFINE to(i) == IF i = id THEN name ELSE i
           new == [d \in disks |-> [d EXCEPT !.id = IF @ = id THEN name ELSE @,
                                             !.base = IF @ = id THEN name ELSE @]]
           named == {new[d] : d \in disks}
<1>1. ASSUME NEW d \in disks
      PROVE  /\ IsDisk(new[d]) /\ new[d].id = to(d.id) /\ new[d].path = d.path /\ new[d].kind = d.kind
             /\ new[d].base = to(d.base) /\ new[d].size = d.size
  <2>1. new[d] = [d EXCEPT !.id = to(d.id), !.base = to(d.base)]
    <3>1. IsDisk(d)
      BY DEF Good
    <3> QED  BY <3>1 DEF IsDisk
  <2>2. IsDisk(d)
    BY DEF Good
  <2>3. to(d.id) # None
    BY <2>2 DEF IsDisk
  <2> HIDE DEF to, new
  <2> QED  BY <2>1, <2>2, <2>3 DEF IsDisk
<1>2. \A d \in disks : d.id # name /\ d.id # None /\ (d.base # None => d.base # name)
  BY DEF Good, IsDisk, Based
<1> HIDE DEF new
<1>3. Good(named)
  <2>1. Apart(named)
    BY <1>1, <1>2 DEF Good, Apart
  <2>2. Based(named)
    BY <1>1, <1>2 DEF Good, Based
  <2> QED  BY <1>1, <2>1, <2>2 DEF Good
<1>4. Fits(named, f)
  BY <1>1, <1>2 DEF Fits
<1>5. named = Renamed(disks, id, name)
  BY DEF new, Renamed
<1> QED  BY <1>3, <1>4, <1>5

\* The size that is asked for, of a file that gets it.
LEMMA OtherSize ==
  ASSUME NEW disks, Good(disks), NEW f, Fits(disks, f), NEW d \in disks, NEW size \in Nat,
         NEW g, DOMAIN g = DOMAIN f, g[d.path].size = size, g[d.path].back = f[d.path].back,
         \A p \in DOMAIN f \ {d.path} : g[p] = f[p]
  PROVE  LET sized == (disks \ {d}) \union {[d EXCEPT !.size = size]}
         IN  Good(sized) /\ Fits(sized, g)
<1> DEFINE k == [d EXCEPT !.size = size]
           sized == (disks \ {d}) \union {k}
<1>1. IsDisk(k) /\ k.id = d.id /\ k.path = d.path /\ k.kind = d.kind /\ k.base = d.base /\ k.size = size
  BY DEF Good, IsDisk
<1>2. \A e \in disks \ {d} : e.id # d.id /\ e.path # d.path
  BY DEF Good, Apart
<1> HIDE DEF k
<1>3. Good(sized)
  <2>1. Apart(sized)
    BY <1>1, <1>2 DEF Good, Apart
  <2>2. Based(sized)
    BY <1>1 DEF Good, Based
  <2> QED  BY <1>1, <2>1, <2>2 DEF Good
<1>4. ASSUME NEW e \in sized, NEW b \in sized
      PROVE  /\ e.path \in DOMAIN g /\ e.size <= g[e.path].size
             /\ (e.base # None /\ b.id = e.base => g[e.path].back = b.path)
  <2>1. PICK c \in disks : c.id = b.id /\ c.path = b.path
    BY <1>1
  <2>2. CASE e = k
    BY <1>1, <2>1, <2>2 DEF Fits
  <2>3. CASE e \in disks \ {d}
    BY <1>2, <2>1, <2>3 DEF Fits
  <2> QED  BY <2>2, <2>3
<1>5. Fits(sized, g)
  BY <1>4 DEF Fits
<1> QED  BY <1>3, <1>5 DEF k

-----------------------------------------------------------------------------
(* What an operation was asked to do, and how far it is. *)

\* The handlers that put a file aside, and the files as they would be if it
\* came back.
Moves == job.kind \in {"merge", "delete"}
Undone == IF Moves /\ job.from # NoPath THEN Moved(job.from, job.path) ELSE files

\* An operation on disks, up to its save: they fit the files that an undo
\* leaves, and the disks of the lab that is to be saved fit what is there.
Plan(disks) ==
  LET new == job.to.disks
  IN  /\ Good(disks) /\ Good(new) /\ Fits(disks, Undone)
      /\ ~(job.kind \in {"create", "layer"} /\ step = "qemu") => Fits(new, files)
      /\ job.then # None => job.kind = "edit" /\ \E d \in new : d.id = job.then
      /\ \/ /\ job.kind = "create" /\ step \in {"qemu", "change", "saving"}
            /\ job.path \notin Paths(disks) /\ job.size \in Nat
            /\ step = "qemu" => Fits(new, With(job.path, File({}, NoPath, job.size)))
         \/ /\ job.kind = "layer" /\ step \in {"qemu", "change", "saving"}
            /\ job.path \notin Paths(disks)
            /\ step = "qemu" => \A size \in Nat : Fits(new, With(job.path, File({}, job.from, size)))
         \/ /\ job.kind = "import" /\ step \in {"unlink", "change", "saving"}
            /\ job.path \notin Paths(disks) /\ job.from \notin Paths(disks)
            /\ step = "unlink" => job.from # job.path
            /\ job.from # job.path => job.from \notin Paths(new)
         \/ job.kind = "edit" /\ step \in {"change", "saving"}
         \/ /\ Moves /\ (step \in {"aside", "change", "saving"} \/ (job.kind = "merge" /\ step \in {"ask", "check", "qemu"}))
            /\ new \subseteq disks /\ job.path \notin Paths(new)
            /\ job.kind = "merge" /\ step \in {"ask", "check", "qemu"} =>
                 \E d \in disks : d.path = job.path /\ d.kind = "layer"
            /\ IF step \in {"change", "saving"}
                 THEN /\ job.from # NoPath /\ job.from \notin Paths(disks) /\ job.from # job.path
                      /\ job.from \in DOMAIN files
                 ELSE job.from = NoPath /\ job.path \in Paths(disks)

PlanSize(disks) ==
  LET new == job.to.disks
  IN  /\ job.kind = "resize" /\ job.then = None /\ job.size \in Nat
      /\ step \in {"ask", "check", "change", "saving", "qemu", "again"}
      /\ Good(disks) /\ Good(new) /\ Fits(disks, files) /\ job.path \in DOMAIN files
      /\ Fits(new, [files EXCEPT ![job.path].size = job.size])

\* How far the save of a transaction is: from the lab with old to that with new.
Course(old, new) ==
  /\ phase \in Busy => cur.disks = new
  /\ phase = "rename" => temp.disks = new
  /\ phase \in {"save", "write", "rename"} => file.disks = old
  /\ phase = "reload" => file.disks = new
  /\ phase = "done" => \/ result = "ok" /\ file.disks = new /\ cur.disks = new
                       \/ result = "refused" /\ file.disks = old /\ cur.disks = old

\* The second save of a resize, which takes the size back.
CourseBack ==
  job.then = None /\ ((phase = "done" => result = "ok") =>
    /\ Good(cur.disks) /\ Fits(cur.disks, files)
    /\ phase = "rename" => temp.disks = cur.disks
    /\ phase \in {"reload", "done"} => file.disks = cur.disks)

BacksOut == job.kind = "resize" /\ job.back = NoLab

RestsFit ==
  step = "none" => /\ Good(file.disks) /\ Fits(file.disks, files)
                   /\ phase = "idle" => cur.disks = file.disks
WorksFit ==
  step \notin {"none", "saving"} =>
    /\ cur.disks = file.disks
    /\ IF job.kind = "resize"
         THEN /\ job.back # NoLab /\ PlanSize(job.back.disks)
              /\ cur.disks = IF step \in {"qemu", "again"} THEN job.to.disks ELSE job.back.disks
         ELSE Plan(cur.disks)
SavesFit ==
  step = "saving" =>
    IF BacksOut THEN CourseBack
    ELSE /\ snap # NoLab /\ Course(snap.disks, job.to.disks)
         /\ IF job.kind = "resize" THEN PlanSize(snap.disks) /\ job.back.disks = snap.disks
            ELSE Plan(snap.disks)

FitInv == ~hurt => RestsFit /\ WorksFit /\ SavesFit

-----------------------------------------------------------------------------
(* Requests *)

LEMMA LabDisks ==
  ASSUME IsLab(cur)
  PROVE  /\ \A disks : [cur EXCEPT !.disks = disks].disks = disks
         /\ \A at : DetachActive(cur, at).disks =
                      {IF d.at = at THEN [d EXCEPT !.at = Nowhere] ELSE d : d \in cur.disks}
         /\ \A d : Unregisters(d).disks = cur.disks \ {d}
         /\ \A work : [cur EXCEPT !.work = work].disks = cur.disks
<1>1. ASSUME NEW l, l = [disks |-> l.disks, work |-> l.work], NEW at, NEW path
      PROVE  SetWorkloadDisk(l, at, path) = [disks |-> l.disks, work |-> SetWorkloadDisk(l, at, path).work]
  BY <1>1 DEF SetWorkloadDisk
<1>2. cur = [disks |-> cur.disks, work |-> cur.work]
  BY DEF IsLab
<1>3. ASSUME NEW disks PROVE [cur EXCEPT !.disks = disks] = [disks |-> disks, work |-> cur.work]
  BY <1>2
<1>4. ASSUME NEW work PROVE [cur EXCEPT !.work = work].disks = cur.disks
  BY <1>2
<1>5. ASSUME NEW at
      PROVE  DetachActive(cur, at).disks = {IF d.at = at THEN [d EXCEPT !.at = Nowhere] ELSE d : d \in cur.disks}
  <2> DEFINE freed == {IF d.at = at THEN [d EXCEPT !.at = Nowhere] ELSE d : d \in cur.disks}
             m == [cur EXCEPT !.disks = freed]
  <2>1. m = [disks |-> freed, work |-> cur.work]
    BY <1>3
  <2>2. SetWorkloadDisk(m, at, NoPath).disks = freed
    BY <1>1, <2>1
  <2> QED  BY <2>2 DEF DetachActive
<1>6. ASSUME NEW d PROVE Unregisters(d).disks = cur.disks \ {d}
  <2> DEFINE l == IF d.at = Nowhere THEN cur ELSE SetWorkloadDisk(cur, d.at, NoPath)
  <2>1. l = [disks |-> cur.disks, work |-> l.work]
    BY <1>1, <1>2
  <2> HIDE DEF l
  <2>2. [l EXCEPT !.disks = @ \ {d}].disks = cur.disks \ {d}
    BY <2>1
  <2> QED  BY <2>2 DEF Unregisters, l
<1> QED  BY <1>3, <1>4, <1>5, <1>6

\* Disks that differ from others in where they are attached only.
OnlyMoved(disks, from, f) ==
  /\ Good(disks) /\ Fits(disks, f) /\ Paths(disks) = Paths(from)
  /\ {e.id : e \in disks} = {e.id : e \in from}
  /\ \A b \in from : \E e \in disks : e.id = b.id /\ e.kind = b.kind /\ e.path = b.path

\* Whatever a request attaches, it changes of the other disks only where they are.
LEMMA AttachedDisks ==
  ASSUME IsLab(cur), Good(cur.disks), NEW f, Fits(cur.disks, f)
  PROVE  /\ \A at : /\ Good(DetachActive(cur, at).disks) /\ Fits(DetachActive(cur, at).disks, f)
                    /\ \A d \in cur.disks : \E e \in DetachActive(cur, at).disks : e.id = d.id
         /\ \A d, at : Good(Activates(d, at).disks) /\ Fits(Activates(d, at).disks, f)
         /\ \A d : \E disks : Registers(d).disks = disks \union {d} /\ OnlyMoved(disks, cur.disks, f)
<1>1. ASSUME NEW at
      PROVE  OnlyMoved(DetachActive(cur, at).disks, cur.disks, f)
  <2> DEFINE new == [d \in cur.disks |-> IF d.at = at THEN [d EXCEPT !.at = Nowhere] ELSE d]
  <2>1. \A d \in cur.disks : \E a : new[d] = [d EXCEPT !.at = a]
    <3> SUFFICES ASSUME NEW d \in cur.disks PROVE \E a : new[d] = [d EXCEPT !.at = a]
      OBVIOUS
    <3>1. d = [d EXCEPT !.at = d.at]
      BY DEF Good, IsDisk
    <3> QED  BY <3>1
  <2>2. \A e : e \in DetachActive(cur, at).disks <=> \E d \in cur.disks : e = new[d]
    <3>1. DetachActive(cur, at).disks = {IF d.at = at THEN [d EXCEPT !.at = Nowhere] ELSE d : d \in cur.disks}
      BY LabDisks
    <3> QED  BY <3>1
  <2> HIDE DEF new
  <2>3. Reattached(new, cur.disks, DetachActive(cur, at).disks)
    BY <2>1, <2>2 DEF Reattached
  <2> QED  BY <2>3, SameButAt DEF OnlyMoved
<1>2. ASSUME NEW d, NEW at PROVE Good(Activates(d, at).disks) /\ Fits(Activates(d, at).disks, f)
  <2> DEFINE l == DetachActive(cur, at)
             new == [e \in l.disks |-> IF e.id = d.id THEN [e EXCEPT !.at = at] ELSE e]
             m == [l EXCEPT !.disks = {IF e.id = d.id THEN [e EXCEPT !.at = at] ELSE e : e \in @}]
  <2>1. \A e \in l.disks : \E a : new[e] = [e EXCEPT !.at = a]
    <3> SUFFICES ASSUME NEW e \in l.disks PROVE \E a : new[e] = [e EXCEPT !.at = a]
      OBVIOUS
    <3>1. e = [e EXCEPT !.at = e.at]
      BY <1>1 DEF OnlyMoved, Good, IsDisk
    <3> QED  BY <3>1
  <2>2. l = [disks |-> l.disks, work |-> l.work]
    BY DetachedLab DEF Likewise, IsLab
  <2>3. (\A x : x \in m.disks <=> \E e \in l.disks : x = new[e]) /\ m = [disks |-> m.disks, work |-> m.work]
    <3> HIDE DEF l
    <3>1. m = [disks |-> {IF e.id = d.id THEN [e EXCEPT !.at = at] ELSE e : e \in l.disks}, work |-> l.work]
      BY <2>2
    <3> QED  BY <3>1
  <2>4. Activates(d, at).disks = m.disks
    <3> HIDE DEF m
    <3>1. SetWorkloadDisk(m, at, d.path).disks = m.disks
      BY <2>3 DEF SetWorkloadDisk
    <3> QED  BY <3>1 DEF Activates, m
  <2> HIDE DEF new, m
  <2>5. Good(l.disks) /\ Fits(l.disks, f)
    BY <1>1 DEF OnlyMoved
  <2> HIDE DEF l
  <2>6. Good(m.disks) /\ Fits(m.disks, f)
    <3>1. Reattached(new, l.disks, m.disks)
      BY <2>1, <2>3 DEF Reattached
    <3> QED  BY <2>5, <3>1, SameButAt
  <2> QED  BY <2>4, <2>6
<1>3. ASSUME NEW d
      PROVE  \E disks : Registers(d).disks = disks \union {d} /\ OnlyMoved(disks, cur.disks, f)
  <2>1. CASE d.at = Nowhere
    <3>1. Registers(d).disks = cur.disks \union {d}
      BY <2>1, LabDisks DEF Registers
    <3> QED  BY <3>1 DEF OnlyMoved
  <2>2. CASE d.at # Nowhere
    <3> DEFINE l == DetachActive(cur, d.at)
               m == SetWorkloadDisk(l, d.at, d.path)
    <3>1. l = [disks |-> l.disks, work |-> l.work]
      BY DetachedLab DEF Likewise, IsLab
    <3>2. m = [disks |-> l.disks, work |-> m.work]
      <4> HIDE DEF l
      <4> QED  BY <3>1 DEF SetWorkloadDisk
    <3>3. Registers(d) = [m EXCEPT !.disks = @ \union {d}]
      BY <2>2 DEF Registers
    <3>4. Registers(d).disks = l.disks \union {d}
      <4> HIDE DEF l, m
      <4> QED  BY <3>2, <3>3
    <3> QED  BY <1>1, <3>4
  <2> QED  BY <2>1, <2>2
<1>4. ASSUME NEW at PROVE \A d \in cur.disks : \E e \in DetachActive(cur, at).disks : e.id = d.id
  BY <1>1 DEF OnlyMoved
<1> QED  BY <1>1, <1>2, <1>3, <1>4 DEF OnlyMoved

\* What Job puts in a job, and what an EXCEPT makes of one.
LEMMA JobHolds ==
  ASSUME NEW kind, NEW id, NEW path, NEW to
  PROVE  LET j == Job(kind, id, path, to)
         IN  /\ IsJob(j) /\ j.kind = kind /\ j.id = id /\ j.path = path /\ j.to = to
             /\ j.from = NoPath /\ j.back = NoLab /\ j.then = None /\ j.had = OnHost
BY DEF Job, NoJob, IsJob, JobFields

Alike(k, j) == /\ IsJob(k) /\ k.kind = j.kind /\ k.id = j.id /\ k.path = j.path /\ k.to = j.to
               /\ k.back = j.back /\ k.had = j.had
LEMMA JobChanged ==
  ASSUME NEW j, IsJob(j), NEW x
  PROVE  /\ LET k == [j EXCEPT !.at = x] IN Alike(k, j) /\ k.from = j.from /\ k.size = j.size /\ k.then = j.then
         /\ LET k == [j EXCEPT !.from = x] IN Alike(k, j) /\ k.from = x /\ k.size = j.size /\ k.then = j.then
         /\ LET k == [j EXCEPT !.size = x] IN Alike(k, j) /\ k.size = x /\ k.from = j.from /\ k.then = j.then
         /\ LET k == [j EXCEPT !.then = x] IN Alike(k, j) /\ k.then = x /\ k.from = j.from /\ k.size = j.size
<1>1. LET k == [j EXCEPT !.at = x] IN Alike(k, j) /\ k.from = j.from /\ k.size = j.size /\ k.then = j.then
  BY DEF Alike, IsJob, JobFields
<1>2. LET k == [j EXCEPT !.from = x] IN Alike(k, j) /\ k.from = x /\ k.size = j.size /\ k.then = j.then
  BY DEF Alike, IsJob, JobFields
<1>3. LET k == [j EXCEPT !.size = x] IN Alike(k, j) /\ k.size = x /\ k.from = j.from /\ k.then = j.then
  BY DEF Alike, IsJob, JobFields
<1>4. LET k == [j EXCEPT !.then = x] IN Alike(k, j) /\ k.then = x /\ k.from = j.from /\ k.size = j.size
  BY DEF Alike, IsJob, JobFields
<1> QED  BY <1>1, <1>2, <1>3, <1>4

\* What a request finds.
Asking ==
  /\ IsLab(cur) /\ phase = "idle" /\ step = "none" /\ FilesAre /\ DisksFit
  /\ Good(cur.disks) /\ Fits(cur.disks, files)

LEMMA DiskWithId ==
  ASSUME NEW id \in Registered
  PROVE  DiskWith(id) \in cur.disks /\ DiskWith(id).id = id
BY DEF Registered, DiskWith

\* A file at a path that no disk has is in nobody's way.
LEMMA FitsWith ==
  ASSUME NEW disks, Fits(disks, files), NEW path, path \notin Paths(disks), NEW f
  PROVE  Fits(disks, With(path, f))
BY DEF Fits, With, Paths

LEMMA CreatePlanned ==
  ASSUME Asking, NEW id, NEW at, NEW size \in Sizes, CreateDisk(id, at, size)
  PROVE  Plan(cur.disks)'
<1> DEFINE new == NewDisk(id, Storage(id), "base", None, at, size)
           j == Job("create", id, Storage(id), Registers(new))
<1>1. job' = [j EXCEPT !.size = size] /\ step' = "qemu" /\ files' = With(Storage(id), File({}, NoPath, 0)) /\ cur' = cur
  BY DEF CreateDisk, Request, sessionVars
<1>2. /\ job'.kind = "create" /\ job'.path = Storage(id) /\ job'.to = Registers(new) /\ job'.size = size
      /\ job'.from = NoPath /\ job'.then = None
  BY <1>1, JobHolds, JobChanged DEF Alike
<1>3. id \in Unused /\ Storage(id) \notin Paths(cur.disks) /\ size \in Nat /\ id # None
  BY DEF CreateDisk, Asking, Fits, Paths, DisksFit, Unused
<1>4. /\ IsDisk(new) /\ new.id = id /\ new.path = Storage(id) /\ new.kind = "base" /\ new.base = None /\ new.size = size
  BY <1>3 DEF NewDisk, IsDisk
<1> HIDE DEF new, j
<1>5. Fits(cur.disks, With(Storage(id), File({}, NoPath, 0))) /\ Fits(cur.disks, With(Storage(id), File({}, NoPath, size)))
  BY <1>3, FitsWith DEF Asking
<1> DEFINE f == With(Storage(id), File({}, NoPath, size))
<1>6. Storage(id) \in DOMAIN f /\ f[Storage(id)].size = size
  BY DEF With, File
<1> HIDE DEF f
<1>7. PICK disks : Registers(new).disks = disks \union {new} /\ OnlyMoved(disks, cur.disks, f)
  BY <1>5, AttachedDisks DEF Asking, f
<1>8. id \notin {e.id : e \in disks}
  BY <1>3, <1>7 DEF Unused, Registered, OnlyMoved
<1>9. Good(Registers(new).disks) /\ Fits(Registers(new).disks, f)
  BY <1>3, <1>4, <1>6, <1>7, <1>8, OneMore DEF OnlyMoved
<1>10. Fits(job'.to.disks, With(job.path, File({}, NoPath, job.size))')
  <2>1. With(job.path, File({}, NoPath, job.size))' = f
    BY <1>1, <1>2 DEF With, f
  <2> QED  BY <1>2, <1>9, <2>1
<1>11. Undone' = files'
  BY <1>2 DEF Undone, Moves
<1> QED  BY <1>1, <1>2, <1>3, <1>5, <1>9, <1>10, <1>11 DEF Plan, Asking

LEMMA LayerPlanned ==
  ASSUME Asking, NEW base \in Registered, NEW id, NEW at, CreateLayer(base, id, at)
  PROVE  Plan(cur.disks)'
<1> DEFINE new == NewDisk(id, LayerPath(id), "layer", base, at, 0)
           b == DiskWith(base)
           j == Job("layer", id, LayerPath(id), Registers(new))
<1>1. job' = [j EXCEPT !.from = b.path] /\ step' = "qemu" /\ files' = With(LayerPath(id), File({}, NoPath, 0)) /\ cur' = cur
  BY DEF CreateLayer, Request, sessionVars
<1>2. /\ job'.kind = "layer" /\ job'.path = LayerPath(id) /\ job'.to = Registers(new)
      /\ job'.from = b.path /\ job'.then = None
  BY <1>1, JobHolds, JobChanged DEF Alike
<1>3. id \in Unused /\ LayerPath(id) \notin Paths(cur.disks) /\ id # None
  BY DEF CreateLayer, Asking, Fits, Paths, DisksFit, Unused
<1>4. IsDisk(new) /\ new.id = id /\ new.path = LayerPath(id) /\ new.base = base /\ new.size = 0
  BY <1>3 DEF NewDisk, IsDisk
<1>5. b \in cur.disks /\ b.id = base /\ b.kind = "base" /\ base # None
  BY DiskWithId DEF CreateLayer, Asking, Good, IsDisk
<1> HIDE DEF new, j, b
<1>6. Fits(cur.disks, With(LayerPath(id), File({}, NoPath, 0)))
  BY <1>3, FitsWith DEF Asking
<1>7. ASSUME NEW size \in Nat
      PROVE  Good(Registers(new).disks) /\ Fits(Registers(new).disks, With(LayerPath(id), File({}, b.path, size)))
  <2> DEFINE f == With(LayerPath(id), File({}, b.path, size))
  <2>1. Fits(cur.disks, f)
    BY <1>3, FitsWith DEF Asking
  <2>2. LayerPath(id) \in DOMAIN f /\ f[LayerPath(id)].size = size /\ f[LayerPath(id)].back = b.path
    BY DEF With, File
  <2> HIDE DEF f
  <2>3. PICK disks : Registers(new).disks = disks \union {new} /\ OnlyMoved(disks, cur.disks, f)
    <3>1. IsLab(cur) /\ Good(cur.disks)
      BY DEF Asking
    <3> QED  BY <2>1, <3>1, AttachedDisks
  <2>4. id \notin {e.id : e \in disks}
    BY <1>3, <2>3 DEF Unused, Registered, OnlyMoved
  <2>5. \E e \in disks : e.id = new.base /\ e.kind = "base" /\ f[LayerPath(id)].back = e.path
    BY <1>4, <1>5, <2>2, <2>3 DEF OnlyMoved
  <2>6. 0 <= size
    OBVIOUS
  <2>7. Good(Registers(new).disks) /\ Fits(Registers(new).disks, f)
    BY <1>3, <1>4, <1>5, <2>2, <2>3, <2>4, <2>5, <2>6, OneMore DEF OnlyMoved
  <2> QED  BY <2>7 DEF f
<1>8. ASSUME NEW size \in Nat
      PROVE  Fits(job'.to.disks, With(job.path, File({}, job.from, size))')
  <2>1. With(job.path, File({}, job.from, size))' = With(LayerPath(id), File({}, b.path, size))
    BY <1>1, <1>2 DEF With
  <2> QED  BY <1>2, <1>7, <2>1
<1>9. Undone' = files'
  BY <1>2 DEF Undone, Moves
<1>10. Good(Registers(new).disks)
  BY <1>7
<1> QED  BY <1>1, <1>2, <1>3, <1>6, <1>8, <1>9, <1>10 DEF Plan, Asking

LEMMA ImportPlanned ==
  ASSUME Asking, NEW source \in DOMAIN files, NEW id, DiskImport(source, id), taken' = {}
  PROVE  Plan(cur.disks)'
<1> DEFINE new == NewDisk(id, Storage(id), "base", None, Nowhere, files[source].size)
           j == Job("import", id, Storage(id), Registers(new))
           f == With(Storage(id), files[source])
<1>1. job' = [j EXCEPT !.from = source] /\ files' = f /\ cur' = cur
      /\ step' = IF Storage(id) = source THEN "change" ELSE "unlink"
  BY DEF DiskImport, Request, sessionVars
<1>2. /\ job'.kind = "import" /\ job'.path = Storage(id) /\ job'.to = Registers(new)
      /\ job'.from = source /\ job'.then = None
  BY <1>1, JobHolds, JobChanged DEF Alike
<1>3. id \in Unused /\ Storage(id) \notin Paths(cur.disks) /\ source \notin Paths(cur.disks) /\ id # None
  <2>1. \E k, s : Request(k, s)
    BY DEF DiskImport
  <2>2. taken' = IF job'.kind = "import" THEN taken \union ({job'.from} \intersect Paths(cur.disks)) ELSE taken
    BY <2>1 DEF Request
  <2>3. source \notin Paths(cur.disks)
    BY <1>2, <2>2
  <2> QED  BY <2>3 DEF DiskImport, Asking, Fits, Paths, DisksFit, Unused
<1>4. files[source].size \in Nat
  BY DEF Asking, FilesAre, IsFile
<1>5. /\ IsDisk(new) /\ new.id = id /\ new.path = Storage(id) /\ new.kind = "base" /\ new.base = None
      /\ new.size = files[source].size
  BY <1>3, <1>4 DEF NewDisk, IsDisk
<1>6. Storage(id) \in DOMAIN f /\ f[Storage(id)].size = files[source].size
  BY DEF With
<1>7. Fits(cur.disks, f)
  BY <1>3, FitsWith DEF Asking
<1> HIDE DEF new, j, f
<1>8. PICK disks : Registers(new).disks = disks \union {new} /\ OnlyMoved(disks, cur.disks, f)
  BY <1>7, AttachedDisks DEF Asking
<1>9. id \notin {e.id : e \in disks}
  BY <1>3, <1>8 DEF Unused, Registered, OnlyMoved
<1>10. files[source].size <= files[source].size
  BY <1>4
<1>11. Good(Registers(new).disks) /\ Fits(Registers(new).disks, f)
  BY <1>3, <1>5, <1>6, <1>8, <1>9, <1>10, OneMore DEF OnlyMoved
<1>12. source # Storage(id) => source \notin Paths(Registers(new).disks)
  BY <1>3, <1>5, <1>8 DEF Paths, OnlyMoved
<1>13. Undone' = files'
  BY <1>2 DEF Undone, Moves
<1> QED  BY <1>1, <1>2, <1>3, <1>7, <1>11, <1>12, <1>13 DEF Plan, Asking

\* Edits: of where disks are, of a name, of what a workload is told.
LEMMA EditPlanned ==
  ASSUME Asking, NEW j, IsJob(j), j.kind = "edit", Request(j, "change"), UNCHANGED files,
         Good(j.to.disks), Fits(j.to.disks, files), j.then # None => \E d \in j.to.disks : d.id = j.then
  PROVE  Plan(cur.disks)'
<1>1. job' = j /\ step' = "change" /\ cur' = cur
  BY DEF Request, sessionVars
<1>2. Undone' = files'
  BY <1>1 DEF Undone, Moves
<1> QED  BY <1>1, <1>2 DEF Plan, Asking, Moves

LEMMA EditsPlanned ==
  ASSUME Asking,
         \/ \E id \in Registered : \E at : AttachDisk(id, at)
         \/ \E id \in Registered, new \in DiskIds : DiskRename(id, new)
         \/ \E at : DetachDisk(at) \/ DeleteActive(at) \/ \E state : SetDesired(at, state)
  PROVE  Plan(cur.disks)' /\ job'.kind = "edit"
<1> DEFINE Goal == Plan(cur.disks)' /\ job'.kind = "edit"
<1>1. ASSUME NEW id, NEW at, AttachDisk(id, at) PROVE Goal
  <2> DEFINE to == Activates(DiskWith(id), at)
             j == Job("edit", id, DiskWith(id).path, to)
  <2>1. Request(j, "change") /\ UNCHANGED files
    BY <1>1 DEF AttachDisk
  <2>2. IsJob(j) /\ j.kind = "edit" /\ j.to = to /\ j.then = None
    BY JobHolds
  <2>3. Good(to.disks) /\ Fits(to.disks, files)
    BY AttachedDisks DEF Asking
  <2> HIDE DEF j, to
  <2> QED  BY <2>1, <2>2, <2>3, EditPlanned DEF Request
<1>2. ASSUME NEW id \in Registered, NEW new \in DiskIds, DiskRename(id, new) PROVE Goal
  <2> DEFINE named == Renamed(cur.disks, id, new)
             to == [cur EXCEPT !.disks = named]
             j == Job("edit", id, NoPath, to)
  <2>1. Request(j, "change") /\ UNCHANGED files /\ new \notin Registered
    BY <1>2 DEF DiskRename, Renamed
  <2>2. IsJob(j) /\ j.kind = "edit" /\ j.to = to /\ j.then = None
    BY JobHolds
  <2>3. id # None /\ new # None /\ new \notin {d.id : d \in cur.disks}
    BY <2>1 DEF Asking, Good, IsDisk, Registered, DisksFit
  <2>4. Good(named) /\ Fits(named, files)
    BY <2>3, OtherName DEF Asking
  <2> HIDE DEF named
  <2>5. to.disks = named
    BY LabDisks DEF Asking
  <2> HIDE DEF j, to
  <2> QED  BY <2>1, <2>2, <2>4, <2>5, EditPlanned DEF Request
<1>3. ASSUME NEW at, DetachDisk(at) PROVE Goal
  <2> DEFINE to == DetachActive(cur, at)
             j == Job("edit", None, NoPath, to)
  <2>1. Request(j, "change") /\ UNCHANGED files
    BY <1>3 DEF DetachDisk
  <2>2. IsJob(j) /\ j.kind = "edit" /\ j.to = to /\ j.then = None
    BY JobHolds
  <2>3. Good(to.disks) /\ Fits(to.disks, files)
    BY AttachedDisks DEF Asking
  <2> HIDE DEF j, to
  <2> QED  BY <2>1, <2>2, <2>3, EditPlanned DEF Request
<1>4. ASSUME NEW at, DeleteActive(at) PROVE Goal
  <2> DEFINE to == DetachActive(cur, at)
  <2>1. PICK d \in Attached(at) : Request([Job("edit", d.id, NoPath, to) EXCEPT !.then = d.id], "change") /\ UNCHANGED files
    BY <1>4 DEF DeleteActive
  <2> DEFINE i == Job("edit", d.id, NoPath, to)
             j == [i EXCEPT !.then = d.id]
  <2>2. IsJob(j) /\ j.kind = "edit" /\ j.to = to /\ j.then = d.id
    <3>1. IsJob(i) /\ i.kind = "edit" /\ i.to = to
      BY JobHolds
    <3> HIDE DEF i, to
    <3>2. Alike(j, i) /\ j.then = d.id
      BY <3>1 DEF Alike, IsJob, JobFields
    <3> QED  BY <3>1, <3>2 DEF Alike
  <2>3. Good(to.disks) /\ Fits(to.disks, files)
    BY AttachedDisks DEF Asking
  <2>4. \E e \in to.disks : e.id = d.id
    BY AttachedDisks DEF Asking, Attached
  <2>5. Request(j, "change")
    BY <2>1
  <2> HIDE DEF i, j, to
  <2> QED  BY <2>1, <2>2, <2>3, <2>4, <2>5, EditPlanned DEF Request
<1>5. ASSUME NEW at, NEW state, SetDesired(at, state) PROVE Goal
  <2> DEFINE work == {IF At(w) = at THEN [w EXCEPT !.desired = state] ELSE w : w \in cur.work}
             to == [cur EXCEPT !.work = work]
             j == Job("edit", None, NoPath, to)
  <2>1. Request(j, "change") /\ UNCHANGED files
    BY <1>5 DEF SetDesired
  <2>2. IsJob(j) /\ j.kind = "edit" /\ j.to = to /\ j.then = None
    BY JobHolds
  <2> HIDE DEF work
  <2>3. to.disks = cur.disks
    BY LabDisks DEF Asking
  <2> HIDE DEF j, to
  <2> QED  BY <2>1, <2>2, <2>3, EditPlanned DEF Request, Asking
<1> QED  BY <1>1, <1>2, <1>3, <1>4, <1>5

\* A merge or a delete, of a disk that is the base of none.
LEMMA MovePlanned ==
  ASSUME IsLab(cur), Good(cur.disks), Fits(cur.disks, files), UNCHANGED <<files, cur>>,
         NEW d \in cur.disks, \A e \in cur.disks : e.base # d.id,
         job'.kind \in {"merge", "delete"}, job'.path = d.path, job'.from = NoPath, job'.to = Unregisters(d),
         job'.then = None, step' = "aside" \/ (job'.kind = "merge" /\ d.kind = "layer" /\ step' \in {"ask", "check"})
  PROVE  Plan(cur.disks)'
<1>1. job'.to.disks = cur.disks \ {d}
  BY LabDisks
<1>2. Good(cur.disks \ {d}) /\ d.path \notin Paths(cur.disks \ {d})
  BY OneLess
<1>3. Fits(cur.disks \ {d}, files)
  BY FitsFewer
<1>4. d.path \in Paths(cur.disks)
  BY DEF Paths
<1>5. Undone' = files'
  BY DEF Undone
<1> QED  BY <1>1, <1>2, <1>3, <1>4, <1>5 DEF Plan, Moves

LEMMA DeletePlanned ==
  ASSUME IsLab(cur), Good(cur.disks), Fits(cur.disks, files), UNCHANGED <<files, cur>>,
         NEW d \in cur.disks, Deletable(d), step' = "aside",
         NEW had, job' = [Deletion(d) EXCEPT !.had = had]
  PROVE  Plan(cur.disks)' /\ job'.kind = "delete"
<1>1. /\ IsJob(Deletion(d)) /\ Deletion(d).kind = "delete" /\ Deletion(d).path = d.path /\ Deletion(d).to = Unregisters(d)
      /\ Deletion(d).from = NoPath /\ Deletion(d).then = None
  BY JobHolds DEF Deletion
<1>2. /\ job'.kind = "delete" /\ job'.path = d.path /\ job'.to = Unregisters(d)
      /\ job'.from = NoPath /\ job'.then = None
  BY <1>1 DEF IsJob, JobFields
<1>3. \A e \in cur.disks : e.base # d.id
  BY DEF Deletable
<1> QED  BY <1>2, <1>3, MovePlanned

LEMMA MergePlanned ==
  ASSUME Asking, NEW id \in Registered, DiskMerge(id)
  PROVE  Plan(cur.disks)' /\ job'.kind = "merge" /\ job'.back = NoLab /\ step' \in {"ask", "check"}
<1> DEFINE d == DiskWith(id)
           i == Job("merge", id, d.path, Unregisters(d))
           j == [i EXCEPT !.at = d.at]
<1>1. d \in cur.disks /\ d.id = id /\ d.kind = "layer"
  BY DiskWithId DEF DiskMerge
<1>2. job' = j /\ step' \in {"ask", "check"} /\ UNCHANGED <<files, cur>>
  BY DEF DiskMerge, Asks, Request, sessionVars
<1>3. /\ IsJob(i) /\ i.kind = "merge" /\ i.path = d.path /\ i.to = Unregisters(d) /\ i.from = NoPath /\ i.then = None
      /\ i.back = NoLab
  BY JobHolds
<1> HIDE DEF d, i
<1>4. Alike(j, i) /\ j.from = i.from /\ j.then = i.then
  BY <1>3, JobChanged
<1>5. \A e \in cur.disks : e.base # d.id
  BY <1>1 DEF Asking, Good, Based, Apart, IsDisk
<1> QED  BY <1>1, <1>2, <1>3, <1>4, <1>5, MovePlanned DEF Asking, Alike

LEMMA ResizePlanned ==
  ASSUME Asking, NEW id \in Registered, NEW size \in Sizes, NEW force, ResizeDisk(id, size, force)
  PROVE  PlanSize(cur.disks)' /\ job'.kind = "resize" /\ job'.back = cur /\ step' \in {"ask", "check"}
<1> DEFINE d == DiskWith(id)
           sized == (cur.disks \ {d}) \union {[d EXCEPT !.size = size]}
           to == [cur EXCEPT !.disks = (@ \ {d}) \union {[d EXCEPT !.size = size]}]
           i == Job("resize", id, d.path, to)
           shrinks == d.size > 0 /\ size < d.size
           k == [i EXCEPT !.size = size, !.shrinks = shrinks, !.back = cur]
           j == [k EXCEPT !.at = d.at]
<1>1. d \in cur.disks
  BY DiskWithId
<1>2. job' = j /\ step' \in {"ask", "check"} /\ UNCHANGED <<files, cur>>
  BY DEF ResizeDisk, Asks, Request, sessionVars
<1>3. to.disks = sized
  BY LabDisks DEF Asking
<1>4. IsJob(i) /\ i.kind = "resize" /\ i.path = d.path /\ i.to = to /\ i.then = None
  BY JobHolds
<1>5. size \in Nat /\ d.path \in DOMAIN files
  BY <1>1 DEF Asking, DisksFit, Fits
<1> DEFINE g == [files EXCEPT ![d.path].size = size]
<1>6. /\ DOMAIN g = DOMAIN files /\ g[d.path].size = size /\ g[d.path].back = files[d.path].back
      /\ \A p \in DOMAIN files \ {d.path} : g[p] = files[p]
  BY <1>5 DEF Asking, FilesAre, IsFile, File
<1> HIDE DEF g, to, i, shrinks, d
<1>7. IsJob(k) /\ k.kind = "resize" /\ k.path = d.path /\ k.to = to /\ k.then = None /\ k.size = size /\ k.back = cur
  BY <1>4 DEF IsJob, JobFields
<1> HIDE DEF k
<1>8. Alike(j, k) /\ j.then = k.then /\ j.size = k.size
  BY <1>7, JobChanged
<1>9. Good(sized) /\ Fits(sized, g)
  BY <1>1, <1>5, <1>6, OtherSize DEF Asking
<1> HIDE DEF sized, j
<1>10. /\ job'.kind = "resize" /\ job'.path = d.path /\ job'.to = to /\ job'.then = None /\ job'.size = size
       /\ job'.back = cur
  BY <1>2, <1>7, <1>8 DEF Alike
<1>11. [files EXCEPT ![job.path].size = job.size]' = g
  BY <1>2, <1>10 DEF g
<1> QED  BY <1>2, <1>3, <1>5, <1>9, <1>10, <1>11 DEF PlanSize, Asking

-----------------------------------------------------------------------------
(* Every step keeps the disks and their files together. *)

\* An import of a listed disk's file is the one request that does not.
LEMMA RequestsFit ==
  ASSUME LabsAreLabs, OfflineInv, FilesAre, DisksFit, FitInv, Requests, taken' = {}
  PROVE  FitInv'
<1> SUFFICES ASSUME ~hurt' PROVE (RestsFit /\ WorksFit /\ SavesFit)'
  BY DEF FitInv
<1>1. UNCHANGED sessionVars /\ phase = "idle" /\ step = "none"
  BY RequestsWait
<1>2. PICK j, s : Request(j, s) /\ Proper(j, s)
  BY <1>1, RequestsProper DEF OfflineInv, HeldLabs
<1>3. step' = s /\ job' = j /\ s \notin {"none", "saving"} /\ ~hurt /\ UNCHANGED <<cur, file>>
  BY <1>1, <1>2 DEF Request, Proper, sessionVars
<1>4. Asking /\ cur.disks = file.disks
  BY <1>1, <1>3 DEF Asking, FitInv, RestsFit, OfflineInv, HeldLabs
<1>5. \/ Plan(cur.disks)' /\ job'.kind # "resize"
      \/ PlanSize(cur.disks)' /\ job'.kind = "resize" /\ job'.back = cur /\ step' \in {"ask", "check"}
  <2> DEFINE Goal == \/ Plan(cur.disks)' /\ job'.kind # "resize"
                     \/ PlanSize(cur.disks)' /\ job'.kind = "resize" /\ job'.back = cur /\ step' \in {"ask", "check"}
  <2>1. CASE \E id, at : \E size \in Sizes : CreateDisk(id, at, size)
    BY <1>4, <2>1, CreatePlanned DEF Plan, Moves
  <2>2. CASE \E base \in Registered : \E id, at : CreateLayer(base, id, at)
    BY <1>4, <2>2, LayerPlanned DEF Plan, Moves
  <2>3. CASE \E source \in DOMAIN files : \E id : DiskImport(source, id)
    BY <1>4, <2>3, ImportPlanned DEF Plan, Moves
  <2>4. CASE \/ \E id \in Registered : \E at : AttachDisk(id, at)
             \/ \E id \in Registered, new \in DiskIds : DiskRename(id, new)
             \/ \E at : DetachDisk(at) \/ DeleteActive(at) \/ \E state : SetDesired(at, state)
    BY <1>4, <2>4, EditsPlanned
  <2>5. CASE \E id \in Registered : DiskMerge(id)
    BY <1>4, <2>5, MergePlanned
  <2>6. CASE \E id \in Registered : \E size \in Sizes : \E force : ResizeDisk(id, size, force)
    BY <1>4, <2>6, ResizePlanned
  <2>7. CASE \E id \in Registered : DiskDelete(id)
    <3> PICK id \in Registered : DiskDelete(id)
      BY <2>7
    <3> DEFINE d == DiskWith(id)
    <3>1. d \in cur.disks /\ Deletable(d) /\ job' = Deletion(d) /\ step' = "aside" /\ UNCHANGED <<files, cur>>
      BY <1>3, DiskWithId DEF DiskDelete, Request
    <3>2. IsJob(Deletion(d))
      BY JobHolds DEF Deletion
    <3>3. Deletion(d) = [Deletion(d) EXCEPT !.had = Deletion(d).had]
      BY <3>2 DEF IsJob, JobFields
    <3> HIDE DEF d
    <3> QED  BY <1>4, <3>1, <3>3, DeletePlanned DEF Asking
  <2>8. \/ \E id, at : \E size \in Sizes : CreateDisk(id, at, size)
        \/ \E base \in Registered : \E id, at : CreateLayer(base, id, at)
        \/ \E source \in DOMAIN files : \E id : DiskImport(source, id)
        \/ \/ \E id \in Registered : \E at : AttachDisk(id, at)
           \/ \E id \in Registered, new \in DiskIds : DiskRename(id, new)
           \/ \E at : DetachDisk(at) \/ DeleteActive(at) \/ \E state : SetDesired(at, state)
        \/ \E id \in Registered : \E size \in Sizes : \E force : ResizeDisk(id, size, force)
        \/ \E id \in Registered : DiskMerge(id)
        \/ \E id \in Registered : DiskDelete(id)
    BY DEF Requests
  <2> QED  BY <2>1, <2>2, <2>3, <2>4, <2>5, <2>6, <2>7, <2>8
<1>6. cur # NoLab \/ job'.kind # "resize"
  BY <1>4 DEF Asking, LabsAreLabs
<1> QED  BY <1>3, <1>4, <1>5, <1>6 DEF RestsFit, WorksFit, SavesFit

\* Files stay files.
LEMMA FileIs == ASSUME NEW holds, NEW back, NEW size \in Nat
                PROVE  /\ IsFile(File(holds, back, size)) /\ File(holds, back, size).holds = holds
                       /\ File(holds, back, size).back = back /\ File(holds, back, size).size = size
BY DEF IsFile, File

LEMMA FileGrows ==
  ASSUME NEW r, r = File(r.holds, r.back, r.size), NEW more, NEW size
  PROVE  [r EXCEPT !.holds = @ \union more, !.size = size] = File(r.holds \union more, r.back, size)
<1> DEFINE k == [r EXCEPT !.holds = @ \union more, !.size = size]
<1>1. r = [f \in {"holds", "back", "size"} |-> r[f]]
  BY DEF File
<1>2. k = [f \in {"holds", "back", "size"} |-> k[f]] /\ k.holds = r.holds \union more /\ k.back = r.back /\ k.size = size
  BY <1>1
<1> HIDE DEF k
<1>3. k = File(r.holds \union more, r.back, size)
  BY <1>2 DEF File
<1> QED  BY <1>3 DEF k

\* A commit adds to what the base holds and makes it no smaller.
LEMMA CommitsFile ==
  ASSUME FilesAre, Layered(job.path), NEW some, Commits(some)
  PROVE  /\ FilesAre' /\ DOMAIN files' = DOMAIN files
         /\ \A p \in DOMAIN files :
              /\ files'[p].back = files[p].back /\ files[p].size <= files'[p].size
              /\ files'[p].holds = IF p = files[job.path].back THEN files[p].holds \union some ELSE files[p].holds
<1> DEFINE to == files[job.path].back
           larger == IF files[to].size < files[job.path].size THEN files[job.path].size ELSE files[to].size
<1>1. to \in DOMAIN files /\ job.path \in DOMAIN files
  BY DEF Layered
<1>2. files[to].size \in Nat /\ larger \in Nat /\ files[to].size <= larger
  BY <1>1 DEF FilesAre, IsFile
<1>3. files' = [files EXCEPT ![to].holds = @ \union some, ![to].size = larger]
  BY DEF Commits
<1> HIDE DEF to, larger
<1>4. files[to] = File(files[to].holds, files[to].back, files[to].size)
  BY <1>1 DEF FilesAre, IsFile
<1> DEFINE r == files[to]
<1>5. files' = [p \in DOMAIN files |-> IF p = to THEN File(r.holds \union some, r.back, larger) ELSE files[p]]
  <2>1. files' = [files EXCEPT ![to] = [r EXCEPT !.holds = @ \union some, !.size = larger]]
    BY <1>1, <1>3 DEF FilesAre
  <2>2. r = File(r.holds, r.back, r.size)
    BY <1>4
  <2> HIDE DEF r
  <2>3. [r EXCEPT !.holds = @ \union some, !.size = larger] = File(r.holds \union some, r.back, larger)
    BY <2>2, FileGrows
  <2> QED  BY <2>1, <2>3 DEF FilesAre
<1>6. ASSUME NEW p \in DOMAIN files
      PROVE  /\ IsFile(files'[p]) /\ files'[p].back = files[p].back /\ files[p].size <= files'[p].size
             /\ files'[p].holds = IF p = to THEN files[p].holds \union some ELSE files[p].holds
  <2>1. IsFile(files[p]) /\ files[p].size <= files[p].size
    BY DEF FilesAre, IsFile
  <2>2. CASE p = to
    BY <1>2, <1>5, <2>2, FileIs
  <2>3. CASE p # to
    BY <1>5, <2>1, <2>3
  <2> QED  BY <2>2, <2>3
<1> QED  BY <1>5, <1>6 DEF FilesAre, to

FilesInv ==
  /\ FilesAre
  /\ step # "none" /\ job.kind \in {"create", "resize"} => job.size \in Nat

\* A file put at a path, taken away or moved leaves the others as they are.
LEMMA FilesWith ==
  ASSUME FilesAre
  PROVE  /\ \A path, f : IsFile(f) /\ files' = With(path, f) => FilesAre'
         /\ \A path : files' = Without(path) => FilesAre'
         /\ \A from \in DOMAIN files : \A to : files' = Moved(from, to) => FilesAre'
<1>1. ASSUME NEW path, NEW f, IsFile(f), files' = With(path, f) PROVE FilesAre'
  BY <1>1 DEF FilesAre, With
<1>2. ASSUME NEW path, files' = Without(path) PROVE FilesAre'
  BY <1>2 DEF FilesAre, Without
<1>3. ASSUME NEW from \in DOMAIN files, NEW to, files' = Moved(from, to) PROVE FilesAre'
  BY <1>3 DEF FilesAre, Moved
<1> QED  BY <1>1, <1>2, <1>3

LEMMA FilesSized ==
  ASSUME FilesAre, NEW path \in DOMAIN files, NEW size \in Nat, files' = [files EXCEPT ![path].size = size]
  PROVE  /\ FilesAre' /\ DOMAIN files' = DOMAIN files
         /\ files'[path].size = size /\ files'[path].back = files[path].back /\ files'[path].holds = files[path].holds
         /\ \A p \in DOMAIN files \ {path} : files'[p] = files[p]
<1> DEFINE r == files[path]
<1>1. r = [holds |-> r.holds, back |-> r.back, size |-> r.size]
  BY DEF FilesAre, IsFile, File
<1>2. files' = [files EXCEPT ![path] = [r EXCEPT !.size = size]]
  OBVIOUS
<1> HIDE DEF r
<1>3. [r EXCEPT !.size = size] = File(r.holds, r.back, size)
  BY <1>1 DEF File
<1>4. files' = [p \in DOMAIN files |-> IF p = path THEN File(r.holds, r.back, size) ELSE files[p]]
  BY <1>2, <1>3 DEF FilesAre
<1>5. /\ IsFile(File(r.holds, r.back, size)) /\ File(r.holds, r.back, size).holds = r.holds
      /\ File(r.holds, r.back, size).back = r.back /\ File(r.holds, r.back, size).size = size
  BY FileIs
<1>6. DOMAIN files' = DOMAIN files /\ files'[path] = File(r.holds, r.back, size)
      /\ \A p \in DOMAIN files \ {path} : files'[p] = files[p]
  BY <1>4
<1>7. \A p \in DOMAIN files : IsFile(files[p])
  BY DEF FilesAre
<1>8. FilesAre'
  BY <1>4, <1>5, <1>6, <1>7 DEF FilesAre
<1> QED  BY <1>5, <1>6, <1>8 DEF r

LEMMA FilesWritten ==
  ASSUME FilesAre, NEW path \in DOMAIN files, NEW some, files' = [files EXCEPT ![path].holds = @ \union some]
  PROVE  /\ FilesAre' /\ DOMAIN files' = DOMAIN files
         /\ \A p \in DOMAIN files : /\ files'[p].size = files[p].size /\ files'[p].back = files[p].back
                                    /\ files[p].holds \subseteq files'[p].holds
<1> DEFINE r == files[path]
<1>1. r = [holds |-> r.holds, back |-> r.back, size |-> r.size] /\ r.size \in Nat
  BY DEF FilesAre, IsFile, File
<1>2. files' = [files EXCEPT ![path] = [r EXCEPT !.holds = @ \union some]]
  OBVIOUS
<1> HIDE DEF r
<1>3. [r EXCEPT !.holds = @ \union some] = File(r.holds \union some, r.back, r.size)
  BY <1>1 DEF File
<1>4. files' = [p \in DOMAIN files |-> IF p = path THEN File(r.holds \union some, r.back, r.size) ELSE files[p]]
  BY <1>2, <1>3 DEF FilesAre
<1> DEFINE w == File(r.holds \union some, r.back, r.size)
<1>5. IsFile(w) /\ w.holds = r.holds \union some /\ w.back = r.back /\ w.size = r.size
  BY <1>1, FileIs
<1> HIDE DEF w
<1>6. /\ DOMAIN files' = DOMAIN files /\ files'[path] = w
      /\ \A p \in DOMAIN files \ {path} : files'[p] = files[p]
  BY <1>4 DEF w
<1>7. \A p \in DOMAIN files : IsFile(files[p])
  BY DEF FilesAre
<1>8. FilesAre'
  BY <1>4, <1>5, <1>6, <1>7 DEF FilesAre
<1> QED  BY <1>5, <1>6, <1>8 DEF r

\* What the steps of an operation and the daemon do to the files.
LEMMA FilesStep ==
  ASSUME FilesInv, DisksFit, OfflineInv, Next
  PROVE  FilesAre'
<1>2. CASE UNCHANGED files
  BY <1>2 DEF FilesInv, FilesAre
<1>3. CASE Requests
  <2>1. \/ UNCHANGED files
        \/ \E path : files' = With(path, File({}, NoPath, 0))
        \/ \E path : \E source \in DOMAIN files : files' = With(path, files[source])
    BY <1>3 DEF Requests, CreateDisk, CreateLayer, DiskImport, AttachDisk, DetachDisk, DeleteActive, Asks, DiskMerge,
                ResizeDisk, DiskRename, DiskDelete, SetDesired
  <2>2. IsFile(File({}, NoPath, 0)) /\ \A source \in DOMAIN files : IsFile(files[source])
    BY FileIs DEF FilesInv, FilesAre
  <2> QED  BY <1>2, <2>1, <2>2, FilesWith DEF FilesInv
<1>4. CASE QemuWorks
  <2>1. CASE job.kind = "create" /\ files' = With(job.path, File({}, NoPath, job.size))
    BY <1>4, <2>1, FileIs, FilesWith DEF FilesInv, QemuWorks
  <2>2. CASE job.kind = "layer" /\ files' = With(job.path, File({}, job.from, files[job.from].size))
    <3>1. files[job.from].size \in Nat
      BY <1>4, <2>2 DEF QemuWorks, QemuCan, FilesInv, FilesAre, IsFile
    <3> QED  BY <2>2, <3>1, FileIs, FilesWith DEF FilesInv
  <2>3. CASE job.kind = "merge" /\ Commits(files[job.path].holds)
    BY <1>4, <2>3, CommitsFile DEF QemuWorks, QemuCan, FilesInv
  <2>4. CASE job.kind = "resize" /\ files' = [files EXCEPT ![job.path].size = job.size]
    BY <1>4, <2>4, FilesSized DEF QemuWorks, QemuCan, FilesInv
  <2> QED  BY <1>4, <2>1, <2>2, <2>3, <2>4 DEF QemuWorks
<1>5. CASE QemuFails
  <2>1. CASE files' = Without(job.path)
    BY <2>1, FilesWith DEF FilesInv
  <2>2. ASSUME NEW some, Layered(job.path), Commits(some) PROVE FilesAre'
    BY <2>2, CommitsFile DEF FilesInv
  <2> QED  BY <1>2, <1>5, <2>1, <2>2 DEF QemuFails
<1>6. CASE Unlink
  BY <1>6, FilesWith DEF Unlink, FilesInv
<1>7. CASE MoveAside
  BY <1>2, <1>7, FilesWith DEF MoveAside, FilesInv
<1>8. CASE After
  <2>1. UNCHANGED files \/ (\E path : files' = Without(path)) \/ \E from \in DOMAIN files : \E to : files' = Moved(from, to)
    BY <1>8 DEF After, Saved, NotSaved, PutAway, PutBack
  <2> QED  BY <1>2, <2>1, FilesWith DEF FilesInv
<1>9. CASE Writes
  BY <1>9, FilesWritten DEF Writes, FilesInv
<1>10. \/ UNCHANGED files
       \/ Requests \/ QemuWorks \/ QemuFails \/ Unlink \/ MoveAside \/ After \/ Writes
  BY DEF Next, Operation, Works, ReadStates, CheckOffline, Change, ChangeBack, Saving, Killed, Restarted, diskVars, Daemon,
         LoadsLab, PassEnds, Starts, Stops
<1> QED  BY <1>2, <1>3, <1>4, <1>5, <1>6, <1>7, <1>8, <1>9, <1>10

\* How a job goes on: it is the same, with another place, answer or lab of
\* before, or it is over, or the delete that follows a detach.
LEMMA JobStep ==
  ASSUME OfflineInv, Next, ~Requests
  PROVE  \/ step' = "none"
         \/ /\ IsJob(job') /\ job'.kind = job.kind /\ job'.id = job.id /\ job'.path = job.path /\ job'.size = job.size
            /\ job'.to = job.to /\ job'.then = job.then /\ job'.had = job.had /\ step # "none"
         \/ step = "saving" /\ step' = "aside" /\ \E d : job' = [Deletion(d) EXCEPT !.had = job.had]
<1>1. IsJob(job)
  BY DEF OfflineInv, HeldJob
<1>2. CASE UNCHANGED <<job, step>>
  BY <1>1, <1>2
<1>3. CASE ReadStates
  <2>1. CASE job' = [job EXCEPT !.stopped = job.at \notin DOMAIN running, !.told = Told(job.at)]
    BY <1>1, <1>3, <2>1 DEF ReadStates, IsJob, JobFields
  <2> QED  BY <1>3, <2>1 DEF ReadStates
<1>4. CASE Over \/ (step # "none" /\ UNCHANGED job) \/ Killed
  BY <1>1, <1>4 DEF Over, Killed
<1>5. CASE MoveAside
  <2>1. ASSUME NEW b, job' = [job EXCEPT !.from = b] PROVE Alike(job', job) /\ job'.size = job.size /\ job'.then = job.then
    BY <1>1, <2>1, JobChanged
  <2> QED  BY <1>4, <1>5, <2>1 DEF MoveAside, Goes, Alike
<1>6. CASE ChangeBack
  <2>1. job' = [job EXCEPT !.back = NoLab] /\ step = "again"
    BY <1>6 DEF ChangeBack
  <2> QED  BY <1>1, <2>1 DEF IsJob, JobFields
<1>7. CASE After
  BY <1>4, <1>7 DEF After, Saved, NotSaved, Goes
<1>8. CASE CheckOffline \/ QemuWorks \/ QemuFails \/ Unlink \/ Change \/ Saving
  BY <1>2, <1>4, <1>8 DEF CheckOffline, QemuWorks, QemuFails, Unlink, Change, Saving, Goes
<1>9. CASE Restarted \/ Daemon
  BY <1>2, <1>9 DEF Restarted, diskVars, Daemon, LoadsLab, PassEnds, Starts, Stops, Writes, DaemonOnly
<1> QED  BY <1>3, <1>4, <1>5, <1>6, <1>7, <1>8, <1>9 DEF Next, Operation, Works

LEMMA KindOf ==
  ASSUME NEW kind, NEW id, NEW path, NEW to, NEW x
  PROVE  LET j == Job(kind, id, path, to)
         IN  /\ j.kind = kind /\ [j EXCEPT !.from = x].kind = kind
             /\ [j EXCEPT !.then = x].kind = kind /\ [j EXCEPT !.at = x].kind = kind
<1> DEFINE j == Job(kind, id, path, to)
<1>1. IsJob(j) /\ j.kind = kind
  BY JobHolds
<1> HIDE DEF j
<1>2. Alike([j EXCEPT !.from = x], j) /\ Alike([j EXCEPT !.then = x], j) /\ Alike([j EXCEPT !.at = x], j)
  BY <1>1, JobChanged
<1>3. j.kind = kind /\ [j EXCEPT !.from = x].kind = kind /\ [j EXCEPT !.then = x].kind = kind /\ [j EXCEPT !.at = x].kind = kind
  BY <1>1, <1>2 DEF Alike
<1> QED  BY <1>3 DEF j

LEMMA FilesKept == ASSUME FilesInv, DisksFit, OfflineInv, Next PROVE FilesInv'
<1>1. FilesAre'
  BY FilesStep
<1>2. CASE Requests
  <2>1. ASSUME NEW id, NEW at, NEW size \in Sizes, CreateDisk(id, at, size) PROVE job'.size \in Nat
    <3> DEFINE j == Job("create", id, Storage(id), Registers(NewDisk(id, Storage(id), "base", None, at, size)))
    <3>1. job' = [j EXCEPT !.size = size] /\ IsJob(j)
      BY <2>1, JobHolds DEF CreateDisk, Request
    <3> HIDE DEF j
    <3>2. job'.size = size
      BY <3>1, JobChanged
    <3> QED  BY <3>2 DEF DisksFit
  <2>2. ASSUME NEW id, NEW size \in Sizes, NEW force, ResizeDisk(id, size, force) PROVE job'.size \in Nat
    <3> DEFINE d == DiskWith(id)
               i == Job("resize", id, d.path, [cur EXCEPT !.disks = (@ \ {d}) \union {[d EXCEPT !.size = size]}])
               shrinks == d.size > 0 /\ size < d.size
               k == [i EXCEPT !.size = size, !.shrinks = shrinks, !.back = cur]
    <3>1. job' = [k EXCEPT !.at = d.at] /\ IsJob(i)
      BY <2>2, JobHolds DEF ResizeDisk, Asks, Request
    <3> HIDE DEF i, shrinks, d
    <3>2. IsJob(k) /\ k.size = size
      BY <3>1 DEF IsJob, JobFields
    <3> HIDE DEF k
    <3>3. job'.size = size
      BY <3>1, <3>2, JobChanged
    <3> QED  BY <3>3 DEF DisksFit
  <2>3. CASE \/ \E base, id, at : CreateLayer(base, id, at)
             \/ \E source, id : DiskImport(source, id)
             \/ \E id : (\E at : AttachDisk(id, at)) \/ (\E new : DiskRename(id, new)) \/ DiskMerge(id) \/ DiskDelete(id)
             \/ \E at : DetachDisk(at) \/ DeleteActive(at) \/ \E state : SetDesired(at, state)
    <3>1. ASSUME NEW base, NEW id, NEW at, CreateLayer(base, id, at) PROVE job'.kind = "layer"
      BY <3>1, KindOf DEF CreateLayer, Request
    <3>2. ASSUME NEW source, NEW id, DiskImport(source, id) PROVE job'.kind = "import"
      BY <3>2, KindOf DEF DiskImport, Request
    <3>3. ASSUME NEW id, NEW at, AttachDisk(id, at) PROVE job'.kind = "edit"
      BY <3>3, KindOf DEF AttachDisk, Request
    <3>4. ASSUME NEW id, NEW new, DiskRename(id, new) PROVE job'.kind = "edit"
      <4> DEFINE to == [cur EXCEPT !.disks = {[d EXCEPT !.id = IF @ = id THEN new ELSE @,
                                                        !.base = IF @ = id THEN new ELSE @] : d \in @}]
      <4>1. job' = Job("edit", id, NoPath, to)
        BY <3>4 DEF DiskRename, Request
      <4> HIDE DEF to
      <4> QED  BY <4>1, KindOf
    <3>5. ASSUME NEW id, DiskMerge(id) PROVE job'.kind = "merge"
      BY <3>5, KindOf DEF DiskMerge, Asks, Request
    <3>6. ASSUME NEW id, DiskDelete(id) PROVE job'.kind = "delete"
      BY <3>6, KindOf DEF DiskDelete, Deletion, Request
    <3>7. ASSUME NEW at, DetachDisk(at) \/ DeleteActive(at) PROVE job'.kind = "edit"
      <4> DEFINE to == DetachActive(cur, at)
      <4>1. CASE DetachDisk(at)
        <5>1. job' = Job("edit", None, NoPath, to)
          BY <4>1 DEF DetachDisk, Request
        <5> HIDE DEF to
        <5> QED  BY <5>1, KindOf
      <4>2. CASE DeleteActive(at)
        <5>1. PICK d : job' = [Job("edit", d.id, NoPath, to) EXCEPT !.then = d.id]
          BY <4>2 DEF DeleteActive, Request
        <5> HIDE DEF to
        <5> QED  BY <5>1, KindOf
      <4> QED  BY <3>7, <4>1, <4>2
    <3>8. ASSUME NEW at, NEW state, SetDesired(at, state) PROVE job'.kind = "edit"
      <4> DEFINE to == [cur EXCEPT !.work = {IF At(w) = at THEN [w EXCEPT !.desired = state] ELSE w : w \in @}]
      <4>1. job' = Job("edit", None, NoPath, to)
        BY <3>8 DEF SetDesired, Request
      <4> HIDE DEF to
      <4> QED  BY <4>1, KindOf
    <3>9. job'.kind \notin {"create", "resize"}
      BY <2>3, <3>1, <3>2, <3>3, <3>4, <3>5, <3>6, <3>7, <3>8
    <3> QED  BY <1>1, <3>9 DEF FilesInv
  <2>4. \/ \E id, at : \E size \in Sizes : CreateDisk(id, at, size)
        \/ \E id : \E size \in Sizes : \E force : ResizeDisk(id, size, force)
        \/ \/ \E base, id, at : CreateLayer(base, id, at)
           \/ \E source, id : DiskImport(source, id)
           \/ \E id : (\E at : AttachDisk(id, at)) \/ (\E new : DiskRename(id, new)) \/ DiskMerge(id) \/ DiskDelete(id)
           \/ \E at : DetachDisk(at) \/ DeleteActive(at) \/ \E state : SetDesired(at, state)
    BY <1>2 DEF Requests
  <2> QED  BY <1>1, <2>1, <2>2, <2>3, <2>4 DEF FilesInv
<1>3. CASE ~Requests
  <2>1. ASSUME NEW d, job' = [Deletion(d) EXCEPT !.had = job.had] PROVE job'.kind = "delete"
    <3>1. IsJob(Deletion(d)) /\ Deletion(d).kind = "delete"
      BY JobHolds DEF Deletion
    <3> QED  BY <2>1, <3>1 DEF IsJob, JobFields
  <2> QED  BY <1>1, <1>3, <2>1, JobStep DEF FilesInv
<1> QED  BY <1>2, <1>3

\* An operation that gives up before it has put a file aside leaves what it found.
LEMMA StopsEarly ==
  ASSUME FitInv, ~hurt, step \notin {"none", "saving"}, job.kind # "resize" \/ step \in {"ask", "check", "change"},
         job.kind \in {"create", "layer"} => step \in {"qemu", "change"},
         UNCHANGED <<file, cur>>, step' = "none",
         \/ files' = files /\ step # "change"
         \/ /\ job.kind \in {"create", "layer", "import"} /\ files' = Without(job.path)
  PROVE  (RestsFit /\ WorksFit /\ SavesFit)'
<1>1. cur.disks = file.disks /\ (job.kind = "resize" => PlanSize(cur.disks)) /\ (job.kind # "resize" => Plan(cur.disks))
  BY DEF FitInv, WorksFit, PlanSize
<1>2. Good(cur.disks) /\ Fits(cur.disks, files')
  <2>1. CASE job.kind = "resize"
    BY <1>1, <2>1 DEF PlanSize
  <2>2. CASE job.kind # "resize" /\ files' = files /\ step # "change"
    BY <1>1, <2>2 DEF Plan, Undone, Moves
  <2>3. CASE job.kind \in {"create", "layer", "import"} /\ files' = Without(job.path)
    <3>1. Good(cur.disks) /\ Fits(cur.disks, files) /\ job.path \notin Paths(cur.disks)
      BY <1>1, <2>3 DEF Plan, Undone, Moves
    <3> QED  BY <2>3, <3>1 DEF Fits, Without, Paths
  <2> QED  BY <2>1, <2>2, <2>3
<1> QED  BY <1>1, <1>2 DEF RestsFit, WorksFit, SavesFit

LEMMA ChecksFit == ASSUME OfflineInv, FitInv, ReadStates \/ CheckOffline PROVE FitInv'
<1> SUFFICES ASSUME ~hurt' PROVE (RestsFit /\ WorksFit /\ SavesFit)'
  BY DEF FitInv
<1>1. step \in {"ask", "check"} /\ UNCHANGED <<file, cur, files, hurt>>
  BY DEF ReadStates, CheckOffline, Fine, sessionVars
<1>2. CASE step' = "none"
  <2>1. job.kind # "create" /\ job.kind # "layer"
    BY <1>1 DEF FitInv, WorksFit, Plan, Moves
  <2> QED  BY <1>1, <1>2, <2>1, StopsEarly
<1>3. CASE ReadStates /\ step' = "check"
  <2>1. /\ job'.kind = job.kind /\ job'.to = job.to /\ job'.path = job.path /\ job'.from = job.from /\ job'.size = job.size
        /\ job'.then = job.then /\ job'.back = job.back
    <3>1. IsJob(job) /\ job' = [job EXCEPT !.stopped = job.at \notin DOMAIN running, !.told = Told(job.at)]
      BY <1>3 DEF ReadStates, OfflineInv, HeldJob
    <3> QED  BY <3>1 DEF IsJob, JobFields
  <2>2. CASE job.kind = "resize"
    BY <1>1, <1>3, <2>1, <2>2 DEF FitInv, WorksFit, PlanSize, RestsFit, SavesFit
  <2>3. CASE job.kind # "resize"
    BY <1>1, <1>3, <2>1, <2>3 DEF FitInv, WorksFit, Plan, Moves, Undone, RestsFit, SavesFit, Moved
  <2> QED  BY <2>2, <2>3
<1>4. CASE CheckOffline /\ UNCHANGED job /\ step' = (IF job.kind = "merge" THEN "qemu" ELSE "change")
  <2>1. CASE job.kind = "resize"
    BY <1>1, <1>4, <2>1 DEF FitInv, WorksFit, PlanSize, RestsFit, SavesFit
  <2>2. CASE job.kind = "merge"
    BY <1>1, <1>4, <2>2 DEF FitInv, WorksFit, Plan, Moves, Undone, RestsFit, SavesFit, Moved
  <2>3. job.kind \in {"merge", "resize"}
    BY <1>1, <1>4 DEF CheckOffline, FitInv, WorksFit, Plan, Moves
  <2> QED  BY <2>1, <2>2, <2>3
<1> QED  BY <1>1, <1>2, <1>3, <1>4 DEF ReadStates, CheckOffline, Goes, Over

\* Files that only grow, at the same places, stay those of the disks.
LEMMA GrownFit ==
  ASSUME FilesAre, FilesAre', FitInv, ~hurt, UNCHANGED <<sessionVars, job>>,
         step' = step \/ (job.kind = "merge" /\ step = "qemu" /\ step' = "aside"),
         DOMAIN files' = DOMAIN files,
         \A p \in DOMAIN files : files'[p].back = files[p].back /\ files[p].size <= files'[p].size
  PROVE  (RestsFit /\ WorksFit /\ SavesFit)'
<1>1. \A p \in DOMAIN files : files[p].size \in Nat /\ files'[p].size \in Nat
  BY DEF FilesAre, IsFile
<1>2. ASSUME NEW disks, Good(disks)
      PROVE  /\ Fits(disks, files) => Fits(disks, files')
             /\ (Moves /\ job.from # NoPath => job.from \in DOMAIN files) /\ Fits(disks, Undone) => Fits(disks, Undone')
             /\ \A path : Fits(disks, [files EXCEPT ![path].size = job.size])
                            => Fits(disks, [files' EXCEPT ![path].size = job.size])
             /\ \A path, f : Fits(disks, With(path, f)) => Fits(disks, With(path, f)')
  <2>0. \A d \in disks : d.size \in Nat
    BY <1>2 DEF Good, IsDisk
  <2>1. Fits(disks, files) => Fits(disks, files')
    BY <1>1, <2>0 DEF Fits
  <2>2. ASSUME Moves /\ job.from # NoPath => job.from \in DOMAIN files, Fits(disks, Undone)
        PROVE  Fits(disks, Undone')
    <3>1. job' = job
      OBVIOUS
    <3>2. CASE Moves /\ job.from # NoPath
      <4>1. ASSUME NEW d \in disks
            PROVE  d.path \in DOMAIN Moved(job.from, job.path) /\ d.size <= Moved(job.from, job.path)[d.path].size
        BY <2>2, <3>2, <4>1 DEF Fits, Undone
      <4>2. Undone = Moved(job.from, job.path) /\ Undone' = Moved(job.from, job.path)'
        BY <3>1, <3>2 DEF Undone, Moves
      <4>3. ASSUME NEW p \in DOMAIN Undone
            PROVE  /\ p \in DOMAIN Undone' /\ Undone'[p].back = Undone[p].back
                   /\ Undone[p].size \in Nat /\ Undone'[p].size \in Nat /\ Undone[p].size <= Undone'[p].size
        BY <1>1, <2>2, <3>1, <3>2, <4>2 DEF Moved
      <4> HIDE DEF Undone
      <4> QED  BY <2>0, <2>2, <4>3 DEF Fits
    <3>3. CASE ~(Moves /\ job.from # NoPath)
      BY <2>1, <2>2, <3>1, <3>3 DEF Undone, Moves
    <3> QED  BY <3>2, <3>3
  <2>3. ASSUME NEW path, Fits(disks, [files EXCEPT ![path].size = job.size])
        PROVE  Fits(disks, [files' EXCEPT ![path].size = job.size])
    <3> DEFINE f == [files EXCEPT ![path].size = job.size]
               g == [files' EXCEPT ![path].size = job.size]
    <3>1. ASSUME NEW p \in DOMAIN files
          PROVE  /\ g[p].back = files'[p].back /\ f[p].back = files[p].back
                 /\ IF p = path THEN f[p].size = job.size /\ g[p].size = job.size
                    ELSE f[p].size = files[p].size /\ g[p].size = files'[p].size
      BY DEF FilesAre, IsFile, File
    <3>2. DOMAIN f = DOMAIN files /\ DOMAIN g = DOMAIN files
      OBVIOUS
    <3> HIDE DEF f, g
    <3>3. Fits(disks, g)
      BY <1>1, <2>0, <2>3, <3>1, <3>2 DEF Fits, f
    <3> QED  BY <3>3 DEF g
  <2>4. ASSUME NEW path, NEW f, Fits(disks, With(path, f)) PROVE Fits(disks, With(path, f)')
    <3> DEFINE h == With(path, f)
    <3>1. DOMAIN h = DOMAIN h' /\ \A p \in DOMAIN h : IF p = path THEN h'[p] = h[p] ELSE h[p] = files[p] /\ h'[p] = files'[p]
      BY DEF With
    <3>2. \A p \in DOMAIN h : p # path => p \in DOMAIN files
      BY DEF With
    <3> HIDE DEF h
    <3>3. Fits(disks, h')
      BY <1>1, <2>0, <2>4, <3>1, <3>2 DEF Fits, h
    <3> QED  BY <3>3 DEF h
  <2> QED  BY <2>1, <2>2, <2>3, <2>4
<1>3. /\ cur' = cur /\ file' = file /\ temp' = temp /\ snap' = snap /\ phase' = phase /\ result' = result
      /\ job' = job
  BY DEF sessionVars
<1>4. ASSUME NEW old, PlanSize(old)
      PROVE  /\ Good(old) /\ Good(job.to.disks) /\ Fits(old, files') /\ job.path \in DOMAIN files'
             /\ Fits(job.to.disks, [files' EXCEPT ![job.path].size = job.size])
  BY <1>2, <1>4 DEF PlanSize
<1>5. ASSUME NEW old, Plan(old)
      PROVE  /\ Fits(old, Undone') /\ (Fits(job.to.disks, files) => Fits(job.to.disks, files'))
             /\ \A path, f : Fits(job.to.disks, With(path, f)) => Fits(job.to.disks, With(path, f)')
  <2>1. Moves /\ job.from # NoPath => job.from \in DOMAIN files
    BY <1>5 DEF Plan, Moves
  <2> QED  BY <1>2, <1>5, <2>1 DEF Plan
<1>6. CASE step = "none"
  <2>1. Good(file.disks) /\ Fits(file.disks, files') /\ (phase = "idle" => cur.disks = file.disks)
    BY <1>2, <1>6 DEF FitInv, RestsFit
  <2> QED  BY <1>3, <1>6, <2>1 DEF RestsFit, WorksFit, SavesFit
<1>7. CASE step = "saving"
  <2>1. CASE BacksOut
    <3>1. (phase = "done" => result = "ok") => Fits(cur.disks, files')
      BY <1>2, <1>7, <2>1 DEF FitInv, SavesFit, CourseBack
    <3> QED  BY <1>3, <1>7, <2>1, <3>1 DEF FitInv, RestsFit, WorksFit, SavesFit, CourseBack, BacksOut
  <2>2. CASE ~BacksOut /\ job.kind = "resize"
    <3>1. PlanSize(snap.disks)'
      BY <1>3, <1>4, <1>7, <2>2 DEF FitInv, SavesFit, PlanSize
    <3> QED  BY <1>3, <1>7, <2>2, <3>1 DEF FitInv, RestsFit, WorksFit, SavesFit, Course, BacksOut
  <2>3. CASE ~BacksOut /\ job.kind # "resize"
    <3>1. Plan(snap.disks)'
      BY <1>3, <1>5, <1>7, <2>3 DEF FitInv, SavesFit, Plan, Moves
    <3> QED  BY <1>3, <1>7, <2>3, <3>1 DEF FitInv, RestsFit, WorksFit, SavesFit, Course, BacksOut
  <2> QED  BY <2>1, <2>2, <2>3
<1>8. CASE step \notin {"none", "saving"}
  <2>1. CASE job.kind = "resize"
    <3>1. PlanSize(job.back.disks)'
      BY <1>3, <1>4, <1>8, <2>1 DEF FitInv, WorksFit, PlanSize
    <3> QED  BY <1>3, <1>8, <2>1, <3>1 DEF FitInv, RestsFit, WorksFit, SavesFit
  <2>2. CASE job.kind # "resize"
    <3>1. Plan(cur.disks)'
      <4>1. Plan(cur.disks)
        BY <1>8, <2>2 DEF FitInv, WorksFit
      <4> QED  BY <1>3, <1>5, <1>8, <2>2, <4>1 DEF Plan, Moves
    <3> QED  BY <1>3, <1>8, <2>2, <3>1 DEF FitInv, RestsFit, WorksFit, SavesFit
  <2> QED  BY <2>1, <2>2
<1> QED  BY <1>6, <1>7, <1>8

LEMMA QemuFits == ASSUME FilesInv, FilesInv', FitInv, QemuWorks \/ QemuFails PROVE FitInv'
<1> SUFFICES ASSUME ~hurt' PROVE (RestsFit /\ WorksFit /\ SavesFit)'
  BY DEF FitInv
<1>1. /\ step = "qemu" /\ UNCHANGED <<sessionVars, hurt>> /\ FilesAre /\ FilesAre'
      /\ file' = file /\ cur' = cur
  BY DEF QemuWorks, QemuFails, Fine, sessionVars, FilesInv
<1>2. cur.disks = file.disks /\ (job.kind # "resize" => Plan(cur.disks))
      /\ (job.kind = "resize" => PlanSize(job.back.disks) /\ cur.disks = job.to.disks /\ job.back # NoLab)
  BY <1>1 DEF FitInv, WorksFit
<1>3. CASE job.kind = "create" /\ QemuWorks
  <2>1. files' = With(job.path, File({}, NoPath, job.size)) /\ UNCHANGED job /\ step' = "change"
    BY <1>3 DEF QemuWorks, Goes
  <2>2. Plan(cur.disks)'
    <3>1. /\ Fits(cur.disks, files) /\ job.path \notin Paths(cur.disks) /\ Fits(job.to.disks, files')
          /\ Good(cur.disks) /\ Good(job.to.disks) /\ job.then = None /\ job.size \in Nat
      BY <1>1, <1>2, <1>3, <2>1 DEF Plan, Moves, Undone
    <3>2. Fits(cur.disks, files')
      BY <2>1, <3>1, FitsWith
    <3> QED  BY <1>1, <1>3, <2>1, <3>1, <3>2 DEF Plan, Moves, Undone
  <2> QED  BY <1>1, <1>2, <1>3, <2>1, <2>2 DEF RestsFit, WorksFit, SavesFit
<1>4. CASE job.kind = "layer" /\ QemuWorks
  <2>1. /\ files' = With(job.path, File({}, job.from, files[job.from].size)) /\ UNCHANGED job /\ step' = "change"
        /\ files[job.from].size \in Nat
    BY <1>1, <1>4 DEF QemuWorks, QemuCan, Goes, FilesAre, IsFile
  <2>2. Plan(cur.disks)'
    <3>1. /\ Fits(cur.disks, files) /\ job.path \notin Paths(cur.disks) /\ Fits(job.to.disks, files')
          /\ Good(cur.disks) /\ Good(job.to.disks) /\ job.then = None
      BY <1>1, <1>2, <1>4, <2>1 DEF Plan, Moves, Undone
    <3>2. Fits(cur.disks, files')
      BY <2>1, <3>1, FitsWith
    <3> QED  BY <1>1, <1>4, <2>1, <3>1, <3>2 DEF Plan, Moves, Undone
  <2> QED  BY <1>1, <1>2, <1>4, <2>1, <2>2 DEF RestsFit, WorksFit, SavesFit
<1>5. CASE job.kind = "resize" /\ QemuWorks
  <2>1. files' = [files EXCEPT ![job.path].size = job.size] /\ step' = "none"
    BY <1>5 DEF QemuWorks, Over
  <2>2. Good(file.disks) /\ Fits(file.disks, files')
    BY <1>2, <1>5, <2>1 DEF PlanSize
  <2> QED  BY <1>1, <1>2, <2>1, <2>2 DEF RestsFit, WorksFit, SavesFit
<1>6. CASE job.kind = "resize" /\ QemuFails
  <2>1. UNCHANGED <<files, job>> /\ step' = "again"
    BY <1>6 DEF QemuFails, Goes
  <2>2. PlanSize(job.back.disks)'
    BY <1>2, <1>6, <2>1 DEF PlanSize
  <2> QED  BY <1>1, <1>2, <1>6, <2>1, <2>2 DEF RestsFit, WorksFit, SavesFit
<1>7. CASE job.kind \in {"create", "layer"} /\ QemuFails
  <2>1. files' = Without(job.path) /\ step' = "none"
    BY <1>7 DEF QemuFails, Over
  <2> QED  BY <1>1, <1>7, <2>1, StopsEarly
<1>8. CASE job.kind = "merge"
  <2>1. ASSUME NEW some, Layered(job.path), Commits(some)
        PROVE  /\ DOMAIN files' = DOMAIN files
               /\ \A p \in DOMAIN files : files'[p].back = files[p].back /\ files[p].size <= files'[p].size
    BY <1>1, <2>1, CommitsFile
  <2>2. CASE QemuWorks
    <3>1. UNCHANGED job /\ step' = "aside" /\ Layered(job.path) /\ Commits(files[job.path].holds)
      BY <1>8, <2>2 DEF QemuWorks, QemuCan, Goes
    <3> QED  BY <1>1, <1>8, <2>1, <3>1, GrownFit
  <2>3. CASE QemuFails
    <3>1. step' = "none" /\ (UNCHANGED files \/ \E some : Layered(job.path) /\ Commits(some))
      BY <1>8, <2>3 DEF QemuFails, Over
    <3>2. \A d \in cur.disks : d.size \in Nat
      BY <1>2, <1>8 DEF Plan, Good, IsDisk
    <3>3. Good(cur.disks) /\ Fits(cur.disks, files)
      BY <1>1, <1>2, <1>8 DEF Plan, Undone, Moves
    <3>4. Fits(cur.disks, files')
      <4>1. CASE UNCHANGED files
        BY <3>3, <4>1
      <4>2. ASSUME NEW some, Layered(job.path), Commits(some) PROVE Fits(cur.disks, files')
        <5>1. \A p \in DOMAIN files : files[p].size \in Nat /\ (p \in DOMAIN files' => files'[p].size \in Nat)
          BY <1>1 DEF FilesAre, IsFile
        <5> QED  BY <2>1, <3>2, <3>3, <4>2, <5>1 DEF Fits
      <4> QED  BY <3>1, <4>1, <4>2
    <3> QED  BY <1>1, <1>2, <3>1, <3>3, <3>4 DEF RestsFit, WorksFit, SavesFit
  <2> QED  BY <2>2, <2>3
<1> QED  BY <1>3, <1>4, <1>5, <1>6, <1>7, <1>8 DEF QemuWorks, QemuFails

LEMMA UnlinkFits == ASSUME FitInv, Unlink PROVE FitInv'
<1> SUFFICES ASSUME ~hurt' PROVE (RestsFit /\ WorksFit /\ SavesFit)'
  BY DEF FitInv
<1>1. step = "unlink" /\ UNCHANGED <<sessionVars, hurt>> /\ file' = file /\ cur' = cur
  BY DEF Unlink, Fine, sessionVars
<1>2. /\ cur.disks = file.disks /\ job.kind = "import" /\ Plan(cur.disks)
  BY <1>1 DEF FitInv, WorksFit, Plan, PlanSize, Moves
<1>3. CASE files' = Without(job.from) /\ Goes("change")
  <2>1. /\ Fits(cur.disks, files) /\ Fits(job.to.disks, files)
        /\ job.from \notin Paths(cur.disks) /\ job.from \notin Paths(job.to.disks)
    BY <1>1, <1>2 DEF Plan, Undone, Moves
  <2>2. Fits(cur.disks, files') /\ Fits(job.to.disks, files')
    BY <1>3, <2>1 DEF Fits, Without, Paths
  <2>3. Plan(cur.disks)'
    BY <1>1, <1>2, <1>3, <2>2 DEF Plan, Goes, Undone, Moves
  <2> QED  BY <1>1, <1>2, <1>3, <2>3 DEF RestsFit, WorksFit, SavesFit, Goes
<1>4. CASE files' = Without(job.path) /\ Over
  BY <1>1, <1>2, <1>4, StopsEarly DEF Over
<1> QED  BY <1>3, <1>4 DEF Unlink

LEMMA AsideFits == ASSUME OfflineInv, FilesAre, DisksFit, FitInv, MoveAside PROVE FitInv'
<1> SUFFICES ASSUME ~hurt' PROVE (RestsFit /\ WorksFit /\ SavesFit)'
  BY DEF FitInv
<1>1. step = "aside" /\ UNCHANGED <<sessionVars, hurt>> /\ file' = file /\ cur' = cur
  BY DEF MoveAside, Fine, sessionVars
<1>2. cur.disks = file.disks /\ Moves /\ Plan(cur.disks)
  BY <1>1 DEF FitInv, WorksFit, Plan, PlanSize
<1>3. Fits(cur.disks, files) /\ job.from = NoPath /\ job.path \in Paths(cur.disks) /\ Fits(job.to.disks, files)
      /\ job.path \notin Paths(job.to.disks) /\ job.path \in DOMAIN files
  BY <1>1, <1>2 DEF Plan, Undone, Moves, Fits, Paths
<1>4. ASSUME NEW b \in Backups \ DOMAIN files, files' = Moved(job.path, b), job' = [job EXCEPT !.from = b], step' = "change"
      PROVE  (RestsFit /\ WorksFit /\ SavesFit)'
  <2>1. /\ job'.kind = job.kind /\ job'.path = job.path /\ job'.to = job.to /\ job'.then = job.then /\ job'.from = b
    <3>1. IsJob(job)
      BY DEF OfflineInv, HeldJob
    <3>2. job' = [job EXCEPT !.from = b]
      BY <1>4
    <3>3. job'.from = b
      BY <3>1, <3>2 DEF IsJob, JobFields
    <3>4. Alike(job', job) /\ job'.then = job.then
      BY <3>1, <3>2, JobChanged
    <3> QED  BY <3>3, <3>4 DEF Alike
  <2>2. b # NoPath /\ b # job.path /\ b \in DOMAIN files' /\ b \notin Paths(cur.disks)
    BY <1>3, <1>4 DEF DisksFit, Moved, Fits, Paths
  <2>3. Fits(job.to.disks, files')
    BY <1>3, <1>4 DEF Fits, Moved, Paths
  <2>4. Fits(cur.disks, Undone')
    <3>1. Undone' = Moved(b, job.path)'
      BY <1>2, <2>1, <2>2 DEF Undone, Moves
    <3>2. \A p \in DOMAIN files : p \in DOMAIN (Moved(b, job.path)') /\ (Moved(b, job.path)')[p] = files[p]
      BY <1>3, <1>4, <2>1, <2>2 DEF Moved
    <3> QED  BY <1>3, <3>1, <3>2 DEF Fits
  <2>5. Plan(cur.disks)'
    BY <1>1, <1>2, <1>3, <1>4, <2>1, <2>2, <2>3, <2>4 DEF Plan, Moves
  <2>6. job'.kind # "resize"
    BY <1>2, <2>1 DEF Moves
  <2> QED  BY <1>1, <1>2, <1>4, <2>5, <2>6 DEF RestsFit, WorksFit, SavesFit
<1>5. CASE Over /\ UNCHANGED files
  <2>1. job.kind \notin {"create", "layer", "resize"}
    BY <1>2 DEF Moves
  <2> QED  BY <1>1, <1>5, <2>1, StopsEarly DEF Over
<1> QED  BY <1>3, <1>4, <1>5 DEF MoveAside

LEMMA ChangesFit == ASSUME LabsAreLabs, OfflineInv, FitInv, Change \/ ChangeBack PROVE FitInv'
<1> SUFFICES ASSUME ~hurt' PROVE (RestsFit /\ WorksFit /\ SavesFit)'
  BY DEF FitInv
<1>1. CASE Change
  <2>1. /\ step = "change" /\ step' = "saving" /\ UNCHANGED <<job, files, file>> /\ cur' = job.to /\ ~hurt
        /\ snap' = cur /\ phase' = "save" /\ phase = "idle"
    BY <1>1 DEF Change, Begin, Goes, Fine
  <2>2. cur # NoLab
    BY <2>1 DEF OfflineInv, HeldLabs, LabsAreLabs
  <2>3. Course(snap.disks, job.to.disks)'
    BY <2>1 DEF FitInv, WorksFit, Course
  <2>4. CASE job.kind = "resize"
    <3>1. job.back # NoLab /\ PlanSize(job.back.disks) /\ cur.disks = job.back.disks
      BY <2>1, <2>4 DEF FitInv, WorksFit
    <3>2. PlanSize(snap.disks)'
      BY <2>1, <3>1 DEF PlanSize
    <3> QED  BY <2>1, <2>2, <2>3, <2>4, <3>1, <3>2 DEF RestsFit, WorksFit, SavesFit, BacksOut
  <2>5. CASE job.kind # "resize"
    <3>1. Plan(cur.disks)
      BY <2>1, <2>5 DEF FitInv, WorksFit
    <3>2. Plan(snap.disks)'
      BY <2>1, <3>1 DEF Plan, Moves, Undone, Moved
    <3> QED  BY <2>1, <2>2, <2>3, <2>5, <3>2 DEF RestsFit, WorksFit, SavesFit, BacksOut
  <2> QED  BY <2>4, <2>5
<1>2. CASE ChangeBack
  <2>1. /\ step = "again" /\ step' = "saving" /\ UNCHANGED <<files, file>> /\ cur' = job.back /\ ~hurt
        /\ phase' = "save" /\ job' = [job EXCEPT !.back = NoLab]
    BY <1>2 DEF ChangeBack, SaveAgain, Fine
  <2>2. job.kind = "resize" /\ PlanSize(job.back.disks)
    BY <2>1 DEF FitInv, WorksFit, Plan, Moves
  <2>3. job'.kind = "resize" /\ job'.back = NoLab /\ job'.then = None
    BY <2>1, <2>2 DEF OfflineInv, HeldJob, IsJob, JobFields, PlanSize
  <2>4. CourseBack'
    BY <2>1, <2>2, <2>3 DEF CourseBack, PlanSize
  <2> QED  BY <2>1, <2>3, <2>4 DEF RestsFit, WorksFit, SavesFit, BacksOut
<1> QED  BY <1>1, <1>2

LEMMA SavingFits == ASSUME LabsAreLabs, DisksFit, OfflineInv, FitInv, step = "saving", Saving PROVE FitInv'
<1> SUFFICES ASSUME ~hurt' PROVE (RestsFit /\ WorksFit /\ SavesFit)'
  BY DEF FitInv
<1>1. ~hurt /\ UNCHANGED <<files, job, step, snap>> /\ (CreateTemp \/ WriteTemp \/ Rename \/ Reload \/ SaveFails)
  BY DEF Saving, Fine, CreateTemp, WriteTemp, Rename, Reload, SaveFails
<1>2. /\ \A l : IsLab(Normal(l)) => Normal(l).disks = l.disks
      /\ phase \in Busy => IsLab(Normal(cur)) /\ IsLab(Normal(file))
  BY DEF DisksFit, OfflineInv, HeldLabs, Busy, LabsAreLabs
<1>3. CASE BacksOut
  <2>1. CourseBack
    BY <1>1, <1>3 DEF FitInv, SavesFit
  <2>2. CourseBack'
    BY <1>1, <1>2, <2>1 DEF CourseBack, CreateTemp, WriteTemp, Rename, Reload, SaveFails, Busy
  <2> QED  BY <1>1, <1>3, <2>2 DEF RestsFit, WorksFit, SavesFit, BacksOut
<1>4. CASE ~BacksOut
  <2>1. snap # NoLab /\ Course(snap.disks, job.to.disks)
    BY <1>1, <1>4 DEF FitInv, SavesFit
  <2>2. Course(snap.disks, job.to.disks)'
    BY <1>1, <1>2, <2>1 DEF Course, CreateTemp, WriteTemp, Rename, Reload, SaveFails, AfterFailedSave, Busy
  <2>3. CASE job.kind = "resize"
    <3>1. PlanSize(snap.disks)' /\ job.back.disks = snap.disks
      BY <1>1, <1>4, <2>3 DEF FitInv, SavesFit, PlanSize
    <3> QED  BY <1>1, <1>4, <2>1, <2>2, <2>3, <3>1 DEF RestsFit, WorksFit, SavesFit, BacksOut
  <2>4. CASE job.kind # "resize"
    <3>1. Plan(snap.disks)'
      BY <1>1, <1>4, <2>4 DEF FitInv, SavesFit, Plan, Moves, Undone, Moved
    <3> QED  BY <1>1, <1>4, <2>1, <2>2, <2>4, <3>1 DEF RestsFit, WorksFit, SavesFit, BacksOut
  <2> QED  BY <2>3, <2>4
<1> QED  BY <1>3, <1>4

LEMMA AfterFits == ASSUME LabsAreLabs, OfflineInv, FitInv, After PROVE FitInv'
<1> SUFFICES ASSUME ~hurt' PROVE (RestsFit /\ WorksFit /\ SavesFit)'
  BY DEF FitInv
<1>1. /\ step = "saving" /\ phase = "done" /\ phase' = "idle" /\ cur' = cur /\ file' = file
  BY DEF After, Finish
<1>2. ~hurt
  BY DEF After, Saved, NotSaved, PutAway, PutBack, Fine
<1>3. SavesFit
  BY <1>2 DEF FitInv
\* The lab that was saved, or is again the one of before, rests with its files.
<1>4. ASSUME step' = "none", cur.disks = file.disks, Good(file.disks), Fits(file.disks, files')
      PROVE  (RestsFit /\ WorksFit /\ SavesFit)'
  BY <1>1, <1>4 DEF RestsFit, WorksFit, SavesFit
<1>5. CASE BacksOut
  <2>1. job.then = None /\ job.kind = "resize" /\ job.back = NoLab
    BY <1>1, <1>3, <1>5 DEF SavesFit, CourseBack, BacksOut
  <2>2. result = "ok" /\ step' = "none" /\ UNCHANGED files
    BY <1>2, <2>1 DEF After, Saved, NotSaved, Over, ThenDeletes
  <2>3. cur.disks = file.disks /\ Good(file.disks) /\ Fits(file.disks, files')
    BY <1>1, <1>3, <1>5, <2>2 DEF SavesFit, CourseBack
  <2> QED  BY <1>4, <2>2, <2>3
<1>6. CASE ~BacksOut /\ Saved
  <2>1. /\ snap # NoLab /\ file.disks = job.to.disks /\ cur.disks = job.to.disks
        /\ IF job.kind = "resize" THEN PlanSize(snap.disks) /\ job.back.disks = snap.disks /\ job.back # NoLab
           ELSE Plan(snap.disks)
    BY <1>1, <1>3, <1>6 DEF SavesFit, Course, Saved, BacksOut
  <2>2. CASE job.kind = "resize"
    <3>1. job.then = None
      BY <2>1, <2>2 DEF PlanSize
    <3>2. step' = "qemu" /\ UNCHANGED <<files, job>>
      BY <1>6, <2>1, <2>2, <3>1 DEF Saved, Goes, ThenDeletes
    <3>3. PlanSize(job.back.disks)'
      BY <2>1, <2>2, <3>2 DEF PlanSize
    <3> QED  BY <1>1, <2>1, <2>2, <3>2, <3>3 DEF RestsFit, WorksFit, SavesFit
  <2>3. CASE job.kind # "resize"
    <3>1. Good(job.to.disks) /\ Fits(job.to.disks, files)
      BY <1>1, <2>1, <2>3 DEF Plan
    <3>2. CASE step' = "none" /\ UNCHANGED files
      BY <1>4, <2>1, <3>1, <3>2
    <3>3. CASE Moves /\ job.from # NoPath /\ PutAway(job.from) /\ step' = "none"
      <4>1. job.from \notin Paths(snap.disks) /\ job.to.disks \subseteq snap.disks
        BY <1>1, <2>1, <2>3, <3>3 DEF Plan, Moves
      <4>2. Fits(job.to.disks, files')
        BY <3>1, <3>3, <4>1 DEF PutAway, Without, Fits, Paths
      <4> QED  BY <1>4, <2>1, <3>1, <3>3, <4>2
    <3>4. ASSUME ThenDeletes, UNCHANGED files, step' = "aside",
                 job' = [Deletion(DiskWith(job.then)) EXCEPT !.had = job.had]
          PROVE  (RestsFit /\ WorksFit /\ SavesFit)'
      <4> DEFINE d == DiskWith(job.then)
      <4>1. job.then \in Registered
        BY <2>1, <2>3, <3>4 DEF Plan, ThenDeletes, Registered
      <4>2. d \in cur.disks /\ Deletable(d)
        BY <3>4, <4>1, DiskWithId DEF ThenDeletes
      <4>3. IsLab(cur) /\ Good(cur.disks) /\ Fits(cur.disks, files)
        BY <1>1, <2>1, <3>1 DEF OfflineInv, HeldLabs
      <4>4. job' = [Deletion(d) EXCEPT !.had = job.had]
        BY <3>4
      <4> HIDE DEF d
      <4>5. Plan(cur.disks)' /\ job'.kind = "delete"
        BY <1>1, <3>4, <4>2, <4>3, <4>4, DeletePlanned
      <4> QED  BY <1>1, <2>1, <3>4, <4>5 DEF RestsFit, WorksFit, SavesFit
    <3> QED  BY <1>6, <2>3, <3>2, <3>3, <3>4 DEF Saved, Over, Moves
  <2> QED  BY <2>2, <2>3
<1>7. CASE ~BacksOut /\ NotSaved
  <2>1. /\ file.disks = snap.disks /\ cur.disks = snap.disks /\ step' = "none"
        /\ IF job.kind = "resize" THEN PlanSize(snap.disks) ELSE Plan(snap.disks)
    BY <1>1, <1>3, <1>7 DEF SavesFit, Course, NotSaved, Over
  <2>2. Good(snap.disks)
    BY <2>1 DEF Plan, PlanSize
  <2>3. CASE job.kind = "resize"
    <3>1. UNCHANGED files
      BY <1>7, <2>3 DEF NotSaved
    <3>2. Fits(snap.disks, files)
      BY <2>1, <2>3 DEF PlanSize
    <3> QED  BY <1>4, <2>1, <2>2, <3>1, <3>2
  <2>4. CASE job.kind # "resize"
    <3>1. Fits(snap.disks, Undone) /\ (job.kind \in {"create", "layer", "import"} => job.path \notin Paths(snap.disks))
          /\ (job.kind = "import" => job.from \notin Paths(snap.disks))
      BY <2>1, <2>4 DEF Plan, Moves
    <3>2. Fits(snap.disks, files')
      <4>1. CASE job.kind \in {"create", "layer"} /\ PutAway(job.path)
        BY <3>1, <4>1 DEF PutAway, Without, Fits, Undone, Moves, Paths
      <4>2. CASE job.kind = "import" /\ PutBack(job.path, job.from)
        BY <3>1, <4>2 DEF PutBack, Moved, Fits, Undone, Moves, Paths
      <4>3. CASE Moves /\ job.from # NoPath /\ PutBack(job.from, job.path)
        BY <3>1, <4>3 DEF PutBack, Undone
      <4>4. CASE UNCHANGED files /\ (job.kind \in {"edit", "import"} \/ job.from = NoPath)
        BY <3>1, <4>4 DEF Undone, Moves
      <4> QED  BY <1>7, <2>4, <4>1, <4>2, <4>3, <4>4 DEF NotSaved, Moves
    <3> QED  BY <1>4, <2>1, <2>2, <3>2
  <2> QED  BY <2>3, <2>4
<1> QED  BY <1>5, <1>6, <1>7 DEF After

LEMMA RestartsFit == ASSUME DisksFit, OfflineInv, FitInv, Killed \/ Restarted PROVE FitInv'
<1> SUFFICES ASSUME ~hurt' PROVE (RestsFit /\ WorksFit /\ SavesFit)'
  BY DEF FitInv
<1>1. CASE Killed
  BY <1>1 DEF Killed, Crash, FitInv, RestsFit, WorksFit, SavesFit
<1>2. CASE Restarted
  <2>1. step = "none" /\ UNCHANGED <<step, files, file, hurt>> /\ cur' = Normal(file)
    BY <1>2 DEF Restarted, Open, diskVars, OfflineInv, Paced
  <2>2. Normal(file).disks = file.disks
    BY DEF DisksFit, OfflineInv, HeldLabs
  <2> QED  BY <2>1, <2>2 DEF FitInv, RestsFit, WorksFit, SavesFit
<1> QED  BY <1>1, <1>2

LEMMA DaemonFits == ASSUME FilesAre, FilesAre', FitInv, Daemon PROVE FitInv'
<1> SUFFICES ASSUME ~hurt' PROVE (RestsFit /\ WorksFit /\ SavesFit)'
  BY DEF FitInv
<1>1. UNCHANGED <<sessionVars, job, step, hurt>>
  BY DEF Daemon, LoadsLab, PassEnds, Starts, Stops, Writes, DaemonOnly
<1>2. /\ DOMAIN files' = DOMAIN files
      /\ \A p \in DOMAIN files : files'[p].back = files[p].back /\ files[p].size <= files'[p].size
  <2>1. CASE UNCHANGED files
    BY <2>1 DEF FilesAre, IsFile
  <2>2. CASE Writes
    <3>1. \A p \in DOMAIN files : files[p].size \in Nat
      BY DEF FilesAre, IsFile
    <3> QED  BY <2>2, <3>1, FilesWritten DEF Writes
  <2> QED  BY <2>1, <2>2 DEF Daemon, LoadsLab, PassEnds, Starts, Stops
<1> QED  BY <1>1, <1>2, GrownFit

LEMMA FitStart == LabsAreLabs /\ DisksFit /\ Init => FitInv /\ FilesInv
<1> SUFFICES ASSUME LabsAreLabs, DisksFit, Init PROVE FitInv /\ FilesInv
  OBVIOUS
<1>1. IsLab(Normal(file)) /\ Good(file.disks) /\ Fits(file.disks, files) /\ cur = Normal(file) /\ step = "none"
  BY DEF Init, SessionInit, DisksFit, LabsAreLabs
<1>2. cur.disks = file.disks
  BY <1>1 DEF DisksFit
<1>3. FitInv
  BY <1>1, <1>2 DEF FitInv, RestsFit, WorksFit, SavesFit
<1>4. FilesAre
  BY DEF Init, DisksFit, FilesAre
<1> QED  BY <1>1, <1>3, <1>4 DEF FilesInv

\* What an import was asked to take is not forgotten.
LEMMA TakenStays == ASSUME [Next]_vars PROVE taken \subseteq taken'
<1>1. CASE Requests
  <2>1. \E j, s : Request(j, s)
    BY <1>1, RequestsAsk
  <2> QED  BY <2>1 DEF Request
<1>2. CASE Works
  BY <1>2 DEF Works, ReadStates, CheckOffline, QemuWorks, QemuFails, Unlink, MoveAside, Change, ChangeBack, Saving, After,
     Saved, NotSaved, Goes, Over
<1>3. CASE Killed \/ Restarted \/ Daemon \/ UNCHANGED vars
  BY <1>3 DEF Killed, Restarted, Daemon, LoadsLab, PassEnds, Starts, Stops, Writes, DaemonOnly, vars, diskVars
<1> QED  BY <1>1, <1>2, <1>3 DEF Next, Operation

\* One step of the system, for the invariants of the labs and of the files.
LEMMA FitStep ==
  ASSUME LabsAreLabs, DisksFit, OfflineInv, FilesInv, taken = {} => FitInv, [Next]_vars
  PROVE  OfflineInv' /\ FilesInv' /\ (taken' = {} => FitInv')
<1>1. CASE UNCHANGED vars
  <2>1. OfflineInv'
    BY <1>1 DEF vars, sessionVars, diskVars, OfflineInv, HeldLabs, HeldJob, Paced, TellsNoMore, Guarded, Repacks, Offline, Rests
  <2>2. FilesInv'
    BY <1>1 DEF vars, diskVars, FilesInv, FilesAre
  <2>3. taken' = {} => FitInv'
    BY <1>1, <2>2, GrownFit DEF vars, sessionVars, diskVars, FitInv, RestsFit, WorksFit, SavesFit, CourseBack, Course,
       BacksOut, Plan, PlanSize, Undone, Moves, Moved, With
  <2> QED  BY <2>1, <2>2, <2>3
<1>2. CASE Next
  <2>1. OfflineInv'
    BY <1>2, RequestsKeep, ChecksKeep, HostKeeps, ChangesKeep, SavesKeep, AfterKeeps, RestartsKeep, DaemonKeeps
       DEF Next, Operation, Works
  <2>2. FilesInv'
    BY <1>2, FilesKept
  <2>3. Saving => step = "saving"
    BY DEF Saving, CreateTemp, WriteTemp, Rename, Reload, SaveFails, ReloadFails, OfflineInv, Paced
  <2>4. ASSUME taken' = {}, FitInv PROVE FitInv'
    BY <1>2, <2>2, <2>3, <2>4, RequestsFit, ChecksFit, QemuFits, UnlinkFits, AsideFits, ChangesFit, SavingFits, AfterFits,
       RestartsFit, DaemonFits
       DEF Next, Operation, Works, FilesInv
  <2> QED  BY <2>1, <2>2, <2>4, TakenStays
<1> QED  BY <1>1, <1>2

\* Between operations the lab's disks have their files, as long as no import
\* was asked to take one of them: whatever fails on the way is taken back by
\* the handler that it stops, and what a save is to name is there before it.
THEOREM DisksBacked == LabsAreLabs /\ DisksFit => (Spec => [](taken = {} => Backed))
<1> SUFFICES ASSUME LabsAreLabs, DisksFit PROVE Spec => [](taken = {} => Backed)
  OBVIOUS
<1> DEFINE I == OfflineInv /\ FilesInv /\ (taken = {} => FitInv)
<1>1. Init => I
  BY OfflineInit, FitStart
<1>2. I /\ [Next]_vars => I'
  BY FitStep
<1>3. I => (taken = {} => Backed)
  <2> SUFFICES ASSUME I, taken = {}, step = "none", phase = "idle", ~hurt, NEW d \in cur.disks
               PROVE  /\ d.path \in DOMAIN files /\ d.size <= files[d.path].size
                      /\ d.base # None => files[d.path].back = DiskWith(d.base).path
    BY DEF Backed
  <2>1. Good(cur.disks) /\ Fits(cur.disks, files)
    BY DEF FitInv, RestsFit
  <2>2. d.base # None => d.base \in Registered
    BY <2>1 DEF Good, Based, Registered
  <2> QED  BY <2>1, <2>2, DiskWithId DEF Fits
<1> QED  BY <1>1, <1>2, <1>3, PTL DEF Spec

-----------------------------------------------------------------------------
(* What the disks hold is kept. *)

\* What the handlers count on, and no check of the code sees to once a crash
\* has left the lab and its files apart or an import was asked to take the file
\* of a listed disk: the other disks of the lab have a file each, and no layer
\* that is merged is its own base.
OwnFiles ==
  /\ phase = "idle" \/ (phase = "done" /\ result = "ok") =>
       \A d \in cur.disks : IsDisk(d) /\ (d.path \in taken \/ \A e \in cur.disks : d.path = e.path => d = e)
  /\ step = "qemu" /\ job.kind = "merge" /\ Layered(job.path) => files[job.path].back # job.path

\* All that the operation found is on files, besides the one at a path.
IsOnHost(x) == \E p \in DOMAIN files : x \in files[p].holds
Beside(path) == \A x \in job.had : \E p \in DOMAIN files \ {path} : x \in files[p].holds

\* The lab that an operation saves, once it has changed it.
Settles ==
  step = "saving" /\ ~BacksOut =>
    LET new == job.to.disks
    IN  /\ phase \in Busy => cur.disks = new
        /\ phase = "rename" => temp.disks = new
        /\ phase = "reload" => file.disks = new
        /\ phase = "done" /\ result = "ok" => file.disks = new /\ cur.disks = new

\* Which file an operation may lose: its new one, the one that it has linked
\* elsewhere, or the one that it has copied or that the lab no longer names.
KeptSoFar ==
  /\ step = "unlink" => job.kind = "import" /\ job.from # job.path
  /\ step = "aside" => Moves
  /\ step = "again" => job.kind = "resize"
  /\ job.then # None => job.kind = "edit" /\ \E d \in job.to.disks : d.id = job.then
  /\ job.kind \in {"create", "layer"} => Beside(job.path)
  /\ job.kind = "import" /\ job.from # job.path =>
       IF step = "unlink" THEN Beside(job.path) /\ Beside(job.from) ELSE job.from \notin DOMAIN files
  /\ job.kind = "merge" => /\ \A x \in job.had : IsOnHost(x)
                           /\ step = "aside" => Beside(job.path)
                           /\ job.from # NoPath => Beside(job.from)
  /\ job.kind = "delete" => job.path \in taken \/ job.path \notin Paths(job.to.disks)
  /\ Moves => IF step \in {"change", "saving"} THEN job.from # NoPath => job.path \notin DOMAIN files
              ELSE job.from = NoPath
  /\ Settles

KeepInv == IF step = "none" THEN job.had = {} ELSE KeptSoFar

\* What a step may take from the disks, and what it may damage on them.
Keeps == \A x \in job.had : IsOnHost(x) => IsOnHost(x)' \/ GivesUp

\* Nothing is damaged but what is on the disk that is cut off and on layers over
\* a disk that changes.
LEMMA SpoilStep == ASSUME Next PROVE spoilt' \ spoilt \subseteq AtRisk \union UnderWrites
<1>1. CASE UNCHANGED spoilt
  BY <1>1
<1>2. CASE QemuWorks \/ QemuFails
  <2>1. CASE job.kind = "merge" /\ Layered(job.path) /\ \E some : Commits(some)
    <3>1. \E gone \in SUBSET OnSiblings : spoilt' = spoilt \union gone
      BY <2>1 DEF Commits, Spoils
    <3>2. AtRisk = OnSiblings
      BY <1>2, <2>1 DEF AtRisk, QemuWorks, QemuFails
    <3> QED  BY <3>1, <3>2
  <2>2. CASE QemuWorks /\ job.kind = "resize" /\ Spoils(InReach)
    <3>1. \E gone \in SUBSET InReach : spoilt' = spoilt \union gone
      BY <2>2 DEF Spoils
    <3>2. AtRisk = InReach
      BY <2>2 DEF AtRisk, QemuWorks
    <3> QED  BY <3>1, <3>2
  <2> QED  BY <1>1, <1>2, <2>1, <2>2 DEF QemuWorks, QemuFails, QemuCan
<1>3. CASE Writes
  <2>1. PICK at \in DOMAIN running :
          /\ running[at] \in DOMAIN files
          /\ \E gone \in SUBSET DataOn(Above(running[at])) : spoilt' = (spoilt \union gone) \ {at.id}
    BY <1>3 DEF Writes
  <2>2. UNCHANGED <<step, job>>
    BY <1>3 DEF Writes, DaemonOnly
  <2>3. DataOn(Above(running[at])) \subseteq UnderWrites
    BY <2>1, <2>2 DEF UnderWrites
  <2> QED  BY <2>1, <2>3
<1>4. CASE Requests
  <2>1. \E j, s : Request(j, s)
    BY <1>4, RequestsAsk
  <2> QED  BY <1>1, <2>1 DEF Request
<1>5. UNCHANGED spoilt \/ QemuWorks \/ QemuFails \/ Writes \/ Requests
  BY DEF Next, Operation, Works, ReadStates, CheckOffline, Unlink, MoveAside, Change, ChangeBack, Saving, After, Killed,
         Restarted, diskVars, Daemon, LoadsLab, PassEnds, Starts, Stops
<1> QED  BY <1>1, <1>2, <1>3, <1>4, <1>5

\* What a step loses, it may lose: the file of a disk that is deleted, once the
\* lab file does not name it, or what the code does not protect.
Kept ==
  (OnHost \ OnHost') \intersect job.had # {} =>
    GivesUp \/ (OnHost \ OnHost') \intersect job.had \subseteq AtRisk \union UnderWrites

LEMMA KeepsStep == ASSUME Next, Keeps PROVE Kept
<1> SUFFICES ASSUME ~GivesUp, NEW x \in (OnHost \ OnHost') \intersect job.had
             PROVE  x \in AtRisk \union UnderWrites
  BY DEF Kept
<1>1. IsOnHost(x) /\ x \notin spoilt
  BY DEF OnHost, DataOn, IsOnHost
<1>2. IsOnHost(x)'
  BY <1>1 DEF Keeps
<1>3. x \in spoilt'
  BY <1>2 DEF OnHost, DataOn, IsOnHost
<1> QED  BY <1>1, <1>3, SpoilStep

LEMMA KeepStart == Init => KeepInv
<1>1. NoJob.had = {}
  BY DEF NoJob
<1> QED  BY <1>1 DEF Init, KeepInv

\* A request for a file of its own finds nothing at its path.
LEMMA NewFileKept ==
  ASSUME NEW path, path \notin DOMAIN files, files' = With(path, File({}, NoPath, 0)),
         job'.kind \in {"create", "layer"}, job'.path = path, job'.had = OnHost, job'.then = None, step' = "qemu"
  PROVE  KeepInv'
<1>1. Beside(job.path)'
  BY DEF Beside, With, OnHost, DataOn
<1> QED  BY <1>1 DEF KeepInv, KeptSoFar, Moves, Settles

LEMMA ImportKept ==
  ASSUME NEW source \in DOMAIN files, NEW path, path = source \/ path \notin DOMAIN files, files' = With(path, files[source]),
         job'.kind = "import", job'.path = path, job'.from = source, job'.had = OnHost, job'.then = None,
         step' = IF path = source THEN "change" ELSE "unlink"
  PROVE  KeepInv'
<1>1. ASSUME path # source PROVE Beside(path)' /\ Beside(source)'
  <2>1. \A p \in DOMAIN files : p \in DOMAIN files' /\ p # path /\ files'[p] = files[p]
    BY <1>1 DEF With
  <2>2. path \in DOMAIN files' /\ files'[path] = files[source]
    BY DEF With
  <2> QED  BY <1>1, <2>1, <2>2 DEF Beside, OnHost, DataOn
<1> QED  BY <1>1 DEF KeepInv, KeptSoFar, Moves, Settles, Beside

\* The others find the files as they leave them.
LEMMA OthersKept ==
  ASSUME UNCHANGED files, job'.had = OnHost, step' \notin {"none", "unlink", "saving"},
         \/ job'.kind = "edit" /\ step' = "change" /\ (job'.then # None => \E d \in job'.to.disks : d.id = job'.then)
         \/ job'.kind = "resize" /\ step' \in {"ask", "check"} /\ job'.then = None
         \/ job'.kind = "merge" /\ job'.from = NoPath /\ step' \in {"ask", "check"} /\ job'.then = None
         \/ /\ job'.kind = "delete" /\ job'.from = NoPath /\ step' = "aside" /\ job'.then = None
            /\ job'.path \in taken' \/ job'.path \notin Paths(job'.to.disks)
  PROVE  KeepInv'
<1>1. \A x \in job'.had : IsOnHost(x)'
  BY DEF OnHost, DataOn, IsOnHost
<1> QED  BY <1>1 DEF KeepInv, KeptSoFar, Moves, Settles

LEMMA RequestsKept ==
  ASSUME LabsAreLabs, OfflineInv, KeepInv, OwnFiles, Requests, taken \subseteq taken'
  PROVE  KeepInv' /\ Keeps
<1>1. IsLab(cur) /\ job.had = {} /\ phase = "idle" /\ step = "none"
  BY RequestsWait DEF OfflineInv, HeldLabs, KeepInv
<1>2. Keeps
  BY <1>1 DEF Keeps
<1>3. \A d \in cur.disks : IsDisk(d) /\ (d.path \in taken \/ \A e \in cur.disks : d.path = e.path => d = e)
  BY <1>1 DEF OwnFiles
<1>4. ASSUME NEW id, NEW at, NEW size, CreateDisk(id, at, size) PROVE KeepInv'
  <2> DEFINE j == Job("create", id, Storage(id), Registers(NewDisk(id, Storage(id), "base", None, at, size)))
  <2>1. /\ Storage(id) \notin DOMAIN files /\ files' = With(Storage(id), File({}, NoPath, 0))
        /\ job' = [j EXCEPT !.size = size] /\ step' = "qemu"
    BY <1>4 DEF CreateDisk, Request
  <2>2. IsJob(j) /\ j.kind = "create" /\ j.path = Storage(id) /\ j.had = OnHost /\ j.then = None
    BY JobHolds
  <2> HIDE DEF j
  <2>3. Alike(job', j) /\ job'.then = j.then
    BY <2>1, <2>2, JobChanged
  <2> QED  BY <2>1, <2>2, <2>3, NewFileKept DEF Alike
<1>5. ASSUME NEW base, NEW id, NEW at, CreateLayer(base, id, at) PROVE KeepInv'
  <2> DEFINE j == Job("layer", id, LayerPath(id), Registers(NewDisk(id, LayerPath(id), "layer", base, at, 0)))
             from == DiskWith(base).path
  <2>1. /\ LayerPath(id) \notin DOMAIN files /\ files' = With(LayerPath(id), File({}, NoPath, 0))
        /\ job' = [j EXCEPT !.from = from] /\ step' = "qemu"
    BY <1>5 DEF CreateLayer, Request
  <2>2. IsJob(j) /\ j.kind = "layer" /\ j.path = LayerPath(id) /\ j.had = OnHost /\ j.then = None
    BY JobHolds
  <2> HIDE DEF j, from
  <2>3. Alike(job', j) /\ job'.then = j.then
    BY <2>1, <2>2, JobChanged
  <2> QED  BY <2>1, <2>2, <2>3, NewFileKept DEF Alike
<1>6. ASSUME NEW source \in DOMAIN files, NEW id, DiskImport(source, id) PROVE KeepInv'
  <2> DEFINE j == Job("import", id, Storage(id),
                      Registers(NewDisk(id, Storage(id), "base", None, Nowhere, files[source].size)))
  <2>1. /\ Storage(id) = source \/ Storage(id) \notin DOMAIN files
        /\ files' = With(Storage(id), files[source]) /\ job' = [j EXCEPT !.from = source]
        /\ step' = IF Storage(id) = source THEN "change" ELSE "unlink"
    BY <1>6 DEF DiskImport, Request
  <2>2. IsJob(j) /\ j.kind = "import" /\ j.path = Storage(id) /\ j.had = OnHost /\ j.then = None
    BY JobHolds
  <2> HIDE DEF j
  <2>3. job'.from = source
    BY <2>1, <2>2 DEF IsJob, JobFields
  <2>4. Alike(job', j) /\ job'.then = j.then
    BY <2>1, <2>2, JobChanged
  <2> QED  BY <2>1, <2>2, <2>3, <2>4, ImportKept DEF Alike
<1>7. ASSUME NEW to, NEW id, NEW path, Request(Job("edit", id, path, to), "change"), UNCHANGED files PROVE KeepInv'
  <2> DEFINE j == Job("edit", id, path, to)
  <2>1. j.kind = "edit" /\ j.had = OnHost /\ j.then = None
    BY JobHolds
  <2>2. job' = j /\ step' = "change"
    BY <1>7 DEF Request
  <2> HIDE DEF j
  <2> QED  BY <1>7, <2>1, <2>2, OthersKept
<1>8. ASSUME NEW id, NEW at, AttachDisk(id, at) PROVE KeepInv'
  BY <1>7, <1>8 DEF AttachDisk
<1>13. ASSUME NEW at, DetachDisk(at) PROVE KeepInv'
  BY <1>7, <1>13 DEF DetachDisk
<1>14. ASSUME NEW at, NEW state, SetDesired(at, state) PROVE KeepInv'
  <2> DEFINE to == [cur EXCEPT !.work = {IF At(w) = at THEN [w EXCEPT !.desired = state] ELSE w : w \in @}]
  <2>1. Request(Job("edit", None, NoPath, to), "change") /\ UNCHANGED files
    BY <1>14 DEF SetDesired
  <2> HIDE DEF to
  <2> QED  BY <1>7, <2>1
<1>15. ASSUME NEW id, NEW new, DiskRename(id, new) PROVE KeepInv'
  <2> DEFINE to == [cur EXCEPT !.disks = {[d EXCEPT !.id = IF @ = id THEN new ELSE @,
                                                    !.base = IF @ = id THEN new ELSE @] : d \in @}]
  <2>1. Request(Job("edit", id, NoPath, to), "change") /\ UNCHANGED files
    BY <1>15 DEF DiskRename
  <2> HIDE DEF to
  <2> QED  BY <1>7, <2>1
<1>9. ASSUME NEW at, DeleteActive(at) PROVE KeepInv'
  <2> DEFINE to == DetachActive(cur, at)
  <2>1. PICK d \in Attached(at) :
          Request([Job("edit", d.id, NoPath, to) EXCEPT !.then = d.id], "change") /\ UNCHANGED files
    BY <1>9 DEF DeleteActive
  <2>2. \E e \in to.disks : e.id = d.id
    <3>1. to.disks = {IF e.at = at THEN [e EXCEPT !.at = Nowhere] ELSE e : e \in cur.disks}
      BY <1>1, LabDisks
    <3>2. IsDisk(d) /\ d \in cur.disks
      BY <1>3 DEF Attached
    <3>3. [d EXCEPT !.at = Nowhere].id = d.id
      BY <3>2 DEF IsDisk
    <3> HIDE DEF to
    <3> QED  BY <3>1, <3>2, <3>3
  <2> DEFINE j == Job("edit", d.id, NoPath, to)
  <2>3. IsJob(j) /\ j.kind = "edit" /\ j.to = to /\ j.had = OnHost
    BY JobHolds
  <2>4. job' = [j EXCEPT !.then = d.id] /\ step' = "change"
    BY <2>1 DEF Request
  <2> HIDE DEF j, to
  <2>5. job'.kind = "edit" /\ job'.to = to /\ job'.had = OnHost /\ job'.then = d.id
    BY <2>3, <2>4 DEF IsJob, JobFields
  <2> QED  BY <2>1, <2>2, <2>4, <2>5, OthersKept
<1>10. ASSUME NEW id, DiskMerge(id) PROVE KeepInv'
  <2> DEFINE d == DiskWith(id)
             j == Job("merge", id, d.path, Unregisters(d))
  <2>1. job' = [j EXCEPT !.at = d.at] /\ step' \in {"ask", "check"} /\ UNCHANGED files
    BY <1>10 DEF DiskMerge, Asks, Request
  <2>2. IsJob(j) /\ j.kind = "merge" /\ j.from = NoPath /\ j.had = OnHost /\ j.then = None
    BY JobHolds
  <2> HIDE DEF j, d
  <2>3. Alike(job', j) /\ job'.then = j.then /\ job'.from = j.from
    BY <2>1, <2>2, JobChanged
  <2> QED  BY <2>1, <2>2, <2>3, OthersKept DEF Alike
<1>11. ASSUME NEW id, NEW size, NEW force, ResizeDisk(id, size, force) PROVE KeepInv'
  <2> DEFINE d == DiskWith(id)
             to == [cur EXCEPT !.disks = (@ \ {d}) \union {[d EXCEPT !.size = size]}]
             shrinks == d.size > 0 /\ size < d.size
             i == Job("resize", id, d.path, to)
             k == [i EXCEPT !.size = size, !.shrinks = shrinks, !.back = cur]
  <2>1. job' = [k EXCEPT !.at = d.at] /\ step' \in {"ask", "check"} /\ UNCHANGED files
    BY <1>11 DEF ResizeDisk, Asks, Request
  <2>2. IsJob(i) /\ i.kind = "resize" /\ i.had = OnHost /\ i.then = None
    BY JobHolds
  <2> HIDE DEF i, d, shrinks, to
  <2>3. IsJob(k) /\ k.kind = "resize" /\ k.had = OnHost /\ k.then = None
    BY <2>2 DEF IsJob, JobFields
  <2> HIDE DEF k
  <2>4. Alike(job', k) /\ job'.then = k.then
    BY <2>1, <2>3, JobChanged
  <2> QED  BY <2>1, <2>3, <2>4, OthersKept DEF Alike
<1>12. ASSUME NEW id \in Registered, DiskDelete(id) PROVE KeepInv'
  <2> DEFINE d == DiskWith(id)
  <2>1. job' = Deletion(d) /\ step' = "aside" /\ UNCHANGED files /\ d \in cur.disks
    BY <1>12, DiskWithId DEF DiskDelete, Request
  <2> HIDE DEF d
  <2>2. /\ job'.kind = "delete" /\ job'.from = NoPath /\ job'.had = OnHost /\ job'.then = None
        /\ job'.path = d.path /\ job'.to = Unregisters(d)
    BY <2>1, JobHolds DEF Deletion
  <2>3. job'.to.disks = cur.disks \ {d}
    BY <1>1, <2>2, LabDisks
  <2>4. job'.path \in taken' \/ job'.path \notin Paths(job'.to.disks)
    BY <1>3, <2>1, <2>2, <2>3 DEF Paths
  <2> QED  BY <2>1, <2>2, <2>4, OthersKept
<1> QED  BY <1>2, <1>4, <1>5, <1>6, <1>8, <1>9, <1>10, <1>11, <1>12, <1>13, <1>14, <1>15 DEF Requests

LEMMA ChecksKept ==
  ASSUME OfflineInv, KeepInv, ReadStates \/ CheckOffline, taken \subseteq taken'
  PROVE  KeepInv' /\ Keeps
<1>1. step \in {"ask", "check"} /\ UNCHANGED files /\ IsJob(job) /\ KeptSoFar
  BY DEF ReadStates, CheckOffline, OfflineInv, HeldJob, KeepInv
<1>2. Keeps
  BY <1>1 DEF Keeps, IsOnHost
<1>3. CASE step' = "none"
  <2>1. job' = NoJob /\ NoJob.had = {}
    BY <1>3 DEF ReadStates, CheckOffline, Goes, Over, NoJob
  <2> QED  BY <1>2, <1>3, <2>1 DEF KeepInv
<1>4. CASE step' # "none"
  <2>1. /\ job'.kind = job.kind /\ job'.to = job.to /\ job'.path = job.path /\ job'.from = job.from
        /\ job'.then = job.then /\ job'.had = job.had /\ step' \in {"check", "qemu", "change"}
    <3>1. CASE ReadStates
      <4>1. job' = [job EXCEPT !.stopped = job.at \notin DOMAIN running, !.told = Told(job.at)] /\ step' = "check"
        BY <1>4, <3>1 DEF ReadStates
      <4> QED  BY <1>1, <4>1 DEF IsJob, JobFields
    <3>2. CASE CheckOffline
      BY <1>4, <3>2 DEF CheckOffline, Goes, Over
    <3> QED  BY <3>1, <3>2
  <2> QED  BY <1>1, <1>2, <1>4, <2>1 DEF KeepInv, KeptSoFar, Beside, IsOnHost, Moves, Settles
<1> QED  BY <1>2, <1>3, <1>4

\* A step after which every file holds what it did, and more.
LEMMA MoreKept ==
  ASSUME KeepInv, UNCHANGED <<job, sessionVars>>, DOMAIN files' = DOMAIN files, taken \subseteq taken',
         \A p \in DOMAIN files : files[p].holds \subseteq files'[p].holds,
         step' = step \/ (step = "qemu" /\ job.kind = "resize" /\ step' = "again")
  PROVE  KeepInv' /\ Keeps
<1>1. job' = job /\ cur' = cur /\ file' = file /\ temp' = temp /\ phase' = phase /\ result' = result
  BY DEF sessionVars
<1>2. Keeps
  BY DEF Keeps, IsOnHost
<1>3. CASE step = "none"
  BY <1>1, <1>2, <1>3 DEF KeepInv
<1>4. CASE step # "none"
  <2>1. KeptSoFar
    BY <1>4 DEF KeepInv
  <2>2. \A path : Beside(path) => Beside(path)'
    BY <1>1 DEF Beside
  <2>3. \A x : IsOnHost(x) => IsOnHost(x)'
    BY DEF IsOnHost
  <2>4. Settles'
    BY <1>1, <2>1 DEF KeptSoFar, Settles, BacksOut
  <2>5. KeptSoFar'
    BY <1>1, <2>1, <2>2, <2>3, <2>4 DEF KeptSoFar, Moves
  <2> QED  BY <1>2, <1>4, <2>5 DEF KeepInv
<1> QED  BY <1>3, <1>4

\* An operation that ends.
LEMMA OverKept == ASSUME Over \/ (step' = "none" /\ job' = NoJob) PROVE KeepInv'
<1>1. NoJob.had = {}
  BY DEF NoJob
<1> QED  BY <1>1 DEF Over, KeepInv

LEMMA QemuKept ==
  ASSUME FilesAre, FilesAre', KeepInv, OwnFiles, QemuWorks \/ QemuFails, taken \subseteq taken'
  PROVE  KeepInv' /\ Keeps
<1>1. step = "qemu" /\ KeptSoFar /\ UNCHANGED sessionVars
  BY DEF QemuWorks, QemuFails, KeepInv
<1>2. CASE job.kind \in {"create", "layer"}
  <2>1. Beside(job.path)
    BY <1>1, <1>2 DEF KeptSoFar
  <2>2. \/ \E f : files' = With(job.path, f) /\ step' = "change" /\ job' = job
        \/ files' = Without(job.path) /\ Over
    BY <1>2 DEF QemuWorks, QemuFails, Goes
  <2>3. \A p \in DOMAIN files \ {job.path} : p \in DOMAIN files' /\ files'[p] = files[p]
    BY <2>2 DEF With, Without
  <2>4. Keeps
    BY <2>1, <2>3 DEF Keeps, Beside, IsOnHost
  <2>5. CASE step' = "change" /\ job' = job
    <3>1. Beside(job.path)'
      BY <2>1, <2>3, <2>5 DEF Beside
    <3> QED  BY <1>1, <1>2, <2>4, <2>5, <3>1 DEF KeepInv, KeptSoFar, Moves, Settles
  <2> QED  BY <2>2, <2>4, <2>5, OverKept
<1>3. CASE job.kind = "merge"
  <2>1. \A x \in job.had : IsOnHost(x)
    BY <1>1, <1>3 DEF KeptSoFar
  <2>2. ASSUME NEW some, Layered(job.path), Commits(some)
        PROVE  /\ DOMAIN files' = DOMAIN files
               /\ \A p \in DOMAIN files :
                    files'[p].holds = IF p = files[job.path].back THEN files[p].holds \union some ELSE files[p].holds
    BY <2>2, CommitsFile
  <2>3. CASE QemuFails
    <3>1. Over /\ (UNCHANGED files \/ \E some : Layered(job.path) /\ Commits(some))
      BY <1>3, <2>3 DEF QemuFails
    <3>2. DOMAIN files' = DOMAIN files /\ \A p \in DOMAIN files : files[p].holds \subseteq files'[p].holds
      BY <2>2, <3>1
    <3> QED  BY <3>1, <3>2, OverKept DEF Keeps, IsOnHost
  <2>4. CASE QemuWorks
    <3>1. Layered(job.path) /\ Commits(files[job.path].holds) /\ step' = "aside" /\ job' = job
      BY <1>3, <2>4 DEF QemuWorks, QemuCan, Goes
    <3>2. files[job.path].back \in DOMAIN files \ {job.path}
      BY <1>1, <1>3, <3>1 DEF Layered, OwnFiles
    <3>3. Beside(job.path)'
      BY <2>1, <2>2, <3>1, <3>2 DEF Beside, IsOnHost
    <3>4. \A x \in job.had : IsOnHost(x)'
      BY <3>1, <3>3 DEF Beside, IsOnHost
    <3>5. KeptSoFar'
      BY <1>1, <1>3, <3>1, <3>3, <3>4 DEF KeptSoFar, Moves, Settles
    <3> QED  BY <3>1, <3>4, <3>5 DEF Keeps, KeepInv
  <2> QED  BY <2>3, <2>4
<1>4. CASE job.kind = "resize"
  <2>1. CASE QemuFails
    <3>1. step' = "again" /\ UNCHANGED <<job, files>>
      BY <1>4, <2>1 DEF QemuFails, Goes
    <3> QED  BY <1>1, <1>4, <3>1, MoreKept
  <2>2. CASE QemuWorks
    <3>1. job.path \in DOMAIN files /\ files' = [files EXCEPT ![job.path].size = job.size] /\ Over
      BY <1>4, <2>2 DEF QemuWorks, QemuCan
    <3>2. DOMAIN files' = DOMAIN files /\ \A p \in DOMAIN files : files'[p].holds = files[p].holds
      BY <3>1 DEF FilesAre, IsFile, File
    <3> QED  BY <3>1, <3>2, OverKept DEF Keeps, IsOnHost
  <2> QED  BY <2>1, <2>2
<1> QED  BY <1>2, <1>3, <1>4 DEF QemuWorks, QemuFails

\* A file that is moved to where none was takes what it holds with it.
LEMMA MovedKept ==
  ASSUME NEW from \in DOMAIN files, NEW to, to \notin DOMAIN files, files' = Moved(from, to)
  PROVE  /\ Keeps
         /\ \A p \in DOMAIN files : p # from => p \in DOMAIN files' /\ p # to /\ files'[p] = files[p]
         /\ from \notin DOMAIN files'
<1>1. to \in DOMAIN files' /\ files'[to] = files[from] /\ from # to
  BY DEF Moved
<1>2. \A p \in DOMAIN files : p # from => p \in DOMAIN files' /\ p # to /\ files'[p] = files[p]
  BY DEF Moved
<1>3. Keeps
  BY <1>1, <1>2 DEF Keeps, IsOnHost
<1> QED  BY <1>1, <1>2, <1>3 DEF Moved

\* A file that the operation has another of may go.
LEMMA GoneKept == ASSUME NEW path, Beside(path), files' = Without(path) PROVE Keeps
BY DEF Beside, Without, Keeps, IsOnHost

LEMMA SameKept == ASSUME UNCHANGED files PROVE Keeps
BY DEF Keeps, IsOnHost

LEMMA UnlinkKept == ASSUME KeepInv, Unlink PROVE KeepInv' /\ Keeps
<1>1. step = "unlink" /\ job.kind = "import" /\ job.from # job.path /\ Beside(job.path) /\ Beside(job.from) /\ KeptSoFar
  BY DEF Unlink, KeepInv, KeptSoFar
<1>2. CASE files' = Without(job.from) /\ Goes("change")
  <2>1. Keeps
    BY <1>1, <1>2, GoneKept
  <2>2. job' = job /\ step' = "change" /\ job.from \notin DOMAIN files'
    BY <1>2 DEF Without, Goes
  <2> QED  BY <1>1, <2>1, <2>2 DEF KeepInv, KeptSoFar, Moves, Settles
<1>3. CASE files' = Without(job.path) /\ Over
  BY <1>1, <1>3, GoneKept, OverKept
<1> QED  BY <1>2, <1>3 DEF Unlink

LEMMA AsideKept == ASSUME OfflineInv, KeepInv, MoveAside, taken \subseteq taken' PROVE KeepInv' /\ Keeps
<1>1. step = "aside" /\ Moves /\ KeptSoFar /\ IsJob(job)
  BY DEF MoveAside, KeepInv, KeptSoFar, OfflineInv, HeldJob
<1>2. ASSUME job.path \in DOMAIN files, NEW b \in Backups \ DOMAIN files, files' = Moved(job.path, b),
             job' = [job EXCEPT !.from = b], step' = "change"
      PROVE  KeepInv' /\ Keeps
  <2>1. /\ job'.kind = job.kind /\ job'.to = job.to /\ job'.path = job.path /\ job'.from = b
        /\ job'.then = job.then /\ job'.had = job.had
    BY <1>1, <1>2 DEF IsJob, JobFields
  <2>2. /\ Keeps /\ job.path \notin DOMAIN files'
        /\ \A p \in DOMAIN files : p # job.path => p \in DOMAIN files' /\ p # b /\ files'[p] = files[p]
    BY <1>2, MovedKept
  <2>3. job.kind = "merge" => Beside(job.from)' /\ \A x \in job.had : IsOnHost(x)'
    BY <1>1, <2>1, <2>2 DEF KeptSoFar, Beside, IsOnHost
  <2> QED  BY <1>1, <1>2, <2>1, <2>2, <2>3 DEF KeepInv, KeptSoFar, Moves, Settles
<1>3. CASE job.path \notin DOMAIN files /\ Goes("change") /\ UNCHANGED files
  <2>1. job' = job /\ step' = "change" /\ job.from = NoPath
    BY <1>1, <1>3 DEF Goes, KeptSoFar
  <2> QED  BY <1>1, <1>3, <2>1, SameKept DEF KeepInv, KeptSoFar, Moves, Settles, IsOnHost
<1>4. CASE Over /\ UNCHANGED files
  BY <1>4, OverKept, SameKept
<1> QED  BY <1>2, <1>3, <1>4 DEF MoveAside

LEMMA ChangesKept ==
  ASSUME OfflineInv, KeepInv, Change \/ ChangeBack, taken \subseteq taken'
  PROVE  KeepInv' /\ Keeps
<1>1. KeptSoFar /\ IsJob(job) /\ UNCHANGED files /\ Keeps
  BY SameKept DEF Change, ChangeBack, KeepInv, OfflineInv, HeldJob
<1>2. CASE Change
  <2>1. step = "change" /\ step' = "saving" /\ job' = job /\ cur' = job.to /\ phase' = "save"
    BY <1>2 DEF Change, Begin, Goes
  <2>2. Settles'
    BY <2>1 DEF Settles
  <2> QED  BY <1>1, <2>1, <2>2 DEF KeepInv, KeptSoFar, Moves, Beside, IsOnHost
<1>3. CASE ChangeBack
  <2>1. step' = "saving" /\ job' = [job EXCEPT !.back = NoLab] /\ job.kind = "resize"
    BY <1>1, <1>3 DEF ChangeBack, KeptSoFar
  <2>2. job'.kind = "resize" /\ job'.back = NoLab /\ job'.then = job.then /\ job'.to = job.to
    BY <1>1, <2>1 DEF IsJob, JobFields
  <2> QED  BY <1>1, <2>1, <2>2 DEF KeepInv, KeptSoFar, Moves, Settles, BacksOut
<1> QED  BY <1>2, <1>3

LEMMA SavingKept ==
  ASSUME LabsAreLabs, DisksFit, OfflineInv, KeepInv, step = "saving", Saving, taken \subseteq taken'
  PROVE  KeepInv' /\ Keeps
<1>1. /\ \A l : IsLab(Normal(l)) => Normal(l).disks = l.disks
      /\ phase \in Busy => IsLab(Normal(cur)) /\ IsLab(Normal(file))
      /\ KeptSoFar /\ UNCHANGED <<files, job, step>>
  BY DEF LabsAreLabs, DisksFit, OfflineInv, HeldLabs, Busy, KeepInv, Saving
<1>2. CASE BacksOut
  BY <1>1, <1>2, SameKept DEF KeepInv, KeptSoFar, Settles, BacksOut, Moves, Beside, IsOnHost
<1>3. CASE ~BacksOut
  <2>1. CreateTemp \/ WriteTemp \/ Rename \/ Reload \/ SaveFails \/ ReloadFails
    BY DEF Saving
  <2>2. Settles'
    BY <1>1, <1>3, <2>1 DEF KeptSoFar, Settles, BacksOut, Busy, CreateTemp, WriteTemp, Rename, Reload, SaveFails, ReloadFails
  <2> QED  BY <1>1, <2>2, SameKept DEF KeepInv, KeptSoFar, Moves, Beside, IsOnHost
<1> QED  BY <1>2, <1>3

LEMMA AfterKept ==
  ASSUME OfflineInv, KeepInv, OwnFiles, After, taken \subseteq taken'
  PROVE  KeepInv' /\ Keeps
<1>1. /\ step = "saving" /\ phase = "done" /\ cur' = cur /\ file' = file /\ KeptSoFar
  BY DEF After, Finish, KeepInv
<1>2. result = "ok" /\ ~BacksOut => file.disks = job.to.disks /\ cur.disks = job.to.disks
  BY <1>1 DEF KeptSoFar, Settles
<1>3. CASE Over /\ UNCHANGED files
  BY <1>3, OverKept, SameKept
<1>4. CASE Saved
  <2>1. CASE job.kind \in {"merge", "delete"} /\ job.from # NoPath /\ PutAway(job.from) /\ Over
    <3>1. CASE UNCHANGED files
      BY <1>3, <2>1, <3>1
    <3>2. CASE job.kind = "merge" /\ files' = Without(job.from)
      <4>1. Beside(job.from)
        BY <1>1, <2>1, <3>2 DEF KeptSoFar
      <4> QED  BY <2>1, <3>2, <4>1, GoneKept, OverKept
    <3>3. CASE job.kind = "delete"
      <4>1. GivesUp
        BY <1>1, <1>2, <1>4, <3>3 DEF Saved, BacksOut, KeptSoFar, Paths, GivesUp
      <4> QED  BY <2>1, <3>3, <4>1, OverKept DEF Keeps
    <3> QED  BY <2>1, <3>1, <3>2, <3>3 DEF PutAway
  <2>2. CASE job.kind = "resize" /\ Goes("qemu") /\ UNCHANGED files
    BY <1>1, <2>2, SameKept DEF KeepInv, KeptSoFar, Moves, Settles, Goes
  <2>3. ASSUME ThenDeletes, job' = [Deletion(DiskWith(job.then)) EXCEPT !.had = job.had], step' = "aside", UNCHANGED files
        PROVE  KeepInv' /\ Keeps
    <3> DEFINE d == DiskWith(job.then)
    <3>1. job.kind = "edit" /\ \E e \in job.to.disks : e.id = job.then
      BY <1>1, <2>3 DEF ThenDeletes, KeptSoFar
    <3>2. job.then \in Registered
      BY <1>2, <1>4, <3>1 DEF Saved, BacksOut, Registered
    <3>3. d \in cur.disks /\ IsLab(cur)
      BY <1>1, <3>2, DiskWithId DEF OfflineInv, HeldLabs
    <3>4. job' = [Deletion(d) EXCEPT !.had = job.had]
      BY <2>3
    <3> HIDE DEF d
    <3>5. /\ IsJob(Deletion(d)) /\ Deletion(d).kind = "delete" /\ Deletion(d).path = d.path
          /\ Deletion(d).to = Unregisters(d) /\ Deletion(d).from = NoPath /\ Deletion(d).then = None
      BY JobHolds DEF Deletion
    <3>6. /\ job'.kind = "delete" /\ job'.path = d.path /\ job'.to = Unregisters(d)
          /\ job'.from = NoPath /\ job'.then = None
      BY <3>4, <3>5 DEF IsJob, JobFields
    <3>7. job'.to.disks = cur.disks \ {d}
      BY <3>3, <3>6, LabDisks
    <3>8. job'.path \in taken' \/ job'.path \notin Paths(job'.to.disks)
      BY <1>1, <1>4, <3>3, <3>6, <3>7 DEF Saved, OwnFiles, Paths
    <3> QED  BY <2>3, <3>6, <3>8, SameKept DEF KeepInv, KeptSoFar, Moves, Settles
  <2> QED  BY <1>3, <1>4, <2>1, <2>2, <2>3 DEF Saved
<1>5. CASE NotSaved
  <2>1. Over
    BY <1>5 DEF NotSaved
  <2>2. CASE UNCHANGED files
    BY <1>3, <2>1, <2>2
  <2>3. CASE job.kind \in {"create", "layer"} /\ PutAway(job.path)
    <3>1. Beside(job.path)
      BY <1>1, <2>3 DEF KeptSoFar
    <3> QED  BY <2>1, <2>2, <2>3, <3>1, GoneKept, OverKept DEF PutAway
  <2>4. CASE job.kind = "import" /\ job.from # job.path /\ PutBack(job.path, job.from)
    <3>1. job.from \notin DOMAIN files
      BY <1>1, <2>4 DEF KeptSoFar
    <3>2. CASE job.path \in DOMAIN files /\ files' = Moved(job.path, job.from)
      BY <2>1, <3>1, <3>2, MovedKept, OverKept
    <3> QED  BY <2>2, <2>4, <3>2 DEF PutBack
  <2>5. CASE job.kind \in {"merge", "delete"} /\ job.from # NoPath /\ PutBack(job.from, job.path)
    <3>1. job.path \notin DOMAIN files
      BY <1>1, <2>5 DEF KeptSoFar, Moves
    <3>2. CASE job.from \in DOMAIN files /\ files' = Moved(job.from, job.path)
      BY <2>1, <3>1, <3>2, MovedKept, OverKept
    <3> QED  BY <2>2, <2>5, <3>2 DEF PutBack
  <2> QED  BY <1>5, <2>2, <2>3, <2>4, <2>5 DEF NotSaved
<1> QED  BY <1>4, <1>5 DEF After

LEMMA RestartsKept == ASSUME KeepInv, OfflineInv, Killed \/ Restarted PROVE KeepInv' /\ Keeps
<1>1. CASE Killed
  <2>1. step' = "none" /\ job' = NoJob /\ UNCHANGED files
    BY <1>1 DEF Killed
  <2> QED  BY <2>1, OverKept, SameKept
<1>2. CASE Restarted
  <2>1. step = "none" /\ UNCHANGED <<step, job, files>>
    BY <1>2 DEF Restarted, Open, diskVars, OfflineInv, Paced
  <2> QED  BY <2>1, SameKept DEF KeepInv
<1> QED  BY <1>1, <1>2

LEMMA DaemonKept == ASSUME FilesAre, KeepInv, Daemon, taken \subseteq taken' PROVE KeepInv' /\ Keeps
<1>1. UNCHANGED <<sessionVars, job, step>>
  BY DEF Daemon, LoadsLab, PassEnds, Starts, Stops, Writes, DaemonOnly
<1>2. DOMAIN files' = DOMAIN files /\ \A p \in DOMAIN files : files[p].holds \subseteq files'[p].holds
  <2>1. CASE UNCHANGED files
    BY <2>1
  <2>2. CASE Writes
    BY <2>2, FilesWritten DEF Writes
  <2> QED  BY <2>1, <2>2 DEF Daemon, LoadsLab, PassEnds, Starts, Stops
<1> QED  BY <1>1, <1>2, MoreKept

\* Until something happens that the code does not repair, the handlers find what
\* they count on.
LEMMA UnhurtOwn == ASSUME OfflineInv, FitInv, ~hurt PROVE OwnFiles
<1>1. ASSUME phase = "idle" \/ (phase = "done" /\ result = "ok")
      PROVE  Good(cur.disks)
  <2>1. CASE step = "none"
    BY <1>1, <2>1 DEF OfflineInv, Paced, FitInv, RestsFit
  <2>2. CASE step = "saving"
    BY <1>1, <2>2 DEF OfflineInv, Paced, FitInv, SavesFit, CourseBack, Course, Plan, PlanSize
  <2>3. CASE step \notin {"none", "saving"}
    BY <2>3 DEF FitInv, WorksFit, Plan, PlanSize
  <2> QED  BY <2>1, <2>2, <2>3
<1>2. ASSUME step = "qemu", job.kind = "merge"
      PROVE  files[job.path].back # job.path
  <2>1. Plan(cur.disks)
    BY <1>2 DEF FitInv, WorksFit
  <2>2. Good(cur.disks) /\ Fits(cur.disks, files)
    BY <1>2, <2>1 DEF Plan, Moves, Undone
  <2>3. PICK d \in cur.disks : d.path = job.path /\ d.kind = "layer"
    BY <1>2, <2>1 DEF Plan, Moves
  <2>4. PICK b \in cur.disks : b.id = d.base /\ b.kind = "base"
    BY <2>2, <2>3 DEF Good, Based
  <2>5. files[d.path].back = b.path /\ b.path # d.path
    BY <2>2, <2>3, <2>4 DEF Good, Based, Apart, Fits
  <2> QED  BY <2>3, <2>5
<1> QED  BY <1>1, <1>2 DEF OwnFiles, Good, Apart

LEMMA KeepStep ==
  ASSUME LabsAreLabs, DisksFit, OfflineInv, FilesInv, KeepInv, OwnFiles, [Next]_vars
  PROVE  KeepInv' /\ [Kept]_vars
<1>0. taken \subseteq taken'
  BY TakenStays
<1>1. CASE UNCHANGED vars
  BY <1>0, <1>1, MoreKept DEF vars, diskVars
<1>2. CASE Next
  <2>1. FilesInv'
    BY <1>2, FilesKept
  <2>2. Saving => step = "saving"
    BY DEF Saving, CreateTemp, WriteTemp, Rename, Reload, SaveFails, ReloadFails, OfflineInv, Paced
  <2>3. KeepInv' /\ Keeps
    BY <1>0, <1>2, <2>1, <2>2, RequestsKept, ChecksKept, QemuKept, UnlinkKept, AsideKept, ChangesKept, SavingKept, AfterKept,
       RestartsKept, DaemonKept
       DEF Next, Operation, Works, FilesInv
  <2> QED  BY <1>2, <2>3, KeepsStep
<1> QED  BY <1>1, <1>2

\* What was on the disks is not lost, but the file of a disk that is deleted
\* once the lab file does not name it, what a forced shrink cuts off and what is
\* on the layers over a disk that a merge or a workload changes: through
\* failures of host commands, a kill between operations and whatever workloads
\* write.  After a kill in an operation, a save that is not read back, an undo
\* that fails or an import of a listed disk's file, this is so for as long as
\* the other disks of the lab have a file each, which nothing in the code sees to.
THEOREM DataKept ==
  LabsAreLabs /\ DisksFit => (Spec /\ [](hurt \/ taken # {} => OwnFiles) => KeepsData)
<1> SUFFICES ASSUME LabsAreLabs, DisksFit PROVE Spec /\ [](hurt \/ taken # {} => OwnFiles) => KeepsData
  OBVIOUS
<1> DEFINE I == OfflineInv /\ FilesInv /\ (taken = {} => FitInv) /\ KeepInv
<1>1. Init => I
  BY OfflineInit, FitStart, KeepStart
<1>2. I /\ (hurt \/ taken # {} => OwnFiles) /\ [Next]_vars => I' /\ [Kept]_vars
  BY FitStep, KeepStep, UnhurtOwn
<1>3. [Kept]_vars => [(OnHost \ OnHost') \intersect job.had # {} =>
                        GivesUp \/ (OnHost \ OnHost') \intersect job.had \subseteq AtRisk \union UnderWrites]_vars
  BY DEF Kept
<1> QED  BY <1>1, <1>2, <1>3, PTL DEF Spec, KeepsData

\* Nothing undoes what happened.
LEMMA HurtStays == ASSUME [Next]_vars, hurt PROVE hurt'
<1>1. CASE UNCHANGED vars
  BY <1>1 DEF vars, diskVars
<1>2. CASE Requests
  <2>1. \E j, s : Request(j, s)
    BY <1>2, RequestsAsk
  <2> QED  BY <2>1 DEF Request
<1>4. CASE Works
  BY <1>4 DEF Works, ReadStates, CheckOffline, Fine, PutAway, QemuWorks, QemuFails, Unlink, MoveAside, Change, ChangeBack,
     Saving, PutBack, After, Saved, NotSaved
<1>3. CASE Killed \/ Restarted \/ Daemon
  BY <1>3 DEF Killed, Restarted, diskVars, Daemon, LoadsLab, PassEnds, Starts, Stops, Writes, DaemonOnly
<1> QED  BY <1>1, <1>2, <1>3, <1>4 DEF Next, Operation

\* Until something happens that the code does not repair, or an import is asked
\* to take a listed disk's file, no more is needed for it than labs at the start
\* whose disks have a file each.
THEOREM DataKeptUnhurt == LabsAreLabs /\ DisksFit => (Spec => [][~hurt /\ taken = {} => Kept]_vars)
<1> SUFFICES ASSUME LabsAreLabs, DisksFit PROVE Spec => [][~hurt /\ taken = {} => Kept]_vars
  OBVIOUS
<1> DEFINE I == OfflineInv /\ FilesInv /\ (taken = {} => FitInv) /\ (~hurt /\ taken = {} => KeepInv)
<1>1. Init => I
  BY OfflineInit, FitStart, KeepStart
<1>2. I /\ [Next]_vars => I' /\ [~hurt /\ taken = {} => Kept]_vars
  BY FitStep, KeepStep, UnhurtOwn, HurtStays, TakenStays
<1> QED  BY <1>1, <1>2, PTL DEF Spec

-----------------------------------------------------------------------------
(* The commands, menus and explorer ask for nothing but requests.            *)

\* What the command, the menu of a workload and the explorer ask for.
LEMMA AskedRequests == Asked => Requests
<1> SUFFICES ASSUME Asked PROVE Requests
  OBVIOUS
<1>1. phase = "idle" /\ step = "none"
  BY DEF Asked
<1>2. \A d \in cur.disks : d.id \in Registered
  BY DEF Registered
<1>3. CASE ExecuteDiskCommand
  BY <1>1, <1>3 DEF ExecuteDiskCommand, Anywhere, Requests
<1>4. CASE DiskMenu
  <2>1. \A at \in Targets : DiskMenuEntries(at) \subseteq cur.disks
    BY DEF DiskMenuEntries, AttachableDisks, LayerDisksForMenu
  <2>2. CASE CreateNamedDisk
    BY <1>1, <2>2 DEF CreateNamedDisk, Requests
  <2>3. ASSUME NEW at \in Targets, SelectDiskMenuEntry(at) \/ DetachDisk(at) \/ DeleteDiskMenuEntry(at)
        PROVE  Requests
    BY <1>1, <1>2, <2>1, <2>3 DEF SelectDiskMenuEntry, DeleteDiskMenuEntry, Requests
  <2>4. ASSUME NEW at \in Targets, CreateNamedLayer(at) \/ MergeDisk(at)
        PROVE  Requests
    BY <1>1, <1>2, <2>1, <2>4 DEF CreateNamedLayer, MergeDisk, Requests
  <2> QED  BY <1>4, <2>2, <2>3, <2>4 DEF DiskMenu
<1>5. CASE DiskExplorer
  <2>1. DiskExplorerRows \subseteq cur.disks
    BY DEF DiskExplorerRows
  <2>2. CASE RunDiskExplorerAction
    BY <1>1, <1>2, <2>1, <2>2 DEF RunDiskExplorerAction, CreateNamedDisk, Requests
  <2>3. CASE CommitDiskExplorerEdit
    BY <1>1, <1>2, <2>1, <2>3 DEF CommitDiskExplorerEdit, Requests
  <2>4. CASE DiskImportBrowser
    BY <1>1, <2>4 DEF DiskImportBrowser, Requests
  <2> QED  BY <1>5, <2>2, <2>3, <2>4 DEF DiskExplorer
<1>6. CASE RunOrStop
  BY <1>1, <1>6 DEF RunOrStop, Requests
<1> QED  BY <1>3, <1>4, <1>5, <1>6 DEF Asked

\* Whoever asks for disk operations in the UI, by commands.go, disk_actions.go
\* disk_explorer.go or disk_import_browser.go, which offers the files of listed
\* disks too, asks for one of the requests of DiskOps.
THEOREM CommandsAsk == CommandSpec => Spec
<1>1. [CommandNext]_vars => [Next]_vars
  BY AskedRequests DEF CommandNext, Next, Operation
<1> QED  BY <1>1, PTL DEF CommandSpec, Spec

-----------------------------------------------------------------------------
(* Types. *)

\* A job is held only while its operation is under way, and a file that is
\* being written only until it is renamed or given up.
TypesInv ==
  /\ step \in {"none", "ask", "check", "qemu", "unlink", "aside", "change", "again", "saving"}
  /\ step = "none" => job = NoJob
  /\ temp # NoLab => phase \in {"write", "rename"}
  /\ hurt \in BOOLEAN /\ jobs \in 0..MaxJobs /\ mishaps \in 0..MaxMishaps

LEMMA TypesInit == Init => TypesInv
<1>1. 0 \in 0..MaxJobs /\ 0 \in 0..MaxMishaps
  BY DiskOpsAssumption DEF DiskOpsAssumption
<1>2. Init => hurt \in BOOLEAN
  BY DEF Init
<1> QED  BY <1>1, <1>2 DEF Init, SessionInit, TypesInv

LEMMA TempStep ==
  ASSUME temp # NoLab => phase \in {"write", "rename"}, [SessionNext]_sessionVars
  PROVE  (temp # NoLab => phase \in {"write", "rename"})'
BY DEF SessionNext, Begin, SaveAgain, Save, CreateTemp, WriteTemp, Rename, SaveFails, Reload, ReloadFails, Finish, Crash,
       Open, HandEdit, sessionVars

\* Every mishap is counted, and a kill takes the last of them.
LEMMA MishapsCount ==
  ASSUME mishaps \in 0..MaxMishaps
  PROVE  /\ Mishap => mishaps' \in 0..MaxMishaps
         /\ Killed => mishaps' \in 0..MaxMishaps
         /\ UNCHANGED mishaps => mishaps' \in 0..MaxMishaps
BY DiskOpsAssumption DEF DiskOpsAssumption, Mishap, Killed

LEMMA RequestsTyped == ASSUME TypesInv, LabsAreLabs, OfflineInv, Requests PROVE TypesInv'
<1>1. UNCHANGED sessionVars /\ IsLab(cur)
  BY RequestsWait DEF OfflineInv, HeldLabs, Paced
<1>2. PICK j, s : Request(j, s) /\ Proper(j, s)
  BY <1>1, RequestsProper
<1>3. /\ step' = s /\ s \in {"ask", "check", "qemu", "change", "aside", "unlink"}
      /\ jobs < MaxJobs /\ jobs' = jobs + 1 /\ UNCHANGED <<temp, phase, hurt, mishaps>>
  BY <1>2 DEF Request, Proper, sessionVars
<1> QED  BY <1>3, DiskOpsAssumption DEF DiskOpsAssumption, TypesInv

LEMMA WorksTyped == ASSUME TypesInv, (temp # NoLab => phase \in {"write", "rename"})', Works PROVE TypesInv'
<1>1. /\ step' \in {"none", "ask", "check", "qemu", "unlink", "aside", "change", "again", "saving"}
      /\ step' = "none" => job' = NoJob
  <2>1. CASE ReadStates \/ CheckOffline \/ Change \/ ChangeBack \/ Saving
    BY <2>1 DEF ReadStates, CheckOffline, Change, ChangeBack, Saving, Goes, Over, TypesInv
  <2>2. CASE QemuWorks \/ QemuFails \/ Unlink \/ MoveAside
    BY <2>2 DEF QemuWorks, QemuFails, Unlink, MoveAside, Goes, Over
  <2>3. CASE After
    BY <2>3 DEF After, Saved, NotSaved, Goes, Over
  <2> QED  BY <2>1, <2>2, <2>3 DEF Works
<1>2. UNCHANGED mishaps \/ Mishap
  <2>1. CASE ReadStates \/ CheckOffline \/ Change \/ ChangeBack \/ Saving
    BY <2>1 DEF ReadStates, CheckOffline, Change, ChangeBack, Saving, Fine
  <2>2. CASE QemuWorks \/ QemuFails \/ Unlink \/ MoveAside
    BY <2>2 DEF QemuWorks, QemuFails, Unlink, MoveAside, Fine
  <2>3. CASE After
    BY <2>3 DEF After, Saved, NotSaved, PutAway, PutBack, Fine
  <2> QED  BY <2>1, <2>2, <2>3 DEF Works
<1>3. hurt' \in BOOLEAN
  <2>1. CASE ReadStates \/ CheckOffline \/ Change \/ ChangeBack \/ Saving
    BY <2>1 DEF ReadStates, CheckOffline, Change, ChangeBack, Saving, Fine, TypesInv
  <2>2. CASE QemuWorks \/ QemuFails \/ Unlink \/ MoveAside
    BY <2>2 DEF QemuWorks, QemuFails, Unlink, MoveAside, Fine, TypesInv
  <2>3. CASE After
    BY <2>3 DEF After, Saved, NotSaved, PutAway, PutBack, Fine, TypesInv
  <2> QED  BY <2>1, <2>2, <2>3 DEF Works
<1>4. UNCHANGED jobs
  BY DEF Works, ReadStates, CheckOffline, QemuWorks, QemuFails, Unlink, MoveAside, Change, ChangeBack, Saving, After, Saved,
         NotSaved, Goes, Over
<1> QED  BY <1>1, <1>2, <1>3, <1>4, MishapsCount DEF TypesInv

LEMMA OthersTyped ==
  ASSUME TypesInv, (temp # NoLab => phase \in {"write", "rename"})', Killed \/ Restarted \/ Daemon PROVE TypesInv'
<1>1. CASE Killed
  BY <1>1, MishapsCount DEF Killed, TypesInv
<1>2. CASE Restarted
  BY <1>2 DEF Restarted, diskVars, TypesInv
<1>3. CASE Daemon
  BY <1>3 DEF Daemon, LoadsLab, PassEnds, Starts, Stops, Writes, DaemonOnly, TypesInv, sessionVars
<1> QED  BY <1>1, <1>2, <1>3

\* Types, and that a snapshot and an operation are held only while they are
\* needed (labMutation and the handlers of disks.go).
THEOREM OperationTypes == LabsAreLabs /\ DisksFit => (Spec => []TypeOK)
<1> SUFFICES ASSUME LabsAreLabs, DisksFit PROVE Spec => []TypeOK
  OBVIOUS
<1> DEFINE I == OfflineInv /\ FilesInv /\ TypesInv
<1>1. Init => I
  BY OfflineInit, FitStart, TypesInit
<1>2. I /\ [Next]_vars /\ [SessionNext]_sessionVars => I'
  <2> SUFFICES ASSUME I, [Next]_vars, [SessionNext]_sessionVars PROVE I'
    OBVIOUS
  <2>1. CASE UNCHANGED vars
    <3>1. OfflineInv'
      BY <2>1 DEF vars, sessionVars, diskVars, OfflineInv, HeldLabs, HeldJob, Paced, TellsNoMore, Guarded, Repacks, Offline, Rests
    <3>2. FilesInv' /\ TypesInv'
      BY <2>1 DEF vars, sessionVars, diskVars, FilesInv, FilesAre, TypesInv
    <3> QED  BY <3>1, <3>2
  <2>2. CASE Next
    <3>1. OfflineInv'
      BY <2>2, RequestsKeep, ChecksKeep, HostKeeps, ChangesKeep, SavesKeep, AfterKeeps, RestartsKeep, DaemonKeeps
         DEF Next, Operation, Works
    <3>2. FilesInv'
      BY <2>2, FilesKept
    <3>3. (temp # NoLab => phase \in {"write", "rename"})'
      BY TempStep DEF TypesInv
    <3>4. TypesInv'
      BY <2>2, <3>3, RequestsTyped, WorksTyped, OthersTyped DEF Next, Operation
    <3> QED  BY <3>1, <3>2, <3>4
  <2> QED  BY <2>1, <2>2
<1>3. I => TypeOK
  <2> SUFFICES ASSUME I PROVE TypeOK
    OBVIOUS
  <2>1. step # "none" => job # NoJob
    BY DEF OfflineInv, HeldJob, LabsAreLabs, NoJob
  <2>2. \A p \in DOMAIN files : files[p].size \in Nat
    BY DEF FilesInv, FilesAre, IsFile
  <2> QED  BY <2>1, <2>2 DEF TypesInv, OfflineInv, Paced, TypeOK
<1> QED  BY <1>1, <1>2, <1>3, DiskSession, PTL DEF Spec, SessionSpec
=============================================================================
