# A verification project for FoxLab

TLA+ modules that model `foxlab` and `foxlabd`, TLC configurations that check
them, and TLAPS proofs of what matters most. Paths
below are relative to `src/internal/` unless they begin with another directory.

    tlc  -workers 2 -config MCReconciler.cfg MCReconciler     one run
    tlapm ReconcilerProofs.tla                                 the proofs of a module

`PROJECT.json` lists the runs, the mutants that show each property can fail, the
lines of code behind each definition, the hazards and the theorems.

## 1. The system

A lab is a YAML file (`*.lab`) that names VMs, containers, disks, switches and
links. A terminal UI edits the file; a daemon reads it about once a second and
makes libvirt and containerd agree with it.

    UI (topologyui) --edits--> .lab file --LoadFile--> foxlabd (reconciler.Run)
      |  |  \                                              |   \
      |  |   \--Apply--> systemd (daemoncontrol) --starts--+    +--> status store
      |  |                                                 |            |
      |  +-----------<------- status socket (daemonstatus) |------------+
      |                                                    v
      +--shell, console, file copy, disk tools--> libvirt, containerd, qemu-nbd,
                                                  mounts, bridges, iptables

| component | state it keeps | operations | interacts by |
|---|---|---|---|
| Reconcile loop (`reconciler/runner.go`, `cmd/foxlabd`) | context, signature of the file, status snapshot | Run (ticker, file watch), Step, publish; SIGTERM, restart | reads the file, calls the runtimes, publishes to the store |
| Workload step (`workload/`, `foxruntime/`) | the states read, the errors of a step | States, CleanupOrphans, reconcileRef, DestroyLab | calls of one runtime for VMs and one for containers, either of which may be nil |
| Containers and disks (`containerd/runtime.go`, `disk.go`) | records and tasks in containerd; image mounts, overlays, NBD devices, a marker inside each disk | Start, Stop, Destroy, CleanupOrphans | containerd's API and host commands: qemu-nbd, mount, umount |
| Shells (`containerd/shell*.go`) | a process and a session | execShell, Wait, Close | pipes to the UI's tab |
| VMs (`virt/`) | libvirt domains, streams of consoles | Start, Stop, CleanupOrphans, console | libvirt's API |
| Host network (`hostnet/`, `macnat/`) | bridges, veths, iptables rules | attach, detach, clean up | ip and iptables |
| Lab file (`lab/`) | the session's lab, its path and revision | LoadFile, SaveFile, Normalize, Validate, SaveAndReload | rename over the file |
| Topology edits (`topology/`) | the lab, the files of disks | create, rename, delete, connect, link; create, import, layer, attach, merge, resize, rename, delete disks | transactions over the session, qemu-img |
| Daemon control (`daemoncontrol/`) | the drop-in and unit files; systemd's unit | Status, Apply | systemctl; DestroyLab of the previous lab |
| Daemon status (`daemonstatus/`) | the snapshot, the socket | Query, serve | a Unix socket |
| Terminal UI (`topologyui/`, `tui/`) | tabs, sessions, the wake pipe, the status shown, connect mode, the explorer | keys, commands, menus, tabs, status refresh | goroutines that queue an update and write a byte |

What makes it hard, and is what the properties are for:

* a step of the daemon reads the states once and acts on them until its end, while
  the file and the host change under it;
* every call to a runtime is a dozen host commands, any of which fails, and the
  process may die between two of them; the next process finds what is left;
* the UI's single thread works against a goroutine and a process for each tab,
  which finish in any order;
* Apply is a sequence of seven commands, each of which may fail or go on after
  its caller gave up;
* a disk operation changes files by qemu-img, moves files and changes the lab file,
  none of which can be undone by the others, while the daemon starts workloads;
* attaching a container is a dozen commands for each interface, whose rollback must
  tell what it made from what was there;
* a status is asked for in the background and answered after edits that make it old.

What makes each component correct, in short: the daemon converges on the file and
never publishes a state that is not so; a container runs on its own disk and leaves
no device or mount behind; no shell is lost and no stale goroutine touches a tab;
the daemon runs the lab that its status names; an edit is done whole or not at all
and changes only what it names; a disk operation that fails leaves the disks their files
and data, and qemu-img changes no disk while the workload that it is attached to runs; a
start that succeeds has attached what the lab asks for, and one that fails takes back what
it made; a status never replaces a newer one. Section 3 names the property for each, and
section 5 what the code does not keep of it, which the property then excepts.

## 2. The modules

| module | models | lines of code it stands for |
|---|---|---|
| `Workloads` | entries of the lab, states of the host, what one call can leave of a workload | `lab/lab.go`, `virt/libvirt.go`, `containerd/runtime.go` |
| `Convergence` | the abstract specification: what the daemon does to the host, the file it last read justifies | |
| `Reconciler` | the daemon: `Runner.Run`, `Step`, the composite runtime, the process | `reconciler/runner.go`, `workload/*.go`, `foxruntime/runtime.go`, `cmd/foxlabd` |
| `ContainerDisk` | one runtime call, command by command, for containers with a disk | `containerd/runtime.go`, `disk.go`, helpers |
| `HostNet` | attach, detach, clean up; NAT, MacNAT, bridges; domains | `hostnet/*.go`, `macnat/macnat.go`, `virt/libvirt.go`, `virt/xml.go` |
| `LabRules` | a lab, `Normalize`, `Validate`, look-ups | `lab/*.go` |
| `LabSession` | the session, its save, the transactions on it: what all edits implement | `lab/session.go`, `lab/io.go`, `topology/transaction.go` |
| `LabEdits` | every edit of nodes, interfaces, links and uplinks | `topology/workloads.go`, `identity.go`, `network_links.go`, ... |
| `LabCommands` | what the palette's commands, the menus and panels ask `LabEdits` for | `topologyui/commands.go`, `*_args.go`, `service_actions.go` |
| `ConnectMode` | the mode that connects an interface by several keys | `topologyui/connect.go` |
| `DiskOps` | every disk operation, step by step, with qemu-img, the save and a daemon | `topology/disks.go`, `disk_activation.go`, `disk_lookup.go` |
| `DiskCommands` | what the disk command, the menus, the explorer and the import browser ask `DiskOps` for | `topologyui/disk_*.go`, `context_disk_buttons.go` |
| `ShellTabs` | tabs, sessions, shells, the wake pipe | `topologyui/tabs.go`, `app.go`, `containerd/shell*.go` |
| `StatusView` | the status shown, the read in the background, the socket, Apply's entry | `topologyui/app.go`, `model.go`, `runtime_access.go`, `daemonstatus/status.go` |
| `DaemonControl` | Apply, systemd, reboots, lab files | `daemoncontrol/*.go`, `workload/destroy.go`, `topologyui/app.go` |
| `*Proofs` | the theorems of `Reconciler`, `ContainerDisk`, `DaemonControl`, `LabSession` with `LabEdits`, `DiskOps`, `ShellTabs`, `StatusView`, `HostNet` | |
| `MC*` | the instances TLC checks | |

How they fit:

    Convergence <== Reconciler          LabSession <== LabEdits <- LabCommands <- ConnectMode
                      | Workloads             ^ <===== DiskOps  <- DiskCommands
                    ContainerDisk         LabRules (also under HostNet)
                    (<== implements, <- extends)

`Workloads` defines what one call of a runtime can make of one workload
(`StartLeaves`, `StopLeaves`, `CleanLeaves`). `Reconciler` takes a call as one atomic
effect out of these sets. `ContainerDisk` opens the call for containers, and its
property `CallEffects` says that whatever fails inside it, the call leaves what these
sets allow: the assumption of one module is a property of the other. `Reconciler`
implements `Convergence` (`Implements`, with `basis <- loaded`). `DaemonControl` takes
the daemon's convergence (`Settles`) as one action, `Converge`, and opens who starts
the daemon on which file.

`LabSession` says what a transaction is and leaves open what it makes of the lab (in
`Begin`, `cur'` is not given). `LabEdits` and `DiskOps` each say what, and are proved to
implement it (`EditsSession`, `DiskSession`), so that `Sound`, `FileReads` and
`AllOrNothing`, proved once of `LabSession`, hold of every edit and disk operation. In
the same way `DiskCommands` is proved to ask for nothing but the requests of `DiskOps`
(`CommandsAsk`). `HostNet` takes the lab, with `LabRules`, from the daemon's pass.

### Reconciler

`pc` is the place in `Run` and `Step`: `idle` (the select of Run), `load`,
`states`, `vmorphans`, `ctorphans`, `refs` (the loop of `reconcileRef`), `op` (a
Start or Stop under way), `publish`, `sign` (the stat after the step). `file` and
`rev` are the lab file and its signature (modification time and size), `host` what
the two runtimes have, `obs` and `errs` the `ReconcileResult`, `status` the store.

* A call under way is a state (`pc = "op"`), so that edits, drifts, cancellation
  and crashes come between its beginning and its effect. Its effect is one step;
  `ContainerDisk` opens it.
* The phases of a step are DHCP containers, VMs, other containers; inside a phase
  the order is left open (the code follows the file).
* `vmrt = "failing"` is `failingRuntime`, which stands in when libvirt cannot be
  reached. A runtime that is nil is not asked for anything.
* SIGTERM ends `main` without waiting for `Run` (`cmd/foxlabd/main.go:95`): `Exit`
  may happen at any point. `Restart=on-failure` starts a daemon that crashed
  (`failed`), not one that ended by SIGTERM (`stopped`).
* `Launch` is the start of the process, a new empty store and the prologue of Run
  in one; the two checks of the context around a load are one.
* An editor replaces the file by a rename, so that a load sees one version.

Not modelled: `-once` and `-destroy`, workloads of other labs, the checks of the
file (a load fails or not; `ValidateManagedDHCPContainer` cannot fail after
`LoadFile` has validated).

### ContainerDisk

The daemon's loop again, now one host command at a time: `pc` is the next command
and `mode` why a cleanup runs, as the same cleanup is called from `Stop`, from
`CleanupOrphans`, from a start that replaces a record or a mount, and from the two
rollbacks of a start, which differ in what they do about an error. `rec` and `task`
are containerd's, `mnt`, `root` and `dev` the mounts and devices, `marker` the file
`.foxlab-disk-source` inside each disk (a layer shows its base's), `under` (history)
the disk a running task was started on, `cut` (history) the disks whose start ended
between the mount and the marker. `fresh` is `CleanupDiskOnFailure`, `made` whether this start created the record, `skip` is `failedOrphanIDs`.

Mishaps are of the kinds in `Kinds`; a run chooses the kinds it wants. A command
of a cancelled context fails, but for the deferred clean-up of a start, which has a
context of its own.

Not modelled: containers without a disk, the ownership labels (one lab), the pull
of the image, `resolv.conf`, a disk taken out of an entry that stays. Tasks that
are paused or unknown count as not running.

### ShellTabs

`tabs` are the tab objects with their generation; `worker` is the goroutine of
`startTabSession` for each session `<<tab, generation>>`; `shell` is the process;
`closed` and `ended` are the calls of Close and of the cancel function; `ui` is the
UI thread and what it has taken out of the lock to close. `updates`, `readable` and
`signals` are the queue of one, the bytes in the pipe, and writes still to come.

The critical sections of the code are the actions. `finishTabSession` has two: what
follows its unlock is `FinishBuffer`, since it uses the buffer the tab has *then*.
The two sections of `startTabSession` are one, as only the UI thread changes what
they read. Keys are pressed when the UI reads them. What runs in a shell may stop reading
its input at any time (`deaf`), and then a key that is written to it holds the UI thread:
the pipe has no buffer and the write no time limit. The deletion of a closed shell is
assumed to succeed. The buffer of a tab and its lock are not modelled.

### DaemonControl

`call` is where the Apply of each UI is; `unit`, `conf` and `enabled` are systemd's
(ActiveState and the process's lab, the loaded configuration, the link);
`dropin` and `installed` are files. A lab file is what it names, or gone, or refused
by LoadFile. `host` has, for each lab, the workloads that exist.

* Every command fails with or without its effect: the context of 90 seconds
  kills `systemctl`, not the job. So `StopUnit` may fail and leave the unit
  `deactivating`, `Enable` may fail and leave it `activating`, and `Job` finishes
  it at any later time.
* The drop-in is written in place: a failed write may leave it empty, and the
  controller then reads the default lab of its user (`Default[c]`), systemd the one of
  the unit file, root's (`Shipped`). So is the unit file: `installed` is `torn` when it
  was cut before its `ExecStart`; `systemctl cat` accepts it, `enable` fails.
* `clash` (history) is set once two Applies were under way at the same time. Nothing in
  the code prevents it; the properties speak of the behaviours without.
* `enable` reloads the configuration, as `systemctl enable` does.
* The UI asks for the status before it calls Apply, which asks again
  (`topologyui/app.go:497`); both are `Ask`.
* `Converge` is the daemon, one workload at a time; it cleans up only while the
  file names something (the finding `DeletedGoes`).

Not modelled: the user daemon of older versions (`stopUserDaemon`; its errors are
ignored), the clean-up of bridges and NAT rules in DestroyLab (it reports no
errors), sockets.

### LabRules

A lab is a record: `nodes` in the order of the file (the code takes the first switch
where none is named), direct `links` between interfaces, what is `placed` and `drawn` on
the canvas, `disks`. `NormalizedNode` and `Valid` are Normalize and Validate; each rule of
Validate is the set of what it finds wrong. Text is left out: an id is a value, `Fold[id]`
its lower case and `Bridge[id]` the interface name the runtime makes of it, so that an
instance can have ids that fall together in one or the other. The values that YAML's
decoder refuses do not occur.

### LabSession

`file`, `temp` (the file beside it), `cur` (`Session.current`), `snap` (labMutation's
clone) and `phase`, the place in `SaveAndReload`: `save`, `write`, `rename`, `reload`,
`done`. Each system call is a step, each may fail (`SaveFails`, `ReloadFails`) and the
process may die before any (`Crash`). `HandEdit` is any other program that replaces the
file, at any time. A save outside a transaction (`SaveAgain`) has no snapshot and falls
back on what the file says. That a temporary file outlives a kill is not modelled: nobody
reads it.

### LabEdits, LabCommands, ConnectMode

An edit is one operator for each handler of `topology`: its checks are conjuncts, its
effect is `Apply(op, lab)`, where `op` (history) is what the request names: nodes, MAC
addresses, or the words for modes, states, paths and capabilities. References to
nodes are resolved as the code does, ids before names. `RewriteReferences` is
rewriteNodeReferences, for interfaces, uplinks, positions, drawn and direct links and
disks at once. `LabCommands` makes requests out of arguments (`Args`: up to three named
values for a command), with the older names that `firstNonEmpty` tries.

`ConnectMode` keeps its source as the code does, by node and place, while the palette and
other programs edit the lab; a handler with two transactions ("New NIC" and the link to
it) is two edits with `then` between them. A state of the mode in which the node is gone
is answered as the service answers: an error that ends the mode.

Not modelled: where a node is placed, the arrows that choose the next target, DHCP's
address range and image, and the fields of an entry that no rule or reference reads.

### DiskOps and DiskCommands

`files` maps a path to what the file holds that no other does, the file behind it and its
size; `job` is the operation under way and `step` its next step, in the order of its
handler:

    create, layer   reserve the path, qemu-img create, change, save
    import          link, unlink, change, save
    merge           (ask, check,) qemu-img commit, move aside, change, save, remove
    resize          (ask, check,) change, save, qemu-img resize, and the change back
    delete          move aside, change, save, remove; a menu's delete detaches before
    attach, detach, rename, run and stop    change, save

A save is LabSession's. What a handler does on a failure (remove, move back, roll back) is
a step that may fail in its turn; `hurt` (history) is set when it does, when a save is not
read back, or when the program is killed in the middle, which no code repairs. The daemon
beside it has a pass (`seen`), starts and stops workloads and writes to the disk each
opened. `told` (history) is set when the pass under way, or a lab file that is not the
session's, wanted the workload to run when the states were read.

An import takes any file, as importedDiskTarget and the browser do, that of a listed disk
too: it moves it from under that disk, or lists it a second time when it has the name of
the new disk already. `taken` (history) has the paths of the lab's disks for which that was
asked. `spoilt` (history) is what was on the disks and may be damaged: what a forced shrink
cuts off (`InReach`), and what is on other layers over a file that a commit or a workload
writes to (`OnSiblings`, `Above`). A workload that runs while an import moves its file goes
on at that path in the model, and has the moved file open in the code.

`DiskCommands` offers the requests as the UI does: which disks a workload's menu lists
(`DiskMenuEntries`), what it calls active, that a layer's sibling is made on the base of
both, and that the row an explorer's edit is open for may be any by the time it is
committed. A workload whose entry names a disk file without a registered disk (for which
detachDiskFromNode falls back on UpdateVM) does not occur in the instance.

### HostNet

`seen` is the lab of the daemon's pass. `nics` has the interfaces of each container's
namespace: where each is joined (`on`), whether it is `inside`, its MAC address, whether it
has its final name (`named`), which is all that containerNICExists asks, and its
addresses. `call` is the AttachContainer under way, one action for each interface;
`LookUpFails` is a containerNICExists whose command fails, after which the code deletes the
interface that is there, and goes on without it;
`AttachNICFails` is a command that fails with the rollback of the code, and
`DiesAttaching` a daemon that dies, or whose context is cancelled, which cancels the
rollback too: any prefix of `Way` is left. `host` holds bridges and rules, `kernel` the
MacNAT sessions. Addresses are places in a ring (`Places`), chosen as the code chooses:
hash first, then the next that is free, in the order of names. `domains` are libvirt's,
with the configuration running and the one saved.

A virtual machine's start is one action and, for its failures, `StartVMFails`, which may
stop after any of its steps: nobody else works on the host meanwhile, as calls of one
daemon follow each other. The code of macnat's own kernel module is external.

### StatusView

`states`, `nodes`, `pending` and `applied` are the UI's WorkloadStates, node states,
PendingStarts and ApplyLabDisabled; `refresh` is the read in the background, from the
socket, else from the runtime, else with systemd's word on the daemon; `doing` is what the
UI's thread is in the middle of. A pass of the daemon is two steps here; `Reconciler` opens
it. `shownFor` (history) is the revision that the states shown were asked for under.
`Leaves` is a daemon that dies or that another UI points at another lab.

## 3. The runs

| run | instance | what it shows |
|---|---|---|
| `reconciler` | one VM, a DHCP container that never starts, a container with a disk, two configurations; 1 edit, 1 mishap | `HonestStatus`: a snapshot without errors is true of its lab; `DHCPFirst`; `NothingBegunCancelled`; `Implements`: the daemon implements `Convergence`; `Settles`, `StatusSettles`: the rest of the host and the status settle to the file |
| `reconciler_orphans` | the same; 1 edit, no mishap | finding: `DeletedGoes` is violated |
| `disk_safety` | two containers, two devices, a used base and a layer of it; 3 edits, 2 mishaps of all kinds | `OwnDisk`: a task runs on its own disk, unless the start of a layer was cut before its marker; `CallEffects`: a call leaves what `Workloads` allows; `PullsNoTask`: nothing is unmounted under a task |
| `disk_live` | the same; 3 edits, 1 forward failure | `NoStray`: no device stays connected to nothing; `Recovers`: a container that is to run does |
| `disk_stuck` | the same; a task exits, then a backend dies | finding: `Recovers` is violated |
| `disk_guard` | the same; a task exits | finding: `StoppedIsFree` is violated |
| `shell_tabs` | one tab with three generations: an opening and a restart, and a close or quit at any moment | `NoStray`: no shell is lost; `Connected`; `Woken`: no update without a wake; `ShellsEnd`; `Fenced`: a session left behind changes no tab; `KeyAnswered`: no key holds the UI for good but one for a shell that never reads again; `Reaped` |
| `daemon_control` | two labs of up to two workloads, the UIs of two users, one with root's default lab; 2 edits, 3 mishaps; Applies that do not overlap (`MCApart`) | `StatusTruth`: the daemon runs the lab that Status names, unless the user misreads a missing drop-in; `AppliedRuns`; `NothingLeft` of other labs; `RetrySettles`, unless the unit file is torn |
| `lab_edits` | a small lab of each kind of node, every command with up to three arguments of a few names, connect mode; 2 events: edits, edits by hand, kills, reads that fail | `Sound`: the session's lab is valid; `FileReads`: the file can be read at every moment; `AllOrNothing`; `OnlyNamed`: an edit changes nothing but what it names |
| `disk_ops` | a base, a layer of it that a VM has, a container, a file that one lab lists as a data disk and that an import may find where it would put it, and labs with the VM running or stopped; 2 operations, 2 mishaps | `Backed`: the lab's disks have their files and bases, but those that an import was asked to take; `KeepsData`: an operation loses nothing but a deleted disk's file, what a forced shrink cuts off and what is on layers over a disk that changes; `WorksOffline`: qemu-img merges or resizes no disk while the workload it is attached to runs |
| `host` | six labs between which the user edits: NAT, a full network, a moved one, MacNAT, direct links and host uplinks, DHCP; 2 mishaps | `Wired`: a named interface is finished; `StartMeans`: a start that succeeds did what it says; `AddressesApart`; `KeepsAttached`: a failed attachment takes nothing down that it found |
| `status` | a VM and a container; 2 edits, 1 mishap | `NeverBack`: no status replaces a newer one; `ShowsReal`: in the end the UI shows what is so |

The type invariants (`TypeOK`, `ModeTypeOK`) are checked with them; those of `Reconciler`
and `DaemonControl` are theorems only.

### Bounds

`MaxEdits`, `MaxMishaps`, `MaxEvents` and `MaxJobs` bound edits of files, failures and
operations; nothing else of the daemon is bounded, and it steps for ever. They are guards
of the actions of the surroundings only.

* *Reconciler.* A workload of each phase and one of each kind of host state is what
  the step distinguishes, so one VM, one DHCP container and one container with a disk are
  enough for the order and the phases; two configurations tell "running" from "running
  as asked"; one edit in the middle of a step is what makes `loaded` and `file` differ.
* *Disks of containers.* Two containers and two disks are needed for one to take
  the other's device, disk or marker, and three edits for a disk to move from one container
  to the other, where each edit changes one entry.
* *Tabs.* A tab uses a generation for its opening and two for a restart (one to
  invalidate, one for the new session). What two tabs share, the queue and the pipe, is
  covered by the theorems, which hold for any number of tabs and generations.
* *Apply.* Three mishaps are a failed Apply, a failed retry and a reboot.
* *Edits.* Each request names any of `Ids`: nodes that exist, one whose id or runtime
  name falls together with another's, and none. Every edit is made of a lab that the last
  one, or another program, has left; the failures of a save are not counted. Connect mode
  may finish its two transactions beyond `MaxEvents`. The session's properties hold after
  any number of edits by the theorems.
* *Disk operations.* Two operations are one and the one that meets what it left (a merge
  under a layer, a delete after a failed import); two mishaps are a failure and the failure
  of what undoes it.
* *Host.* Two interfaces of one container give an attachment that fails half-way; a third
  container makes the addresses collide, move and run out; two mishaps are a death between
  two commands and an edit, or a failure and its retry's.
* *Status.* Two edits are one before the answer comes and one after; one mishap is a lost
  answer, a drift or another UI's lab.

### Fairness, and why the code justifies it

* `Reconciler`: the ticker of Run fires for ever and a call returns, with an error
  if not with success (`WF(Run)`); a process that was cancelled ends (`WF(Exit)`);
  systemd starts one that failed (`Restart=on-failure`). Nobody need start one that
  was stopped: liveness is stated under `LeftRunning`. Nothing is assumed of an
  edit, a failure or a drift: they end because they are bounded.
* `ContainerDisk`: the same (`WF(Daemon)`), and a cancelled process is replaced.
* `ShellTabs`: the UI loop turns and poll has a timeout; each goroutine runs; a
  shell's set-up ends within its 15 seconds; a shell that is closed or cancelled is
  deleted. Keys are pressed, but none in particular. A shell need not read; one that reads
  time and again takes what waits for it (`SF(Written)`).
* `DaemonControl`: a command returns or is killed by its context; systemd ends its
  jobs; the daemon converges. That the user tries again is the premise of
  `RetrySettles`, not a fairness condition.
* `StatusView`: a read has a timeout and is answered or fails; the UI's loop wakes by its
  own timer and starts the next read; the daemon's ticker fires. Nothing is assumed of the
  user.

`LabEdits`, `DiskOps` and `HostNet` state no liveness: a user's operation ends by itself
or with the program, and what a failed start leaves the next pass of `Reconciler` retries.

## 4. What is proved

TLAPS proves these for every value of the constants, from the named assumptions of the
modules, which TLC evaluates in their runs.

| module | theorems |
|---|---|
| `ReconcilerProofs` | `TypeCorrect`; `StatusIsHonest`; `VMsAfterDHCP`; `CancelledBeginsNothing`; `DaemonConverges`: the daemon implements `Convergence` |
| `DaemonControlProofs` | `TypeCorrect`; `StatusIsTrue`, `WhatIsAppliedRuns`, `OthersAreGone`, for any number of UIs and any default labs |
| `ContainerDiskProofs` | `DiskTypes`, `RunsOnOwnDisk`, `NothingPulled`, `NothingStrays`, `CallsDoAsAssumed`: a call is what `Workloads` tells `Reconciler` of it |
| `LabEditsProofs` | `SessionSound`, `SessionFileReads`, `SessionAllOrNothing` of `LabSession`; `EditsSession`: edits, commands and connect mode implement `LabSession`; `ModeTypes`; `EditsRead`: `FileReads` with the Normalize of the code; `EditsOnlyNamed`: `OnlyNamed` |
| `DiskOpsProofs` | `DiskSession`: the disk operations implement `LabSession`; `OperationTypes`; `OfflineWork`; `DisksBacked`; `DataKept`, `DataKeptUnhurt`; `CommandsAsk`: the UI's disk commands ask for nothing else |
| `ShellTabsProofs` | `ShellTypes`, `NoStrays`, `AlwaysConnected`, `AlwaysWoken`, `ShellsEndFirst`, `AlwaysFenced` |
| `StatusViewProofs` | `NeverGoesBack` |
| `HostNetProofs` | `HostTypes`, `AlwaysWired`, `StartsMean`, `AttachedKept`, `AddressesDistinct` |

The arguments:

*Reconciler.* `HonestStatus` speaks of a state at the end of a step and is not
inductive: `IInv` adds `Progress`, what an error-free step on a calm host knows at
each of its points: what is still to do has been read and not touched since, what
is done is as asked and reported so, and the orphans of a kind that was cleaned are
gone. A failing runtime, an abandoned step and a failed call all come with an error,
which ends the claim. `DHCPFirst` follows from `Progress` at `pc = "op"` and from
`Turn`, the order of the phases. `DaemonConverges` maps each action to an edit, an
adoption, an act, a drift or a stutter; all that is needed of the calls is that
`StartLeaves`, `StopLeaves` and `CleanLeaves` are justified.

*Containers and disks.* No variable says that the daemon has the right disk in hand; it
follows from the place it is at. `Handled` says so of each command from the connection of
a device to the run of the task, `Marks` that a marker which is there names its disk, so
that a mount found healthy is the right one, or one whose start was cut before it could write
the marker (`cut`). Nothing is assumed of the markers that layers bring with them.
`Quiet` says that no task runs on what is being mounted or unmounted, which needs `Swept`:
an orphan whose record is not gone is in `skip` when the mounts are swept.
`NothingStrays` assumes that no clean-up fails and that the daemon is not killed.
`CallsDoAsAssumed` ties the two levels together: what `Reconciler` takes for one step has
been proved of the commands, for each place where they can end. That the lowest free
device exists rests on the well-foundedness of the natural numbers.

*Apply.* `IInv` of `DaemonControlProofs` says that the configuration changes only
while the unit is down (`Calls`, `Units`), that a process runs the lab that systemd reads
of the files (`OnDisk`), and that every other lab's workloads are in `lost` (`Forgotten`);
the lab about to be forgotten has been destroyed when Apply is at `write`. It says so as
long as no two Applies overlapped (`~clash`, and then one caller at a time, `Solo`).
Nothing is assumed of the number of UIs or of their users' homes: what a user sees of a
missing drop-in is told apart from what systemd reads (`Configured`, `OnDisk`), and the
properties name the state in which the two differ (`Misread`).

*The session.* What `cur` and `snap` hold passed the checks when it was taken
(`SoundInv`), what is renamed over the file was written from `cur` (`ReadsInv`), and
until the rename the file is the one of before the transaction, as its snapshot is the
session's lab of before (`Remembers`). `SessionFileReads` is about any Normalize and assumes
that a lab which was normalised, saved and read back needs no more of it. Each edit is one
step of `Begin` because it checks first and changes `cur` once, so that the refinement
needs no invariant.

*The labs of the session.* `EditsRead` discharges that assumption for the Normalize of
`LabRules`. `IsLab` says what a lab is: sequences of nodes and links, each node with its
fields, its uplinks and interfaces sequences again. `LabsInv` says that the session's lab,
its snapshot, the temporary file and the file are labs, or the file is torn; each of the
edits, commands and choices of connect mode is shown to make a lab of a lab
(`CommandsLab`, `ConnectsLab`), and Normalize to leave alone what it has made
(`NormalizeAgain`): a list without repetitions is its own `Distinct` (`DistinctOnce`), and
nothing else that it fills in is empty the second time. What a filter leaves of a sequence
(`AmongIs`) is shown by well-founded induction on the length, in the form that speaks of a
set and not of a predicate. Two hypotheses: the session works with this Normalize
(`OurRules`, which `MCLabEdits` instantiates), and what other programs put into the file is
a lab or cannot be read (`OurLabs`), since LoadFile decodes it into these types or fails.
`ModeTypes` adds the stages of connect mode: the menu of a target's interfaces is the only
place with a target (`ModeStages`). TLC has checked `LabsInv` and `ModeStages` on the
instance of `lab_edits`, together with the idempotence of Normalize.

*What an edit names.* `OnlyNamed` compares the facts of two labs (`Facts`: who is joined to
what, in which mode, at which path) that do not speak of a name in the request. A rename
carries them over, by substituting the node's name wherever it stands. Three things make
that provable. Names are of three kinds, of nodes, of MAC addresses and other words
(`NodeName`, `MacName`, `Word`), so that the substitution cannot meet a mode or a path that
happens to be the same text. `Ready` says what an edit starts from: the nodes have their
fields (`WholeLab`), ids are not empty and belong to one node, links end at interfaces that
exist (`Firm`), references lead to nodes of their kind (`Closed`), and no switch has a
field of the older format. And there is one lemma for each edit (`...Only`), of which a
rename's follows the substitution through nodes, interfaces, links and layout (`Retells`,
`AboutTold`). That the lab between edits is `Ready` is itself an invariant: it passed
Validate when it was taken (`SoundInv`) and is as Normalize leaves it (`Settled`), and a
whole lab of which both hold is ready (`ValidReady`). Validate alone would not do: that no
switch has its uplink in the older field is Normalize's work. Beside
`OurRules` the hypotheses are that the session asks what Validate asks (`OurChecks`) and
that what other programs write is a whole lab or cannot be read (`WholeLabs`), as for
`OurLabs`. TLC has checked `WholeInv`, `Settled` and `Ready` between edits on the
instance of `lab_edits`.

*Disk operations.* `OfflineWork` follows an operation from the states that it asked for to
its qemu-img call: then the workload was down, neither the session's lab nor the file told
it to run, and no change of the operation's own does; so that it starts only by a pass or
a file that told it to, and then `told` is set. `LabsAreLabs` is assumed: labs are records
of their kind, and so is what Normalize makes of them, which may set the desired state of
DHCP containers; these have no disk to operate on.

`DisksBacked` needs to know what is saved before it is saved: `FitInv` says that until a
save ends both the disks of before (`Plan`, with the file that was put aside back at its
place, `Undone`) and those of the lab to come fit the files, and `Course` which of the two
the lab file and the session have. It speaks of nothing once `hurt`, and the theorem of
nothing once an import was asked to take a listed disk's file (`taken = {} => FitInv` is
what is inductive); that the other disks have their files after such an import, which
`Backed` says too, only TLC has checked. `DisksFit` is assumed
of the first labs (each disk has an id, a path and, for a layer, a base of its own, and
its file) and of Normalize, which leaves disks alone.

`OperationTypes` follows each operation through its steps: what is snapped, asked for and put
aside is there exactly while the operation needs it, and every disk of the session's lab
and of the file has the fields of one.

`DataKept` holds when `hurt` too. `KeptSoFar` names for each operation the one file that
it may lose, and says that what it found is on another (`Beside`), or that the place it
moves a file to is empty; `Settles` that the lab file no longer names a disk when its file
is removed. What is `spoilt` in a step is what the property excepts (`SpoilStep`, from which
`AtRisk` and `UnderWrites` follow). The handlers count on two disks of the lab not sharing
a file (`OwnFiles`), which nothing checks. Until something is `hurt` or `taken` this is
proved (`UnhurtOwn`, from the disks having their files each), and `DataKeptUnhurt` has no
premise of the kind; after it `DataKept` assumes it of the disks that no import was asked
to take: see the next section.

*Tabs.* `IInv` of `ShellTabsProofs` has eight parts; the two that carry the proof say that
a tab's session is of its last generation and is copied by that generation's goroutine
(`Tabbed`, `Copied`), and that a session which is no longer shown is closed, or held by the
operation that will close it, or not yet set (`Held`). Restart takes a generation for
which no goroutine exists, and that is why what the old one still does is fenced.

*Status.* Nothing was asked for under a revision that is yet to come (`Asked`); the
comparison of revisions does the rest.

*Host.* `IInv` of `HostNetProofs` says that a call works on a task made from the entry it
was given (`Calling`), that what it will take back and what was there before are disjoint,
the former all before the place of the call (`Separate`), and that all interfaces before its place are as `StartMeans` asks
(`Progress`); `AllJoined` strengthens `Wired` with the bridge, which an interface found by
its name is not joined to again. Every end of a call, failure, deletion and reboot is one
case (`Dwindles`).

*Addresses.* `Places` is the assignment of slots that gives each interface, in the order of
their names, the slot of its hash or the next that none before it has. That there is one
(`Placeable`) is shown on a smallest set of interfaces without: the last of them by name is
taken away, the others are placed, and of fewer taken slots than there are one is free
(`FreeSlot`: the probe visits each slot, so that the least distance to a free one exists).
`AddressesDistinct` follows, for any hashes, numbers of slots and labs. `HostNetAssumption`
asks that the names of the interfaces of containers are distinct and in an order.

Only model-checked: liveness under fairness (`Settles`, `StatusSettles`, `Recovers`,
`KeyAnswered`, `Reaped`, `RetrySettles`, `ShowsReal`) and ENABLED, which are out of the
prover's reach. Every safety invariant and action property of the runs that are to pass is
stated by a theorem, `Backed` while `taken = {}` only.

## 5. What was found

Findings with a run:

* **The last workload of a kind is never cleaned up** (`reconciler_orphans`).
  `foxruntime.New` gives no VM runtime for a lab without VMs, nor a container
  runtime for one without containers, so their orphans stay.
* **A dead qemu-nbd under an exited task is not recovered from** (`disk_stuck`).
  The start unmounts the disk while the overlay is still mounted over it: busy,
  for ever.
* **A stopped container may keep its disk** (`disk_guard`). A task that ended by
  itself counts as stopped, so Stop never runs, and the guard of the disk
  operations lets them through.

What the models show beyond the runs; the named change of the instance reproduces
each of them:

* *Two Applies at once* (the properties without `~clash`, no edits or mishaps) violate
  `StatusTruth`, `AppliedRuns` and `NothingLeft`: both stop the daemon, one
  enables it on its lab, the other then writes its own drop-in, and its `enable
  --now` leaves the running daemon alone. Status names the second lab from then on,
  and "lab already applied" is all the UI says.
* *Two homes* (`StatusTruth` without `Misread`): after `make install` and before any
  Apply the unit runs `/root/.foxlab/default.lab`, and the controller reports the default
  lab of the user (`daemoncontrol/controller.go:199`): the UI takes the user's default lab
  for applied, and the daemon never reads it. An Apply of another lab then destroys the
  user's default lab and not root's, which ran: `lost` has it.
* *A torn unit file* (`RetrySettles` without its condition on `installed`): a write of
  `foxlabd.service` that is cut off leaves a unit that `systemctl cat` shows, so that
  ensureSystemUnit never writes it again (`daemoncontrol/controller.go:152`), and every
  retry fails at `enable`.
* *A failed switch leaves no daemon*: Apply stops the unit before it destroys the
  previous lab, and ends when that lab's file cannot be parsed. `RetrySettles` needs
  `Readable`: until the old file is mended or removed no retry succeeds. `lost` in
  `NothingLeft` names what nobody removes any more: workloads deleted from a file
  that the daemon did not get to, a file that was deleted, a truncated drop-in.
* *A layer and its base* (`OwnDisk` without its second case): after a crash
  between the mount and the marker, and a switch of the entry from the layer to its
  base, the container runs on the layer for its base, as the marker inside names the base.
* *A crash between connect and mount* leaves a device that `freeNBDDevice` offers
  again and qemu-nbd refuses, so that later starts fail: `NoStray` and `Recovers` are
  checked with forward failures (`MCForward`), which the code undoes.
* *A start rolled back under a cancelled context* cannot ask for its task and takes
  the overlay from under it: `PullsNoTask` excepts the mode `deferred`.
* *finishTabSession* uses the tab's buffer after its unlock: a new session's buffer
  may lose its reply writer. `Connected` and `Fenced` allow for it; the stricter
  property, that the buffer of a running tab answers to its session, fails.

Met while modelling, in the code as the models have it; no line of the repository says
otherwise, so that they are no findings of a run. *Host network*:

* *The hash of a container leaves out what its interfaces lead to*
  (`containerd/runtime_support.go:167`): a direct link, an uplink's mode or a switch's
  MacNAT mode may change under a container that runs, which keeps its old attachment.
  `StartMeans` therefore speaks of interfaces on a switch.
* *An address is only ever added* (`ip addr replace`): when the places of the others
  move, a running container keeps its old address beside the new one, and two running
  containers may have the same one. `AddressesApart` is about what the lab gives.
* CleanupLab deletes the rules of uplinks but not those of NAT switches; DestroyLab
  takes the bridges from containers that it could not destroy; the MacNAT sessions of a
  lab that needs none any more stay (`hostnet/macnat.go:15`).
* A cancelled context cancels the rollback of AttachContainer as well (`DiesAttaching`); an
  interface whose look-up failed for a moment is deleted before it is made anew
  (`hostnet/attach.go:62-69`), and if a command fails then it is gone: `KeepsAttached`
  is about the others (`LookUpFails`).
* *startVM compares what runs, not what is saved* (`virt/libvirt.go:174`): a persistent
  configuration that someone edits stays until the next change. `StartMeans` excepts it.
* startVM takes over a domain of the same name without a look at its metadata; a VM on a
  NAT switch has no NAT rules unless a container joins it (`Ensures`).

*UI*:

* *A key for a shell that does not read* holds the UI thread (`topologyui/tabs.go:770`,
  `containerd/shell_session.go:63`): no tab can be closed and the program cannot be quit
  until the shell reads or ends. `KeyAnswered` excepts it. The answer to a terminal query
  is written to the same pipe under the buffer's lock (`terminal_buffer.go:86`), which
  rendering takes as well; that lock is not modelled.
* A status that was read in the background and answered after a synchronous refresh of
  the same revision overwrites the newer states, for one period (`NeverBack` speaks of
  revisions, which is what the code compares).
* After a failed Apply a pending start shows "starting" for as long as the state is
  "missing"; a snapshot of publishError has no states, so that nodes keep what they showed.
* Connect mode remembers an interface by its place: an edit in between makes it connect
  another. Each of its transactions does what it says (`OnlyNamed`); cancelling the mode
  leaves the interface disconnected. The explorer's edit is bound to a row in the same way.
* stopVNCViewer forgets a viewer that ignores SIGTERM.

*Disks*: what the disk operations allow. The first three are in the model, and the
properties except them by name; of the others they do not speak:

* *importing the file of a disk that is listed* (`topology/disks.go:22`,
  `topologyui/disk_import_browser.go:81`) moves it from under that disk or gives two disks
  one file: `Backed` and `GivesUp` except the disks of `taken`;
* *merging a layer under its siblings* changes their base, and so does a workload that runs
  on a base with layers (`topology/disks.go:440`): `OnSiblings`, `UnderWrites`;
* *a forced shrink* cuts off what is there (`topology/disks.go:507`): `InReach`;
* *a file that is open without being attached*: a workload that had the disk when it was
  detached, or that runs on another layer of a merge's base, may run while qemu-img works:
  requireDiskOffline looks only at the workload the disk is attached to, and so does
  `WorksOffline`;
* a commit makes the base larger than the lab says;
* the menu's delete detaches first, so that the file of a running workload may go;
* a pass of the daemon that was under way before the operation starts the workload
  while qemu-img works, since StatesConfirmed is about the states and not about the pass;
* a change that is saved but not read back is undone in the files and not in the lab;
* no rule of Validate says that two disks have two paths. A kill inside a delete leaves the
  lab with a disk whose file is aside; when that disk is renamed and another is created
  under its old id, at the same path, both have one file, and to delete one is to delete
  the other's. The premise of `DataKept` excludes it; it takes three operations, more than
  `disk_ops` allows.

*Containers*: a disk taken out of the entry of a container whose unmount then fails stays
mounted and locked until the container is stopped or removed: the start goes on without a
disk, and nothing looks at the mount again (`containerd/runtime.go`,
inspectExistingContainer).

*Not modelled, read only*: a file copy that ends early may be installed as a success
(`containerd/file_transfer.go`), and one cut off may leave half a file in the guest
(`virt/file_transfer.go`); `resolv.conf` is written in place, so that a crash leaves it
empty until the next start; Console.Close frees the stream under a Write
(`virt/console.go:161`).

## 6. What is not modelled, and the plan

Not modelled, and why:

* *Drawing, layout, key decoding, the terminal buffer*: no state of theirs is read by
  another component, and what they compute is text.
* *The syntax of commands, menus' shortcuts and highlighting, the planner of wires*: text
  again. What a command or a menu asks for is in `LabCommands` and `DiskCommands`.
* *Generated text*: dnsmasq's configuration, `resolv.conf`, the XML of a domain (its
  comparison is in `HostNet`, as a record).
* *File transfer, image pull*: a stream of bytes through a foreign API, with no state
  that lasts but the file.
* *The console's stream and VNC viewers*: what a freed stream or a viewer does is
  libvirt's or the viewer's; the code has a counter and a lock, no protocol.
* *Containers without a disk* in `ContainerDisk`, and a disk that is taken out of an entry
  that stays; ownership labels, of which one lab uses one.
* *The user daemon of older versions*, `-once`, *packaging*.

Next, in this order:

1. `ContainerDisk` with containers that have no disk, so that a disk may be detached from
   one that is mounted; the run to come would show the stranded mount named above.
2. File transfer, as a copy whose stream ends early, against what its caller reports.
