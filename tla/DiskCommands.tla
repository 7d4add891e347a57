---------------------------- MODULE DiskCommands ----------------------------
(***************************************************************************)
(* How disk operations are asked for in the terminal UI (topologyui): the   *)
(* command of the palette, the disks that the menu and the panel of a       *)
(* workload list, and the disk explorer with its import browser.  Each      *)
(* offers the operations of DiskOps on some disks and with some arguments.  *)
(***************************************************************************)
EXTENDS DiskOps

Anywhere == Targets \union {Nowhere}

-----------------------------------------------------------------------------
(* The command *)

ExecuteDiskCommand ==
  \/ \E id \in DiskIds, at \in Anywhere, size \in Sizes : CreateDisk(id, at, size)
  \/ \E at \in Targets : DetachDisk(at)
  \/ \E id \in Registered :
       \/ \E at \in Targets : AttachDisk(id, at)
       \/ \E size \in Sizes, force \in BOOLEAN : ResizeDisk(id, size, force)
       \/ \E new \in DiskIds : DiskRename(id, new) \/ CreateLayer(id, new, Nowhere)
       \/ DiskMerge(id) \/ DiskDelete(id)

-----------------------------------------------------------------------------
(* The disks of a workload, in its menu and its panel *)

WorkloadAt(at) == CHOOSE w \in cur.work : At(w) = at
CurrentDiskPath(at) == WorkloadAt(at).disk

\* The disk that the workload has: the one attached to it or, where none is,
\* the one whose file it names.
Active(at) ==
  IF Attached(at) # {} THEN Attached(at)
  ELSE {d \in cur.disks : d.path = CurrentDiskPath(at) /\ d.path # NoPath}

AttachableDisks(at) == {d \in cur.disks : d.kind = "base" \/ (d.kind = "data" /\ at.kind = "container")}

\* A layer that another workload has is not listed.
LayerDisksForMenu(at) ==
  {d \in cur.disks : d.kind = "layer" /\ (d.at \in {Nowhere, at} \/ d.path = CurrentDiskPath(at))}

DiskMenuEntries(at) == AttachableDisks(at) \union LayerDisksForMenu(at)

\* A container keeps its own data on a base disk, and is not offered a layer on it.
EntryKind(d, at) == IF d.kind = "base" /\ at.kind = "container" THEN "data" ELSE d.kind

SelectDiskMenuEntry(at) == \E d \in DiskMenuEntries(at) \ Active(at) : AttachDisk(d.id, at)

\* A new disk is not attached; a new layer is.
CreateNamedDisk == \E id \in DiskIds, size \in Sizes : CreateDisk(id, Nowhere, size)
CreateNamedLayer(at) ==
  \E d \in DiskMenuEntries(at) \ Active(at), id \in DiskIds :
    EntryKind(d, at) = "base" /\ CreateLayer(d.id, id, at)

MergeDisk(at) == \E d \in DiskMenuEntries(at) : d.kind = "layer" /\ DiskMerge(d.id)

\* The disk in use is detached first.
DeleteDiskMenuEntry(at) ==
  \/ DeleteActive(at)
  \/ \E d \in DiskMenuEntries(at) : DiskDelete(d.id)

DiskMenu ==
  \/ CreateNamedDisk
  \/ \E at \in Targets :
       \/ SelectDiskMenuEntry(at) \/ DetachDisk(at) \/ DeleteDiskMenuEntry(at)
       \/ CreateNamedLayer(at) \/ MergeDisk(at)

-----------------------------------------------------------------------------
(* The explorer *)

DiskExplorerRows == {d \in cur.disks : d.kind = "layer" => d.base # None}

\* A layer has its new sibling made on the base of both.
BaseOf(d) == IF d.kind = "layer" THEN d.base ELSE d.id

RunDiskExplorerAction ==
  \/ CreateNamedDisk
  \/ \E d \in DiskExplorerRows :
       \/ /\ d.kind \in {"base", "layer"} /\ BaseOf(d) \in Registered
          /\ \E id \in DiskIds : CreateLayer(BaseOf(d), id, Nowhere)
       \/ d.kind = "layer" /\ DiskMerge(d.id)
       \/ DiskDelete(d.id)

\* The row that an open edit is for is known by its place, and the edit stays
\* open beside edits in other tabs: any row may be the one that is committed.
CommitDiskExplorerEdit ==
  \E d \in DiskExplorerRows :
    \/ \E new \in DiskIds : DiskRename(d.id, new)
    \/ \E size \in Sizes : ResizeDisk(d.id, size, FALSE)

\* A file of the directory shown, or a path typed.
DiskImportBrowser == \E source \in DOMAIN files, id \in DiskIds : DiskImport(source, id)

DiskExplorer == RunDiskExplorerAction \/ CommitDiskExplorerEdit \/ DiskImportBrowser

-----------------------------------------------------------------------------
(* The program *)

\* run and stop, of the menu or of a command
RunOrStop == \E at \in Targets, state \in {"running", "stopped"} : SetDesired(at, state)

Asked == phase = "idle" /\ step = "none" /\ (ExecuteDiskCommand \/ DiskMenu \/ DiskExplorer \/ RunOrStop)

CommandNext == Asked \/ Works \/ Killed \/ Restarted \/ Daemon

CommandSpec == Init /\ [][CommandNext]_vars
=============================================================================
