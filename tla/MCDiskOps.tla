----------------------------- MODULE MCDiskOps -----------------------------
(* A base disk with a layer that a virtual machine has, a container without *)
(* a disk, a file in the disk storage that the one lab has as a data disk   *)
(* of another name and the other does not list: each may import it where it *)
(* is, so that two disks come to share it or one has it.                    *)
EXTENDS DiskCommands

MCDiskIds == {"n", "e"}
MCBackups == {<<"aside", "1">>}
MCSizes == {2}
MCNone == [id \in {} |-> id]

MCFirstFiles ==
  Storage("b") :> File({"of b"}, NoPath, 1) @@ LayerPath("l") :> File({"of l"}, Storage("b"), 1)
  @@ Storage("e") :> File({"of e"}, NoPath, 3)

VM == [kind |-> "vm", id |-> "v"]
Container == [kind |-> "container", id |-> "c"]
Work(at, disk, desired) == [kind |-> at.kind, id |-> at.id, disk |-> disk, desired |-> desired, dhcp |-> FALSE]

Running ==
  [disks |-> {NewDisk("b", Storage("b"), "base", None, Nowhere, 1),
              NewDisk("l", LayerPath("l"), "layer", "b", VM, 0)},
   work  |-> {Work(VM, LayerPath("l"), "running"), Work(Container, NoPath, "stopped")}]

Stopped ==
  [disks |-> Running.disks \union {NewDisk("d", Storage("e"), "data", None, Nowhere, 3)},
   work  |-> {Work(VM, LayerPath("l"), "stopped"), Work(Container, NoPath, "stopped")}]

MCHandLabs == {Running, Stopped}

MCLoads(l) == DiskProblems(l.disks, l.work) = {} /\ KindProblems(l.disks) = {}
\* Normalize leaves these labs alone: none has a DHCP container.
MCNormal(l) == l
=============================================================================
