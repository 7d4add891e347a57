-------------------------- MODULE MCContainerDisk --------------------------
(***************************************************************************)
(* Two containers, two NBD devices and two disks: a base that has been in  *)
(* use and a layer of it, which holds the base's marker.                   *)
(***************************************************************************)
EXTENDS ContainerDisk

CONSTANTS a, b, base, layer

MCContainers == {a, b}
MCDisks      == {base, layer}
MCDevices    == {0, 1}
MCLayered    == [d \in MCDisks |-> base]
MCForward    == {"fail", "exit", "death"}
MCEnds       == {"exit", "death"}
MCExits      == {"exit"}
=============================================================================
