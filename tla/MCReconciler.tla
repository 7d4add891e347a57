---------------------------- MODULE MCReconciler ----------------------------
(***************************************************************************)
(* Small labs for TLC: one VM, a DHCP container and a container with a     *)
(* disk.                                                                   *)
(***************************************************************************)
EXTENDS Reconciler

CONSTANTS vm, dhcp, disked, c1, c2

MCVMs        == {vm}
MCContainers == {dhcp, disked}
MCDHCP       == {dhcp}
MCDisked     == {disked}
MCConfigs    == {c1, c2}
MCAllRunning == [w \in MCVMs \cup MCContainers |-> Wants(c1)]
MCInitLabs   == {MCAllRunning}
=============================================================================
