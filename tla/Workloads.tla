----------------------------- MODULE Workloads -----------------------------
(***************************************************************************)
(* The two views of a workload that the reconciler compares: its entry in  *)
(* the .lab file (internal/lab) and what libvirt or containerd have of it  *)
(* on the host (the state names of internal/virt and internal/containerd). *)
(***************************************************************************)
EXTENDS Naturals, FiniteSets

CONSTANTS VMs,          \* workloads run by libvirt
          Containers,   \* workloads run by containerd
          DHCP,         \* the containers with service: dhcp
          Disked,       \* the containers with a data disk
          Configs,      \* what an entry asks for beyond its desired state
          NoConfig      \* the configuration of what does not run

ASSUME WorkloadsAssumption == /\ VMs \cap Containers = {}
                              /\ DHCP \subseteq Containers
                              /\ Disked \subseteq Containers
                              /\ NoConfig \notin Configs

All == VMs \cup Containers

\* One workload in the lab file. What else a stopped workload's entry holds
\* matters only when it is started.
Absent   == [desired |-> "absent", config |-> NoConfig]
Stopped  == [desired |-> "stopped", config |-> NoConfig]
Wants(c) == [desired |-> "running", config |-> c]
Entry    == {Absent, Stopped} \cup {Wants(c) : c \in Configs}
Labs     == [All -> Entry]

\* One workload on the host. A configuration is told apart only while the
\* workload runs: libvirt redefines and containerd recreates it otherwise.
DeadStates == {"missing", "shutoff", "created", "stopped"}
IdleStates == DeadStates \cup {"created-mounted", "paused"}
Idle(s)    == [state |-> s, config |-> NoConfig]
Running(c) == [state |-> "running", config |-> c]
HostState  == {Idle(s) : s \in IdleStates} \cup {Running(c) : c \in Configs}

\* Entry e is fulfilled by h. Nothing is asked of a workload without entry.
Fulfilled(e, h) == CASE e.desired = "running" -> h = Running(e.config)
                     [] e.desired = "stopped" -> h.state \in DeadStates
                     [] OTHER -> TRUE

-----------------------------------------------------------------------------
(* What one runtime call can make of workload w in state h. A call that    *)
(* returns an error, is cancelled or dies with the process leaves any of   *)
(* the states on its way.                                                  *)

MountedStates(w) == IF w \in Disked THEN {"created-mounted"} ELSE {}
ContainerStates(w) == {"missing", "created", "stopped"} \cup MountedStates(w)

StartLeaves(w, c, h) ==
    IF w \in VMs
    THEN IF h = Running(c) THEN {h} ELSE {h, Idle("shutoff"), Running(c)}
    ELSE {h, Running(c)} \cup {Idle(s) : s \in ContainerStates(w)}

\* Stop of a VM destroys and undefines it; of a container, deletes its task.
StopDone(w, h) == IF w \in VMs \/ h.state = "missing" THEN Idle("missing")
                                                       ELSE Idle("created")
StopLeaves(w, h) ==
    IF w \in VMs THEN {h, Idle("shutoff"), Idle("missing")}
                 ELSE {h, StopDone(w, h)} \cup
                      (IF h.state = "missing" THEN {}
                       ELSE {Idle(s) : s \in {"stopped"} \cup MountedStates(w)})

CleanLeaves(w, h) ==
    IF w \in VMs THEN {h, Idle("shutoff"), Idle("missing")}
    ELSE IF h.state = "missing" THEN {h}
    ELSE {h} \cup {Idle(s) : s \in {"missing", "created", "stopped"}}
=============================================================================
