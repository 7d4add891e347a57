---------------------------- MODULE Convergence ----------------------------
(***************************************************************************)
(* What foxlabd promises, with its steps, observations, failures and       *)
(* restarts left out: whatever it does to the host is what the version of  *)
(* the lab file it last read asks for, or a half-done part of that.        *)
(*                                                                         *)
(*   file   the .lab file, changed by its editors                          *)
(*   basis  the version of the file the daemon works from                  *)
(*   host   the domains and containers that exist                          *)
(*   drifts how often something else than the daemon changed the host      *)
(*                                                                         *)
(* Reconciler.tla is the detailed specification and implements this one.   *)
(***************************************************************************)
EXTENDS Workloads

VARIABLES file, basis, host, drifts

cvars == <<file, basis, host, drifts>>

\* What the daemon may make of workload w in state h under entry e: it starts
\* only what e wants running, with e's configuration, and leaves a domain that
\* already runs so alone. Anything else it does takes the workload down.
Justified(w, e, h, new) ==
    \/ new = h
    \/ /\ new.state \notin {"running", "paused"}
       /\ ~ (w \in VMs /\ e.desired = "running" /\ h = Running(e.config))
    \/ e.desired = "running" /\ new = Running(e.config)

Init == /\ file \in Labs
        /\ basis \in Labs
        /\ host \in [All -> HostState]
        /\ drifts = 0

Edit == /\ file' \in Labs
        /\ UNCHANGED <<basis, host, drifts>>

Adopt == /\ basis' = file
         /\ UNCHANGED <<file, host, drifts>>

Act == /\ host' \in [All -> HostState]
       /\ \A w \in All : Justified(w, basis[w], host[w], host'[w])
       /\ UNCHANGED <<file, basis, drifts>>

\* Guests shut down, tasks exit, operators use virsh and ctr.
Drift == /\ host' \in [All -> HostState]
         /\ drifts' = drifts + 1
         /\ UNCHANGED <<file, basis>>

Next == Edit \/ Adopt \/ Act \/ Drift

Spec == Init /\ [][Next]_cvars
=============================================================================
