----------------------------- MODULE Reconciler -----------------------------
(***************************************************************************)
(* foxlabd: the loop of internal/reconciler, the step of internal/workload *)
(* it runs and the composite runtime of internal/foxruntime, against a lab *)
(* file that editors replace and a host that drifts, with failing runtime  *)
(* calls, cancellation and restarts of the process.                        *)
(*                                                                         *)
(* libvirt and containerd appear through what a call can make of one       *)
(* workload: done, or left half-done. ContainerDisk.tla opens one of them. *)
(***************************************************************************)
EXTENDS Workloads

CONSTANTS InitLabs,     \* the lab files the daemon may find
          Broken,       \* workloads whose start always fails (image missing...)
          None,         \* no workload
          MaxEdits,     \* bound: edits of the file
          MaxMishaps    \* bound: failures, cancellations, crashes and drifts together

ASSUME ReconcilerAssumption ==
    /\ InitLabs \subseteq Labs
    /\ Broken \subseteq All
    /\ None \notin All
    /\ MaxEdits \in Nat /\ MaxMishaps \in Nat

VARIABLES
    file,       \* the lab file, as its last atomic replacement left it
    rev,        \* its signature (modification time and size)
    host,       \* what libvirt and containerd have
    pc,         \* where the daemon is; "stopped" and "failed": no process
    cancelled,  \* the context of the process is cancelled (SIGTERM)
    lastSig,    \* lastSignature of Run
    loaded,     \* the lab of the current step
    vmrt,       \* its VM runtime: none (nil), failing or ok
    obs,        \* result.States: "" where the map has no key
    errs,       \* result.Errors is not empty
    todo,       \* workloads the step has not come to yet
    cur,        \* the workload whose Start or Stop is under way
    status,     \* the snapshot in the status store
    calm,       \* history: the host has not drifted since the step loaded
    edits, drifts, faults   \* used up of the bounds; faults: all mishaps but drifts

life   == <<pc, cancelled, lastSig>>
work   == <<loaded, vmrt, obs, errs, todo, cur>>
counts == <<edits, drifts, faults>>
vars   == <<file, rev, host, life, work, status, calm, counts>>

NoObs     == [w \in All |-> ""]
NoStatus  == [states |-> NoObs, errs |-> FALSE, shown |-> FALSE]
OnlyError == [states |-> NoObs, errs |-> TRUE, shown |-> TRUE]

Present(lab, K) == \E w \in K : lab[w] # Absent
Wanted(w)       == loaded[w].desired
OrphansAlive(K) == {w \in K : loaded[w] = Absent /\ host[w].state = "running"}  \* mutant
Orphans(K)      == {w \in K : loaded[w] = Absent}

\* DHCP containers first, then VMs, then the other containers.
PhaseByKind(w) == IF w \in VMs THEN 1 ELSE 2    \* mutant
Phase(w) == IF w \in DHCP THEN 1 ELSE IF w \in VMs THEN 2 ELSE 3
Turn(w)  == w \in todo /\ \A u \in todo : Phase(w) <= Phase(u)

-----------------------------------------------------------------------------
\* The call under way for w, what it leaves, and what it does. The stand-in for
\* a libvirt that cannot be reached does nothing.
OpLeaves(w) == IF w \in VMs /\ vmrt = "failing" THEN {host[w]}
               ELSE IF Wanted(w) = "running" THEN StartLeaves(w, loaded[w].config, host[w])
               ELSE StopLeaves(w, host[w])
OpDoneRereads(w) == IF file[w].desired = "running" THEN Running(file[w].config)   \* mutant
                    ELSE StopDone(w, host[w])
OpDone(w)   == IF Wanted(w) = "running" THEN Running(loaded[w].config)
                                        ELSE StopDone(w, host[w])

\* A cleanup loop over the orphans of K that stops or fails somewhere.
CleanedPartly(K) == host' \in {g \in [All -> HostState] :
                        \A w \in All : IF w \in Orphans(K) THEN g[w] \in CleanLeaves(w, host[w])
                                                           ELSE g[w] = host[w]}
CleanedAll(K) == host' = [w \in All |-> IF w \in Orphans(K) THEN Idle("missing") ELSE host[w]]

\* Failures use up MaxMishaps, but for those of a broken start, of a runtime
\* that was not there when the step began, and of a cancelled context.
Doomed(w) == \/ w \in Broken /\ Wanted(w) = "running"
             \/ w \in VMs /\ vmrt = "failing"
Spare     == drifts + faults < MaxMishaps
Fault     == Spare /\ faults' = faults + 1
FaultOr(excuse) == IF excuse THEN UNCHANGED faults ELSE Fault

-----------------------------------------------------------------------------
(* The process: main of cmd/foxlabd and Runner.Run.                        *)

\* ctx.Err() is nil, asked before each load, cleanup and call.
Unchecked == TRUE   \* mutant
Live      == ~cancelled

Up == pc \notin {"stopped", "failed"}

\* systemd (after a failure) or the operator starts the process; Run stats
\* the file and makes its first step.
Launch == /\ ~Up
          /\ pc' = "load"
          /\ cancelled' = FALSE
          /\ lastSig' = rev
          /\ status' = NoStatus
          /\ UNCHANGED <<file, rev, host, work, calm, counts>>

Tick == /\ pc = "idle"
        /\ pc' = "load"
        /\ UNCHANGED <<file, rev, host, cancelled, lastSig, work, status, calm, counts>>

Watch == /\ pc = "idle"
         /\ rev # lastSig
         /\ pc' = "load"
         /\ UNCHANGED <<file, rev, host, cancelled, lastSig, work, status, calm, counts>>

\* runStep stats the file again after the step.
Sign == /\ pc = "sign"
        /\ lastSig' = rev
        /\ pc' = "idle"
        /\ UNCHANGED <<file, rev, host, cancelled, work, status, calm, counts>>

Cancel == /\ Up /\ Live
          /\ Fault
          /\ cancelled' = TRUE
          /\ UNCHANGED <<file, rev, host, pc, lastSig, work, status, calm, edits, drifts>>

\* The process ends in the middle of whatever it does.
Dies == /\ IF pc = "op"
           THEN /\ host' \in {[host EXCEPT ![cur] = h] : h \in OpLeaves(cur)}
           ELSE IF pc = "vmorphans" /\ vmrt = "ok" THEN CleanedPartly(VMs)
           ELSE IF pc = "ctorphans" /\ Present(loaded, Containers) THEN CleanedPartly(Containers)
           ELSE UNCHANGED host
        /\ status' = NoStatus
        /\ vmrt' = "none" /\ obs' = NoObs /\ errs' = FALSE /\ todo' = {} /\ cur' = None
        /\ UNCHANGED <<file, rev, cancelled, lastSig, loaded, calm, edits, drifts>>

\* main does not wait for Run: the status server ends first on SIGTERM.
Exit == Up /\ cancelled /\ pc' = "stopped" /\ Dies /\ UNCHANGED faults

Crash == Up /\ Fault /\ pc' = "failed" /\ Dies

-----------------------------------------------------------------------------
(* Runner.Step *)

LoadLab ==
    /\ pc = "load" /\ Live
    /\ loaded' = file
    /\ \/ vmrt' = (IF Present(file, VMs) THEN "ok" ELSE "none") /\ UNCHANGED faults
       \/ Present(file, VMs) /\ vmrt' = "failing" /\ Fault
    /\ obs' = NoObs /\ errs' = FALSE /\ cur' = None
    /\ todo' = {w \in All : file[w] # Absent}
    /\ calm' = TRUE
    /\ pc' = "states"
    /\ UNCHANGED <<file, rev, host, cancelled, lastSig, status, edits, drifts>>

LoadFails ==
    /\ pc = "load" /\ Live
    /\ Fault
    /\ status' = OnlyError
    /\ pc' = "sign"
    /\ UNCHANGED <<file, rev, host, cancelled, lastSig, work, calm, edits, drifts>>

LoadCancelled ==
    /\ pc = "load" /\ cancelled
    /\ pc' = "sign"
    /\ UNCHANGED <<file, rev, host, cancelled, lastSig, work, status, calm, counts>>

\* What Composite.States reports of w, when its runtime fails and when not.
\* libvirt fails as a whole; containerd keeps what it has read so far and the
\* "missing" it assumed of the container it failed on.
NoTask == {"missing", "created", "created-mounted"}
Reading(w, failed) ==
    IF loaded[w] = Absent THEN {""}
    ELSE IF ~failed THEN {host[w].state}
    ELSE IF w \in VMs THEN {""} ELSE {"", "missing", host[w].state}

\* A state that cannot be read is "unknown" and no error.
Blind(w) == loaded[w] # Absent /\ host[w].state \notin NoTask

ReadStates ==
    /\ pc = "states"
    /\ \E vmFails, ctFails \in BOOLEAN, blind \in SUBSET {w \in All : Blind(w)} :
        /\ vmFails => Present(loaded, VMs)
        /\ vmrt = "failing" => vmFails
        /\ ctFails => Present(loaded, Containers)
        /\ FaultOr(cancelled \/ (vmFails = (vmrt = "failing") /\ ~ctFails /\ blind = {}))
        /\ obs' \in {o \in [All -> {"", "unknown", "running"} \cup IdleStates] : \A w \in All :
                        o[w] \in IF w \in blind /\ ~(w \in VMs /\ vmFails) THEN {"unknown"}
                                 ELSE Reading(w, IF w \in VMs THEN vmFails ELSE ctFails)}
        /\ errs' = (vmFails \/ ctFails \/ ~Live)
    /\ pc' = (IF Live THEN "vmorphans" ELSE "publish")
    /\ UNCHANGED <<file, rev, host, cancelled, lastSig, loaded, vmrt, todo, cur, status, calm,
                   edits, drifts>>

\* Composite.CleanupOrphans over one runtime, when there is one that can clean.
Clean(K, able) ==
    /\ \/ ~able /\ UNCHANGED <<host, errs, faults>>
       \/ able /\ CleanedAll(K) /\ UNCHANGED <<errs, faults>>
       \/ able /\ CleanedPartly(K) /\ errs' = TRUE /\ FaultOr(cancelled)
    /\ UNCHANGED <<file, rev, cancelled, lastSig, loaded, vmrt, obs, todo, cur, status, calm,
                   edits, drifts>>

CleanVMs        == pc = "vmorphans" /\ pc' = "ctorphans" /\ Clean(VMs, vmrt = "ok")
CleanContainers == pc = "ctorphans" /\ pc' = "refs" /\ Clean(Containers, Present(loaded, Containers))

\* reconcileRef: a start is always tried; a stop only when there is something
\* to stop in the states read at the beginning of the step.
StopNeeded(w) == obs[w] \notin DeadStates \cup {""} \/ (obs[w] = "created" /\ w \in Disked)
Acts(w)       == Wanted(w) = "running" \/ StopNeeded(w)

Pass(w) == /\ pc = "refs" /\ Live /\ Turn(w)
           /\ ~Acts(w)
           /\ todo' = todo \ {w}
           /\ UNCHANGED <<file, rev, host, life, loaded, vmrt, obs, errs, cur, status, calm, counts>>

Begin(w) == /\ pc = "refs" /\ Live /\ Turn(w)
            /\ Acts(w)
            /\ cur' = w
            /\ pc' = "op"
            /\ UNCHANGED <<file, rev, host, cancelled, lastSig, loaded, vmrt, obs, errs, todo,
                           status, calm, counts>>

Reported(w) == IF Wanted(w) = "running" THEN "running" ELSE "stopped"

ReturnedHolding(next) == /\ todo' = todo \ {cur}    \* mutant
                         /\ UNCHANGED cur
                         /\ pc' = next
                         /\ UNCHANGED <<file, rev, cancelled, lastSig, loaded, vmrt, status, calm,
                                        edits, drifts>>
Returned(next) == /\ todo' = todo \ {cur}
                  /\ cur' = None
                  /\ pc' = next
                  /\ UNCHANGED <<file, rev, cancelled, lastSig, loaded, vmrt, status, calm, edits, drifts>>

OpSucceeds == /\ pc = "op" /\ ~Doomed(cur)
              /\ host' = [host EXCEPT ![cur] = OpDone(cur)]
              /\ obs' = [obs EXCEPT ![cur] = Reported(cur)]
              /\ Returned("refs")
              /\ UNCHANGED <<errs, faults>>

\* A failure is noted and the step goes on with the next workload.
AbortsStep   == "publish"   \* mutant
AfterFailure == "refs"
Swallowed    == errs        \* mutant
Appended     == TRUE

OpFails == /\ pc = "op"
           /\ FaultOr(cancelled \/ Doomed(cur))
           /\ host' \in {[host EXCEPT ![cur] = h] : h \in OpLeaves(cur)}
           /\ errs' = Appended
           /\ Returned(AfterFailure)
           /\ UNCHANGED obs

Abandon == /\ pc = "refs" /\ cancelled /\ todo # {}
           /\ errs' = TRUE
           /\ pc' = "publish"
           /\ UNCHANGED <<file, rev, host, cancelled, lastSig, loaded, vmrt, obs, todo, cur, status,
                          calm, counts>>

AllDone == /\ pc = "refs" /\ todo = {}
           /\ pc' = "publish"
           /\ UNCHANGED <<file, rev, host, cancelled, lastSig, work, status, calm, counts>>

\* VNCPorts and Close may add an error of their own.
SnapshotOrError(e) == IF errs \/ e THEN OnlyError ELSE [states |-> obs, errs |-> FALSE, shown |-> TRUE]   \* mutant
Snapshot(e)        == [states |-> obs, errs |-> errs \/ e, shown |-> TRUE]

Publish == /\ pc = "publish"
           /\ \E e \in BOOLEAN :
                /\ FaultOr(cancelled \/ ~e)
                /\ status' = Snapshot(e)
           /\ vmrt' = "none" /\ obs' = NoObs /\ errs' = FALSE /\ todo' = {}
           /\ pc' = "sign"
           /\ UNCHANGED <<file, rev, host, cancelled, lastSig, loaded, cur, calm, edits, drifts>>

-----------------------------------------------------------------------------
(* The surroundings: editors replace the lab file, the host drifts.        *)

Edit == /\ edits < MaxEdits
        /\ edits' = edits + 1
        /\ \E w \in All, e \in Entry : file' = [file EXCEPT ![w] = e]
        /\ rev' = rev + 1
        /\ UNCHANGED <<host, life, work, status, calm, drifts, faults>>

DriftsTo(w) == IF w \in VMs
               THEN {Idle(s) : s \in {"missing", "shutoff", "paused"}} \cup {Running(c) : c \in Configs}
               ELSE {Idle(s) : s \in {"missing", "created", "stopped", "paused"}}

Drift == /\ Spare
         /\ drifts' = drifts + 1
         /\ \E w \in {u \in All : host[u].state # "missing"} :
              \E h \in DriftsTo(w) : host' = [host EXCEPT ![w] = h]
         /\ calm' = FALSE
         /\ UNCHANGED <<file, rev, life, work, status, edits, faults>>

-----------------------------------------------------------------------------
Init == /\ file \in InitLabs
        /\ rev = 1
        /\ host = [w \in All |-> Idle("missing")]
        /\ pc = "stopped" /\ cancelled = FALSE /\ lastSig = 0
        /\ loaded = [w \in All |-> Absent]
        /\ vmrt = "none" /\ obs = NoObs /\ errs = FALSE /\ todo = {} /\ cur = None
        /\ status = NoStatus
        /\ calm = TRUE
        /\ edits = 0 /\ drifts = 0 /\ faults = 0

Step == \/ LoadLab \/ LoadFails \/ LoadCancelled \/ ReadStates \/ CleanVMs \/ CleanContainers
        \/ (\E w \in All : Pass(w) \/ Begin(w))
        \/ OpSucceeds \/ OpFails \/ Abandon \/ AllDone \/ Publish

Run  == Tick \/ Watch \/ Sign \/ Step

Next == Launch \/ Run \/ Cancel \/ Exit \/ Crash \/ Edit \/ Drift

Spec == Init /\ [][Next]_vars

\* The ticker of Run keeps firing, and the runtime calls of a step return;
\* main ends once cancelled; systemd restarts a process that failed
\* (Restart=on-failure). Nobody need start a daemon that was stopped.
Fairness == WF_vars(Run) /\ WF_vars(Exit) /\ WF_vars(Launch /\ pc = "failed")

FairSpec == Spec /\ Fairness
-----------------------------------------------------------------------------
(* Properties *)

PCs == {"stopped", "failed", "idle", "load", "states", "vmorphans", "ctorphans", "refs", "op",
        "publish", "sign"}
ObsStates == {"", "unknown", "running"} \cup IdleStates
Statuses  == [states : [All -> ObsStates], errs : BOOLEAN, shown : BOOLEAN]

\* Every variable has its type; a call is under way exactly at "op".
TypeOK == /\ file \in Labs /\ loaded \in Labs
          /\ rev \in Nat /\ lastSig \in Nat
          /\ host \in [All -> HostState]
          /\ pc \in PCs
          /\ cancelled \in BOOLEAN /\ errs \in BOOLEAN /\ calm \in BOOLEAN
          /\ vmrt \in {"none", "ok", "failing"}
          /\ obs \in [All -> ObsStates]
          /\ todo \subseteq All
          /\ IF pc = "op" THEN cur \in todo ELSE cur = None
          /\ status \in Statuses
          /\ edits \in Nat /\ drifts \in Nat /\ faults \in Nat

\* A snapshot that reports no errors tells the truth of the lab the step has
\* loaded: every workload of it is as its entry asks, the states shown are those
\* of the host, and what the lab no longer has is gone from the runtimes the lab
\* still uses. Clients take such a snapshot as confirmation before they touch a
\* disk (Runner.publishStatus; StatesConfirmed in topology and topologyui). The
\* states are read once, at the beginning of a step, and used until its end.
Agrees(o, h) == o = h.state \/ (o = "stopped" /\ h.state \in DeadStates)
Served(K)    == Present(loaded, K)
Honest == status.shown /\ ~status.errs /\ calm =>
             \A w \in All :
               /\ loaded[w] # Absent => /\ Fulfilled(loaded[w], host[w])
                                        /\ Agrees(status.states[w], host[w])
               /\ (w \in VMs /\ Served(VMs)) \/ (w \in Containers /\ Served(Containers)) =>
                     (loaded[w] = Absent => host[w].state = "missing")
HonestStatus == pc \in {"sign", "idle"} => Honest

\* Why it holds: what a step without errors, on a host that kept calm, knows at
\* each of its points.
\*   Progress   what is still to do has been read and not touched; the workloads
\*              done are as asked and reported so; cleaned kinds have no orphans
\*   a failing VM runtime, and what a step leaves undone, come with an error
\* LoadCancelled reaches "sign" with the snapshot of an earlier step, so "load"
\* is as honest as "idle".
CleanedVMs        == {"ctorphans", "refs", "op", "publish"}
CleanedContainers == {"refs", "op", "publish"}
MidStep           == {"vmorphans", "ctorphans", "refs", "op", "publish"}
Progress ==
    /\ \A w \in todo : obs[w] = host[w].state \/ (obs[w] = "unknown" /\ host[w].state \notin NoTask)
    /\ \A w \in All \ todo : loaded[w] # Absent =>
            Fulfilled(loaded[w], host[w]) /\ Agrees(obs[w], host[w])
    /\ Served(VMs) => vmrt = "ok"
    /\ pc \in CleanedVMs /\ Served(VMs) => \A w \in Orphans(VMs) : host[w].state = "missing"
    /\ pc \in CleanedContainers /\ Served(Containers) =>
            \A w \in Orphans(Containers) : host[w].state = "missing"
    /\ pc = "publish" => todo = {}
IInv ==
    /\ TypeOK
    /\ pc \in {"load", "sign", "idle"} => Honest
    /\ pc \in {"states"} \cup MidStep => \A w \in todo : loaded[w] # Absent
    /\ pc = "states" => /\ todo = {w \in All : loaded[w] # Absent}
                        /\ Served(VMs) => vmrt # "none"
    /\ pc = "op" => Turn(cur)
    /\ pc \in MidStep /\ ~errs /\ calm => Progress

\* A VM is brought up only when every DHCP container the lab wants running is
\* up, or the step has an error to report, or the host drifted meanwhile ("FoxLab
\* starts it before VMs during reconciliation", README).
DHCPFirst ==
    [][\A v \in VMs : (pc = "op" /\ cur = v /\ host'[v].state = "running" /\ host'[v] # host[v]) =>
           \A d \in DHCP : loaded[d].desired = "running" => Fulfilled(loaded[d], host[d]) \/ errs \/ ~calm
      ]_vars

\* Once the context is cancelled no cleanup and no call is begun (the ctx.Err() checks of Reconciler.Step).
NothingBegunCancelled ==
    [][cancelled /\ pc' \in {"vmorphans", "op"} => pc' = pc]_vars

\* Whatever the daemon does to the host, the lab file it last loaded justifies.
Abs == INSTANCE Convergence WITH basis <- loaded
Implements == Abs!Spec

\* When edits, drifts and failures stop and the daemon is not left stopped, the
\* host settles to what the file says, around workloads whose start never works.
Settled == \A w \in All \ Broken :
              IF file[w] # Absent THEN Fulfilled(file[w], host[w])
              ELSE (\/ w \in VMs /\ Present(file, VMs)
                    \/ w \in Containers /\ Present(file, Containers)) => host[w].state = "missing"
LeftRunning == <>[](pc # "stopped")
Settles     == LeftRunning => <>[]Settled

\* The lab file is all there is: what it no longer has goes from the host, as
\* "converging VM/container workloads through libvirt and containerd backends"
\* has it (README). It does not when the last workload of its kind is removed:
\* foxruntime.New then gives no runtime to clean up with.
DeletedGoes == LeftRunning => <>[](\A w \in All : file[w] = Absent => host[w].state = "missing")

\* And the status its clients read settles with it.
StatusSettles ==
    LeftRunning => <>[](status.shown /\ \A w \in All \ Broken :
                            file[w] # Absent => Agrees(status.states[w], host[w]))
=============================================================================
