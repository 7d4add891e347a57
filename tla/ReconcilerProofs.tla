-------------------------- MODULE ReconcilerProofs --------------------------
(***************************************************************************)
(* What Reconciler.tla says of three workloads and a few mishaps, proved   *)
(* for every lab, every set of workloads and every bound.                  *)
(***************************************************************************)
EXTENDS Reconciler, TLAPS

-----------------------------------------------------------------------------
(* The states of the host, and what a runtime call makes of them.          *)

\* Idle and running states are host states.
LEMMA HostStates ==
    /\ \A s \in IdleStates : Idle(s) \in HostState
    /\ \A c \in Configs : Running(c) \in HostState
BY DEF HostState

\* An entry asks for nothing, for a stopped workload or for a configuration.
LEMMA EntryKinds ==
    ASSUME NEW e \in Entry
    PROVE  \/ e = Absent
           \/ e = Stopped
           \/ e.desired = "running" /\ e.config \in Configs
BY DEF Entry, Absent, Stopped, Wants

\* Stopping a workload leaves it missing or created.
LEMMA StopDoneDead ==
    ASSUME NEW w, NEW h
    PROVE  /\ StopDone(w, h) \in HostState
           /\ StopDone(w, h).state \in {"missing", "created"}
BY HostStates DEF StopDone, Idle, IdleStates, DeadStates

\* A start, a stop and a cleanup leave host states, however they end.
LEMMA StartLeavesType ==
    ASSUME NEW w \in All, NEW c \in Configs, NEW h \in HostState
    PROVE  StartLeaves(w, c, h) \subseteq HostState
BY HostStates DEF StartLeaves, ContainerStates, MountedStates, IdleStates, DeadStates

LEMMA StopLeavesType ==
    ASSUME NEW w \in All, NEW h \in HostState
    PROVE  StopLeaves(w, h) \subseteq HostState
BY HostStates, StopDoneDead DEF StopLeaves, MountedStates, IdleStates, DeadStates

LEMMA OpLeavesType ==
    ASSUME TypeOK, NEW w \in All
    PROVE  OpLeaves(w) \subseteq HostState
<1>1. host[w] \in HostState /\ loaded[w] \in Entry
  BY DEF TypeOK, Labs
<1>2. CASE Wanted(w) = "running"
  <2>1. loaded[w].config \in Configs
    BY <1>1, <1>2, EntryKinds DEF Wanted, Absent, Stopped
  <2> QED
    BY <1>1, <1>2, <2>1, StartLeavesType DEF OpLeaves
<1>3. CASE Wanted(w) # "running"
  BY <1>1, <1>3, StopLeavesType DEF OpLeaves
<1> QED
  BY <1>2, <1>3

LEMMA OpDoneType ==
    ASSUME TypeOK, NEW w \in All
    PROVE  OpDone(w) \in HostState
<1>1. loaded[w] \in Entry
  BY DEF TypeOK, Labs
<1>2. CASE Wanted(w) = "running"
  BY <1>1, <1>2, EntryKinds, HostStates DEF OpDone, Wanted, Absent, Stopped
<1>3. CASE Wanted(w) # "running"
  BY <1>3, StopDoneDead DEF OpDone
<1> QED
  BY <1>2, <1>3

LEMMA CleanedType ==
    ASSUME TypeOK, NEW K, CleanedAll(K) \/ CleanedPartly(K)
    PROVE  host' \in [All -> HostState]
<1>1. CASE CleanedAll(K)
  BY <1>1, HostStates DEF CleanedAll, TypeOK, IdleStates, DeadStates
<1>2. CASE CleanedPartly(K)
  BY <1>2 DEF CleanedPartly
<1> QED
  BY <1>1, <1>2

-----------------------------------------------------------------------------
(* Type correctness.                                                       *)

\* What a process leaves when it ends has its type.
LEMMA DiesType ==
    ASSUME TypeOK, Dies, pc' \in {"stopped", "failed"}
    PROVE  /\ host' \in [All -> HostState]
           /\ obs' \in [All -> ObsStates]
           /\ status' \in Statuses
           /\ todo' = {} /\ cur' = None /\ errs' = FALSE /\ vmrt' = "none"
           /\ UNCHANGED <<file, rev, cancelled, lastSig, loaded, calm, edits, drifts>>
<1>1. host' \in [All -> HostState]
  <2>1. CASE pc = "op"
    BY <2>1, OpLeavesType DEF Dies, TypeOK
  <2>2. CASE pc = "vmorphans" /\ vmrt = "ok"
    BY <2>2, CleanedType DEF Dies
  <2>3. CASE pc = "ctorphans" /\ Present(loaded, Containers)
    BY <2>3, CleanedType DEF Dies
  <2>4. CASE UNCHANGED host
    BY <2>4 DEF TypeOK
  <2> QED
    BY <2>1, <2>2, <2>3, <2>4 DEF Dies
<1> QED
  BY <1>1 DEF Dies, NoObs, NoStatus, ObsStates, Statuses

\* The count of mishaps stays a number.
LEMMA FaultType ==
    ASSUME faults \in Nat, NEW b, Fault \/ FaultOr(b) \/ UNCHANGED faults
    PROVE  faults' \in Nat
BY DEF Fault, FaultOr

\* The empty map of states and the two snapshots without states.
LEMMA EmptySnapshots ==
    /\ NoObs \in [All -> ObsStates]
    /\ NoStatus \in Statuses
    /\ OnlyError \in Statuses
BY DEF NoObs, NoStatus, OnlyError, ObsStates, Statuses

LEMMA TypeInit == Init => TypeOK
<1> SUFFICES ASSUME Init PROVE TypeOK
  OBVIOUS
<1>1. file \in Labs
  BY ReconcilerAssumption DEF Init
<1>2. loaded \in Labs
  BY DEF Init, Labs, Entry
<1>3. host \in [All -> HostState]
  BY HostStates DEF Init, IdleStates, DeadStates
<1> QED
  BY <1>1, <1>2, <1>3, EmptySnapshots DEF Init, TypeOK, PCs

LEMMA TypeNext ==
    ASSUME TypeOK, [Next]_vars
    PROVE  TypeOK'
<1> USE DEF counts, PCs
<1>1. CASE Launch
  BY <1>1 DEF Launch, TypeOK, work, NoStatus, NoObs, Statuses, ObsStates, Up
<1>2. CASE Tick \/ Watch \/ Sign
  BY <1>2 DEF Tick, Watch, Sign, TypeOK, work
<1>3. CASE Cancel
  BY <1>3 DEF Cancel, Fault, TypeOK, work
<1>4. CASE Exit \/ Crash
  <2>1. pc' \in {"stopped", "failed"} /\ Dies
    BY <1>4 DEF Exit, Crash
  <2>2. faults' \in Nat
    BY <1>4 DEF Exit, Crash, Fault, TypeOK
  <2> QED
    BY <2>1, <2>2, DiesType DEF TypeOK
<1>5. CASE LoadLab
  <2>1. faults' \in Nat
    BY <1>5, FaultType DEF LoadLab, TypeOK
  <2>2. vmrt' \in {"none", "ok", "failing"} /\ obs' \in [All -> ObsStates]
    BY <1>5, EmptySnapshots DEF LoadLab
  <2> QED
    BY <1>5, <2>1, <2>2 DEF LoadLab, TypeOK
<1>6. CASE LoadFails \/ LoadCancelled
  <2>1. faults' \in Nat
    BY <1>6, FaultType DEF LoadFails, LoadCancelled, TypeOK
  <2> QED
    BY <1>6, <2>1, EmptySnapshots DEF LoadFails, LoadCancelled, TypeOK, work
<1>7. CASE ReadStates
  <2>1. obs' \in [All -> ObsStates]
    BY <1>7 DEF ReadStates, ObsStates
  <2>2. errs' \in BOOLEAN
    BY <1>7 DEF ReadStates
  <2>3. faults' \in Nat
    BY <1>7, FaultType DEF ReadStates, TypeOK
  <2> QED
    BY <1>7, <2>1, <2>2, <2>3 DEF ReadStates, TypeOK
<1>8. ASSUME NEW K, NEW able, Clean(K, able), pc \in {"vmorphans", "ctorphans"},
             pc' \in {"ctorphans", "refs"}
      PROVE  TypeOK'
  <2>1. host' \in [All -> HostState]
    BY <1>8, CleanedType DEF Clean, TypeOK
  <2>2. faults' \in Nat /\ errs' \in BOOLEAN
    BY <1>8, FaultType DEF Clean, TypeOK
  <2> QED
    BY <1>8, <2>1, <2>2 DEF Clean, TypeOK
<1>9. CASE CleanVMs \/ CleanContainers
  BY <1>8, <1>9 DEF CleanVMs, CleanContainers
<1>10. ASSUME NEW w \in All, Pass(w) \/ Begin(w)
       PROVE  TypeOK'
  BY <1>10 DEF Pass, Begin, Turn, TypeOK, life
<1>11. CASE OpSucceeds
  <2>1. cur \in todo /\ cur \in All
    BY <1>11 DEF OpSucceeds, TypeOK
  <2>2. host' \in [All -> HostState] /\ obs' \in [All -> ObsStates]
    BY <1>11, <2>1, OpDoneType DEF OpSucceeds, TypeOK, ObsStates, Reported, IdleStates, DeadStates
  <2> QED
    BY <1>11, <2>2 DEF OpSucceeds, Returned, TypeOK
<1>12. CASE OpFails
  <2>1. cur \in todo /\ cur \in All
    BY <1>12 DEF OpFails, TypeOK
  <2>2. host' \in [All -> HostState]
    BY <1>12, <2>1, OpLeavesType DEF OpFails, TypeOK
  <2> QED
    BY <1>12, <2>2 DEF OpFails, Returned, AfterFailure, Appended, FaultOr, Fault, TypeOK
<1>13. CASE Abandon \/ AllDone
  BY <1>13 DEF Abandon, AllDone, TypeOK, work
<1>14. CASE Publish
  <2>1. faults' \in Nat
    BY <1>14, FaultType DEF Publish, TypeOK
  <2>2. status' \in Statuses
    BY <1>14 DEF Publish, Snapshot, Statuses, TypeOK
  <2> QED
    BY <1>14, <2>1, <2>2, EmptySnapshots DEF Publish, TypeOK
<1>15. CASE Edit
  <2>1. file' \in Labs
    BY <1>15 DEF Edit, TypeOK, Labs
  <2> QED
    BY <1>15, <2>1 DEF Edit, TypeOK, life, work
<1>16. CASE Drift
  <2>1. \A w \in All : DriftsTo(w) \subseteq HostState
    BY HostStates DEF DriftsTo, IdleStates, DeadStates
  <2>2. host' \in [All -> HostState]
    BY <1>16, <2>1 DEF Drift, TypeOK
  <2>3. /\ drifts' = drifts + 1 /\ calm' = FALSE
        /\ UNCHANGED <<file, rev, life, work, status, edits, faults>>
    BY <1>16 DEF Drift
  <2> QED
    <3>1. drifts' \in Nat
      BY <2>3 DEF TypeOK
    <3>2. UNCHANGED <<file, loaded, rev, lastSig, pc, cancelled, errs, vmrt, obs, todo, cur, status,
                      edits, faults>>
      BY <2>3 DEF life, work
    <3> QED
      BY <2>2, <2>3, <3>1, <3>2 DEF TypeOK
<1>17. CASE UNCHANGED vars
  BY <1>17 DEF vars, life, work, TypeOK
<1> QED
  BY <1>1, <1>2, <1>3, <1>4, <1>5, <1>6, <1>7, <1>9, <1>10, <1>11, <1>12, <1>13, <1>14, <1>15,
     <1>16, <1>17 DEF Next, Run, Step

\* Every reachable state has its types.
THEOREM TypeCorrect == Spec => []TypeOK
<1>1. Init => TypeOK
  BY TypeInit
<1>2. TypeOK /\ [Next]_vars => TypeOK'
  BY TypeNext
<1> QED
  BY <1>1, <1>2, PTL DEF Spec
-----------------------------------------------------------------------------
(* The published snapshot is honest. IInv is the inductive invariant; each *)
(* lemma shows its parts beyond TypeOK after the actions it names.         *)

Rest == /\ pc \in {"load", "sign", "idle"} => Honest
        /\ pc \in {"states"} \cup MidStep => \A w \in todo : loaded[w] # Absent
        /\ pc = "states" => /\ todo = {w \in All : loaded[w] # Absent}
                            /\ Served(VMs) => vmrt # "none"
        /\ pc = "op" => Turn(cur)
        /\ pc \in MidStep /\ ~errs /\ calm => Progress

\* A workload asked to be stopped and found dead is as asked.
LEMMA DeadFulfils ==
    ASSUME NEW h, h.state \in DeadStates
    PROVE  Fulfilled(Stopped, h) /\ Agrees("stopped", h)
BY DEF Fulfilled, Stopped, Agrees

\* A start or stop that returned did what the entry asks and is reported so.
LEMMA DoneFulfils ==
    ASSUME TypeOK, NEW w \in All, loaded[w] # Absent
    PROVE  Fulfilled(loaded[w], OpDone(w)) /\ Agrees(Reported(w), OpDone(w))
<1>1. loaded[w] \in Entry
  BY DEF TypeOK, Labs
<1>2. CASE loaded[w] = Stopped
  <2>1. OpDone(w) = StopDone(w, host[w]) /\ Reported(w) = "stopped"
    BY <1>2 DEF OpDone, Reported, Wanted, Stopped
  <2>2. OpDone(w).state \in DeadStates
    BY <2>1, StopDoneDead DEF DeadStates
  <2> QED
    BY <1>2, <2>1, <2>2, DeadFulfils
<1>3. CASE Wanted(w) = "running"
  BY <1>3 DEF OpDone, Reported, Fulfilled, Agrees, Running, Wanted
<1> QED
  BY <1>1, <1>2, <1>3, EntryKinds DEF Wanted

\* Nothing a step goes by changes.
LEMMA Framed ==
    ASSUME IInv, UNCHANGED <<host, pc, loaded, vmrt, obs, errs, todo, cur, status, calm>>
    PROVE  Rest'
BY DEF IInv, Rest, Honest, Progress, Served, Present, Orphans, Turn, CleanedVMs, CleanedContainers,
       MidStep

\* Between steps the daemon keeps an honest snapshot or has none.
LEMMA BetweenSteps ==
    ASSUME IInv, Launch \/ Tick \/ Watch \/ Sign \/ LoadFails \/ LoadCancelled
    PROVE  Rest'
<1> USE DEF MidStep
<1>1. CASE Launch
  BY <1>1 DEF Launch, Rest, Honest, NoStatus
<1>2. CASE LoadFails
  BY <1>2 DEF LoadFails, Rest, Honest, OnlyError
<1>3. CASE Tick \/ Watch \/ Sign \/ LoadCancelled
  <2>1. /\ pc \in {"load", "sign", "idle"} /\ pc' \in {"load", "sign", "idle"}
        /\ UNCHANGED <<host, loaded, status, calm>>
    BY <1>3 DEF Tick, Watch, Sign, LoadCancelled, work
  <2> QED
    BY <2>1 DEF IInv, Rest, Honest, Served, Present
<1> QED
  BY <1>1, <1>2, <1>3

LEMMA Surroundings ==
    ASSUME IInv, Cancel \/ Exit \/ Crash \/ Edit \/ Drift \/ UNCHANGED vars
    PROVE  Rest'
<1>1. CASE Exit \/ Crash
  BY <1>1 DEF Exit, Crash, Rest, MidStep
<1>2. CASE Cancel \/ Edit \/ UNCHANGED vars
  BY <1>2, Framed DEF Cancel, Edit, vars, life, work
<1>3. CASE Drift
  <2>1. calm' = FALSE /\ UNCHANGED <<pc, loaded, vmrt, todo, cur>>
    BY <1>3 DEF Drift, life, work
  <2> QED
    BY <2>1 DEF IInv, Rest, Honest, Served, Present, Turn, MidStep
<1> QED
  BY <1>1, <1>2, <1>3

LEMMA Loaded ==
    ASSUME IInv, LoadLab
    PROVE  Rest'
BY DEF LoadLab, Rest, MidStep, Served, Present

LEMMA Read ==
    ASSUME IInv, ReadStates
    PROVE  Rest'
<1>1. /\ pc = "states" /\ pc' \in {"publish", "vmorphans"} /\ UNCHANGED <<host, loaded, vmrt, todo>>
      /\ pc' = "publish" => errs'
  BY DEF ReadStates
<1>2. todo = {w \in All : loaded[w] # Absent} /\ (Served(VMs) => vmrt # "none")
  BY <1>1 DEF IInv
<1>3. ASSUME ~errs'
      PROVE  Progress'
  <2>1. PICK blind \in SUBSET {w \in All : Blind(w)} :
            /\ vmrt # "failing"
            /\ \A w \in All : obs'[w] \in IF w \in blind THEN {"unknown"} ELSE Reading(w, FALSE)
    BY <1>3 DEF ReadStates
  <2>2. \A w \in todo : obs'[w] = host[w].state \/ (obs'[w] = "unknown" /\ host[w].state \notin NoTask)
    BY <1>2, <2>1 DEF Reading, Blind
  <2>3. Served(VMs) => vmrt = "ok"
    BY <1>2, <2>1 DEF IInv, TypeOK
  <2> QED
    BY <1>1, <1>2, <1>3, <2>2, <2>3
    DEF Progress, Served, Present, CleanedVMs, CleanedContainers
<1> QED
  BY <1>1, <1>2, <1>3 DEF Rest, MidStep
\* A cleanup touches orphans only.
LEMMA CleanTouches ==
    ASSUME TypeOK, NEW K \in SUBSET All, NEW able, Clean(K, able)
    PROVE  /\ \A w \in All : loaded[w] # Absent \/ w \notin K => host'[w] = host[w]
           /\ ~errs' /\ able => \A w \in Orphans(K) : host'[w].state = "missing"
           /\ ~errs' => ~errs
           /\ UNCHANGED <<loaded, vmrt, obs, todo, status, calm>>
<1>1. CASE UNCHANGED <<host, errs>> /\ ~able
  BY <1>1 DEF Clean
<1>2. CASE CleanedAll(K) /\ UNCHANGED errs
  BY <1>2 DEF Clean, CleanedAll, Orphans, Idle
<1>3. CASE CleanedPartly(K) /\ errs' = TRUE
  BY <1>3 DEF Clean, CleanedPartly, Orphans
<1> QED
  BY <1>1, <1>2, <1>3 DEF Clean

LEMMA CleanedUp ==
    ASSUME IInv, CleanVMs \/ CleanContainers
    PROVE  Rest'
<1>1. pc \in MidStep /\ pc' \in MidStep \ {"op"} /\ UNCHANGED <<loaded, vmrt, obs, todo, status, calm>>
  BY DEF CleanVMs, CleanContainers, Clean, MidStep
<1>2. \A w \in todo : loaded[w] # Absent
  BY <1>1 DEF IInv
<1>3. ASSUME ~errs', calm'
      PROVE  Progress'
  <2>1. CASE CleanVMs
    <3>1. /\ \A w \in All : loaded[w] # Absent \/ w \notin VMs => host'[w] = host[w]
          /\ vmrt = "ok" => \A w \in Orphans(VMs) : host'[w].state = "missing"
          /\ ~errs /\ pc' = "ctorphans"
      BY <1>3, <2>1, CleanTouches DEF CleanVMs, IInv, All
    <3>2. Progress
      BY <1>1, <1>3, <3>1 DEF IInv
    <3> QED
      BY <1>1, <1>2, <3>1, <3>2
      DEF Progress, Served, Present, Orphans, CleanedVMs, CleanedContainers, IInv, TypeOK
  <2>2. CASE CleanContainers
    <3>1. /\ \A w \in All : loaded[w] # Absent \/ w \notin Containers => host'[w] = host[w]
          /\ Served(Containers) => \A w \in Orphans(Containers) : host'[w].state = "missing"
          /\ ~errs /\ pc = "ctorphans" /\ pc' = "refs"
      BY <1>3, <2>2, CleanTouches DEF CleanContainers, IInv, All, Served
    <3>2. Progress
      BY <1>1, <1>3, <3>1 DEF IInv
    <3>3. Served(VMs) => \A w \in Orphans(VMs) : host'[w].state = "missing"
      BY <3>1, <3>2, WorkloadsAssumption DEF Progress, CleanedVMs, Orphans, All
    <3> QED
      BY <1>1, <1>2, <3>1, <3>2, <3>3
      DEF Progress, Served, Present, Orphans, CleanedVMs, CleanedContainers, IInv, TypeOK
  <2> QED
    BY <2>1, <2>2
<1> QED
  BY <1>1, <1>2, <1>3 DEF Rest, MidStep

\* reconcileRef: passing by, beginning and finishing one workload.
LEMMA PassedOrBegun ==
    ASSUME IInv, NEW v \in All, Pass(v) \/ Begin(v)
    PROVE  Rest'
<1>1. /\ pc = "refs" /\ pc' \in {"refs", "op"} /\ v \in todo
      /\ UNCHANGED <<host, loaded, vmrt, obs, errs, calm>>
      /\ todo' = todo \/ (todo' = todo \ {v} /\ ~Acts(v))
  BY DEF Pass, Begin, Turn, life
<1>2. \A w \in todo : loaded[w] # Absent
  BY <1>1 DEF IInv, MidStep
<1>3. ASSUME ~errs', calm'
      PROVE  Progress'
  <2>1. Progress
    BY <1>1, <1>3 DEF IInv, MidStep
  <2>2. ~Acts(v) => Fulfilled(loaded[v], host[v]) /\ Agrees(obs[v], host[v])
    <3> SUFFICES ASSUME ~Acts(v)
                 PROVE  Fulfilled(loaded[v], host[v]) /\ Agrees(obs[v], host[v])
      OBVIOUS
    <3>1. loaded[v] = Stopped
      BY <1>1, <1>2, EntryKinds DEF IInv, TypeOK, Labs, Acts, Wanted
    <3>2. obs[v] \in DeadStates \cup {""}
      BY DEF Acts, StopNeeded
    <3>3. obs[v] = host[v].state
      BY <1>1, <2>1, <3>2 DEF Progress, DeadStates
    <3>4. host[v].state # ""
      <4>1. host[v] \in HostState
        BY DEF IInv, TypeOK
      <4>2. ASSUME NEW x \in IdleStates, host[v] = Idle(x)
            PROVE  host[v].state # ""
        <5>1. host[v].state = x
          BY <4>2 DEF Idle
        <5> QED
          BY <5>1 DEF IdleStates, DeadStates
      <4>3. ASSUME NEW c, host[v] = Running(c)
            PROVE  host[v].state # ""
        <5>1. host[v].state = "running"
          BY <4>3 DEF Running
        <5> QED
          BY <5>1
      <4> QED
        BY <4>1, <4>2, <4>3 DEF HostState
    <3> QED
      BY <3>1, <3>2, <3>3, <3>4, DeadFulfils DEF Agrees
  <2> QED
    BY <1>1, <1>2, <2>1, <2>2
    DEF Progress, Served, Present, Orphans, CleanedVMs, CleanedContainers
<1>4. pc' = "op" => Turn(cur)'
  BY DEF Pass, Begin, Turn, life
<1> QED
  BY <1>1, <1>2, <1>3, <1>4 DEF Rest, MidStep

LEMMA Finished ==
    ASSUME IInv, OpSucceeds \/ OpFails
    PROVE  Rest'
<1>1. /\ pc = "op" /\ pc' = "refs" /\ cur \in todo /\ cur \in All
      /\ todo' = todo \ {cur}
      /\ UNCHANGED <<loaded, vmrt, calm>>
  BY DEF OpSucceeds, OpFails, Returned, AfterFailure, IInv, TypeOK
<1>2. \A w \in todo : loaded[w] # Absent
  BY <1>1 DEF IInv, MidStep
<1>3. ASSUME ~errs', calm'
      PROVE  Progress'
  <2>1. /\ ~errs /\ calm
        /\ host' = [host EXCEPT ![cur] = OpDone(cur)]
        /\ obs' = [obs EXCEPT ![cur] = Reported(cur)]
    BY <1>1, <1>3 DEF OpSucceeds, OpFails, Appended
  <2>2. Progress
    BY <1>1, <2>1 DEF IInv, MidStep
  <2>3. /\ \A w \in All \ {cur} : host'[w] = host[w] /\ obs'[w] = obs[w]
        /\ host'[cur] = OpDone(cur) /\ obs'[cur] = Reported(cur)
    BY <1>1, <2>1 DEF IInv, TypeOK
  <2>4. Fulfilled(loaded[cur], OpDone(cur)) /\ Agrees(Reported(cur), OpDone(cur))
    BY <1>1, <1>2, DoneFulfils DEF IInv
  <2>5. todo \subseteq All
    BY DEF IInv, TypeOK
  <2> QED
    BY <1>1, <1>2, <2>2, <2>3, <2>4, <2>5
    DEF Progress, Served, Present, Orphans, CleanedVMs, CleanedContainers, All
<1> QED
  BY <1>1, <1>2, <1>3 DEF Rest, MidStep

LEMMA Ended ==
    ASSUME IInv, Abandon \/ AllDone \/ Publish
    PROVE  Rest'
<1>1. CASE Abandon
  BY <1>1 DEF Abandon, IInv, Rest, MidStep
<1>2. CASE AllDone
  <2>1. pc = "refs" /\ pc' = "publish" /\ todo = {} /\ UNCHANGED <<host, work, status, calm>>
    BY <1>2 DEF AllDone
  <2> QED
    BY <2>1 DEF IInv, Rest, MidStep, Progress, Served, Present, Orphans, work, CleanedVMs,
                CleanedContainers
<1>3. CASE Publish
  <2>1. /\ pc = "publish" /\ pc' = "sign" /\ UNCHANGED <<host, loaded, calm>>
        /\ status'.states = obs /\ (~status'.errs => ~errs)
    <3>1. PICK e \in BOOLEAN : status' = [states |-> obs, errs |-> errs \/ e, shown |-> TRUE]
      BY <1>3 DEF Publish, Snapshot
    <3> QED
      BY <1>3, <3>1 DEF Publish
  <2>2. ASSUME ~status'.errs, calm
        PROVE  \A w \in All :
                 /\ loaded[w] # Absent => Fulfilled(loaded[w], host[w]) /\ Agrees(obs[w], host[w])
                 /\ (w \in VMs /\ Served(VMs)) \/ (w \in Containers /\ Served(Containers)) =>
                       (loaded[w] = Absent => host[w].state = "missing")
    <3>1. Progress
      BY <2>1, <2>2 DEF IInv, MidStep
    <3> QED
      BY <2>1, <3>1 DEF Progress, Orphans, CleanedVMs, CleanedContainers
  <2> QED
    BY <2>1, <2>2 DEF Rest, Honest, Served, Present, MidStep
<1> QED
  BY <1>1, <1>2, <1>3

LEMMA IInvInit == Init => IInv
BY TypeInit DEF Init, IInv, MidStep

LEMMA IInvNext ==
    ASSUME IInv, [Next]_vars
    PROVE  IInv'
<1>1. TypeOK'
  BY TypeNext DEF IInv
<1>2. Rest'
  BY BetweenSteps, Surroundings, Loaded, Read, CleanedUp, PassedOrBegun, Finished, Ended
  DEF Next, Run, Step
<1> QED
  BY <1>1, <1>2 DEF IInv, Rest

\* A snapshot without errors tells the truth of the lab its step loaded, for
\* as long as nothing but the daemon touches the host.
THEOREM StatusIsHonest == Spec => []HonestStatus
<1>1. Init => IInv
  BY IInvInit
<1>2. IInv /\ [Next]_vars => IInv'
  BY IInvNext
<1>3. IInv => HonestStatus
  BY DEF IInv, HonestStatus
<1> QED
  BY <1>1, <1>2, <1>3, PTL DEF Spec
\* A VM comes up only after the DHCP containers the lab wants, or with an error
\* to report, or on a host that drifted.
THEOREM VMsAfterDHCP == Spec => DHCPFirst
<1>1. ASSUME IInv, Next, NEW v \in VMs, pc = "op", cur = v, NEW d \in DHCP,
             loaded[d].desired = "running", ~errs, calm
      PROVE  Fulfilled(loaded[d], host[d])
  <2>1. Turn(v) /\ Progress
    BY <1>1 DEF IInv, MidStep
  <2>2. d \in All /\ d \notin VMs
    BY WorkloadsAssumption DEF All
  <2>3. v \notin DHCP
    BY WorkloadsAssumption
  <2>4. d \notin todo
    BY <2>1, <2>2, <2>3 DEF Turn, Phase
  <2> QED
    BY <1>1, <2>1, <2>2, <2>4 DEF Progress, Absent
<1>2. IInv /\ [Next]_vars =>
        [\A v \in VMs : (pc = "op" /\ cur = v /\ host'[v].state = "running" /\ host'[v] # host[v]) =>
           \A d \in DHCP : loaded[d].desired = "running" => Fulfilled(loaded[d], host[d]) \/ errs \/ ~calm
        ]_vars
  BY <1>1
<1> QED
  BY <1>2, IInvInit, IInvNext, PTL DEF Spec, DHCPFirst

-----------------------------------------------------------------------------
(* Cancellation. Each place where a cleanup or a call begins has asked.    *)

\* A process whose context is cancelled begins no cleanup and no call.
THEOREM CancelledBeginsNothing == Spec => NothingBegunCancelled
<1>1. ASSUME [Next]_vars, cancelled, pc' \in {"vmorphans", "op"}
      PROVE  pc' = pc
  <2>1. CASE Launch \/ Exit \/ Crash
    BY <1>1, <2>1 DEF Launch, Exit, Crash
  <2>2. CASE Tick \/ Watch \/ Sign \/ LoadLab \/ LoadFails \/ LoadCancelled \/ Abandon \/ AllDone \/ Publish
    BY <1>1, <2>2 DEF Tick, Watch, Sign, LoadLab, LoadFails, LoadCancelled, Abandon, AllDone, Publish
  <2>3. CASE ReadStates
    BY <1>1, <2>3 DEF ReadStates, Live
  <2>4. CASE CleanVMs \/ CleanContainers
    BY <1>1, <2>4 DEF CleanVMs, CleanContainers
  <2>5. CASE \E w \in All : Pass(w) \/ Begin(w)
    BY <1>1, <2>5 DEF Pass, Begin, Live
  <2>6. CASE OpSucceeds \/ OpFails
    BY <1>1, <2>6 DEF OpSucceeds, OpFails, Returned, AfterFailure
  <2>7. CASE Cancel \/ Edit \/ Drift \/ UNCHANGED vars
    BY <2>7 DEF Cancel, Edit, Drift, life, vars
  <2> QED
    BY <1>1, <2>1, <2>2, <2>3, <2>4, <2>5, <2>6, <2>7 DEF Next, Run, Step
<1>2. [Next]_vars => [cancelled /\ pc' \in {"vmorphans", "op"} => pc' = pc]_vars
  BY <1>1
<1> QED
  BY <1>2, PTL DEF Spec, NothingBegunCancelled

-----------------------------------------------------------------------------
(* The daemon implements Convergence: the host changes only as the lab     *)
(* last loaded justifies, unless it drifts.                                *)

\* Both modules speak of the same labs and hosts.
LEMMA SameTerms ==
    /\ Abs!All = All /\ Abs!Labs = Labs /\ Abs!HostState = HostState
    /\ \A c : Abs!Running(c) = Running(c)
<1>1. Abs!All = All /\ Abs!Entry = Entry /\ Abs!IdleStates = IdleStates
  BY DEF Abs!All, All, Abs!Entry, Entry, Abs!Absent, Absent, Abs!Stopped, Stopped, Abs!Wants, Wants,
         Abs!IdleStates, IdleStates, Abs!DeadStates, DeadStates
<1>2. (\A c : Abs!Running(c) = Running(c)) /\ (\A x : Abs!Idle(x) = Idle(x))
  BY DEF Abs!Running, Running, Abs!Idle, Idle
<1> QED
  BY <1>1, <1>2 DEF Abs!Labs, Labs, Abs!HostState, HostState

\* However a start, a stop or a cleanup ends, it was justified.
LEMMA OpJustified ==
    ASSUME TypeOK, NEW w \in All, NEW h \in OpLeaves(w) \cup {OpDone(w)},
           loaded[w] # Absent
    PROVE  Abs!Justified(w, loaded[w], host[w], h)
<1>1. loaded[w] \in Entry
  BY DEF TypeOK, Labs
<1>2. CASE Wanted(w) = "running"
  <2>1. h \in StartLeaves(w, loaded[w].config, host[w]) \cup {host[w], Running(loaded[w].config)}
    BY <1>2 DEF OpLeaves, OpDone
  <2> QED
    BY <1>2, <2>1, SameTerms DEF StartLeaves, ContainerStates, MountedStates, Idle, Abs!Justified, Wanted
<1>3. CASE loaded[w] = Stopped
  <2>1. h \in StopLeaves(w, host[w]) \cup {host[w], StopDone(w, host[w])}
    BY <1>3 DEF OpLeaves, OpDone, Wanted, Stopped
  <2> QED
    BY <1>3, <2>1, StopDoneDead DEF StopLeaves, MountedStates, Idle, Abs!Justified, Stopped
<1> QED
  BY <1>1, <1>2, <1>3, EntryKinds DEF Wanted

LEMMA CleanJustified ==
    ASSUME TypeOK, NEW K, CleanedAll(K) \/ CleanedPartly(K)
    PROVE  \A w \in All : Abs!Justified(w, loaded[w], host[w], host'[w])
<1> SUFFICES ASSUME NEW w \in All
             PROVE  Abs!Justified(w, loaded[w], host[w], host'[w])
  OBVIOUS
<1>1. CASE w \notin Orphans(K)
  BY <1>1 DEF CleanedAll, CleanedPartly, Abs!Justified
<1>2. CASE w \in Orphans(K)
  <2>1. host'[w] \in CleanLeaves(w, host[w]) \cup {Idle("missing")}
    BY <1>2 DEF CleanedAll, CleanedPartly
  <2> QED
    BY <1>2, <2>1 DEF CleanLeaves, Orphans, Absent, Idle, Abs!Justified
<1> QED
  BY <1>1, <1>2

LEMMA OpActs ==
    ASSUME IInv, pc = "op", NEW h \in OpLeaves(cur) \cup {OpDone(cur)},
           host' = [host EXCEPT ![cur] = h]
    PROVE  \A w \in All : Abs!Justified(w, loaded[w], host[w], host'[w])
<1>1. cur \in All /\ loaded[cur] # Absent
  BY DEF IInv, TypeOK, MidStep
<1>2. Abs!Justified(cur, loaded[cur], host[cur], h)
  BY <1>1, OpJustified DEF IInv
<1>3. \A w \in All : host'[w] = IF w = cur THEN h ELSE host[w]
  BY DEF IInv, TypeOK
<1> QED
  BY <1>2, <1>3 DEF Abs!Justified

LEMMA StepImplements ==
    ASSUME IInv, [Next]_vars
    PROVE  [Abs!Next]_(Abs!cvars)
<1> DEFINE acts == /\ \A w \in All : Abs!Justified(w, loaded[w], host[w], host'[w])
                   /\ UNCHANGED <<file, loaded, drifts>>
<1>1. TypeOK /\ TypeOK'
  BY TypeNext DEF IInv
<1>2. acts => Abs!Next
  BY <1>1, SameTerms DEF Abs!Next, Abs!Act, TypeOK
<1>3. CASE Edit
  BY <1>1, <1>3, SameTerms DEF Edit, Abs!Next, Abs!Edit, TypeOK, work
<1>4. CASE Drift
  <2>1. drifts' = drifts + 1 /\ UNCHANGED <<file, loaded>>
    BY <1>4 DEF Drift, work
  <2> QED
    BY <1>1, <2>1, SameTerms DEF Abs!Next, Abs!Drift, TypeOK
<1>5. CASE LoadLab
  BY <1>5 DEF LoadLab, Abs!Next, Abs!Adopt
<1>6. CASE Exit \/ Crash
  <2>1. Dies
    BY <1>6 DEF Exit, Crash
  <2>2. CASE pc = "op"
    BY <1>2, <2>1, <2>2, OpActs DEF Dies
  <2>3. CASE CleanedPartly(VMs) \/ CleanedPartly(Containers)
    BY <1>1, <1>2, <2>1, <2>3, CleanJustified DEF Dies
  <2>4. CASE UNCHANGED host
    BY <2>1, <2>4 DEF Dies, Abs!cvars
  <2> QED
    BY <2>1, <2>2, <2>3, <2>4 DEF Dies
<1>7. ASSUME NEW K, NEW able, Clean(K, able)
      PROVE  Abs!Next \/ UNCHANGED Abs!cvars
  <2>1. CASE CleanedAll(K) \/ CleanedPartly(K)
    BY <1>1, <1>2, <1>7, <2>1, CleanJustified DEF Clean
  <2>2. CASE UNCHANGED host
    BY <1>7, <2>2 DEF Clean, Abs!cvars
  <2> QED
    BY <1>7, <2>1, <2>2 DEF Clean
<1>8. CASE OpSucceeds \/ OpFails
  <2>1. PICK h \in OpLeaves(cur) \cup {OpDone(cur)} : host' = [host EXCEPT ![cur] = h]
    BY <1>8 DEF OpSucceeds, OpFails
  <2> QED
    BY <1>2, <1>8, <2>1, OpActs DEF OpSucceeds, OpFails, Returned
<1>9. CASE \/ Launch \/ Tick \/ Watch \/ Sign \/ Cancel \/ LoadFails \/ LoadCancelled \/ ReadStates
           \/ Abandon \/ AllDone \/ Publish \/ (\E w \in All : Pass(w) \/ Begin(w))
           \/ UNCHANGED vars
  <2>1. UNCHANGED <<file, loaded, host, drifts>>
    BY <1>9 DEF Launch, Tick, Watch, Sign, Cancel, LoadFails, LoadCancelled, ReadStates, Abandon,
                AllDone, Publish, Pass, Begin, vars, work, counts
  <2> QED
    BY <2>1 DEF Abs!cvars
<1> QED
  BY <1>3, <1>4, <1>5, <1>6, <1>7, <1>8, <1>9 DEF Next, Run, Step, CleanVMs, CleanContainers

\* Every behaviour of the daemon is one of Convergence.
THEOREM DaemonConverges == Spec => Implements
<1>1. Init => Abs!Init
  BY TypeInit, SameTerms DEF Init, TypeOK, Abs!Init
<1>2. IInv /\ [Next]_vars => [Abs!Next]_(Abs!cvars)
  BY StepImplements
<1> QED
  BY <1>1, <1>2, IInvInit, IInvNext, PTL DEF Spec, Implements, Abs!Spec
=============================================================================
