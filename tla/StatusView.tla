----------------------------- MODULE StatusView -----------------------------
(***************************************************************************)
(* What the terminal UI shows of the workloads (topologyui/app.go), and     *)
(* where it has it from: the snapshot that foxlabd serves on its socket      *)
(* (daemonstatus) or, when that is not of the lab that is open, the runtime.  *)
(* The UI is one thread; each second it starts a read in the background,      *)
(* whose answer comes back while the lab is edited, applied and read again.   *)
(* A pass of the daemon is two steps here: Reconciler.tla opens it.           *)
(***************************************************************************)
EXTENDS Naturals, FiniteSets, Functions

CONSTANTS
  VMs, Containers,
  MaxEdits,     \* bound on edits and on labs applied
  MaxMishaps    \* bound on failures and on what happens beside foxlab

VARIABLES
  desired,   \* what the open lab asks for; the file says the same
  revision,  \* of the session
  states, nodes, pending, applied, \* WorkloadStates, the nodes, PendingStarts, ApplyLabDisabled
  shownFor,  \* history: the revision that states were asked for under
  doing,     \* what the UI thread is in the middle of
  refresh,   \* the read in the background
  daemon,    \* the lab that foxlabd runs: this, other or none
  pass,      \* what the daemon's pass has loaded and read
  store,     \* the snapshot served
  real,      \* the states of the workloads
  edits, mishaps \* counts of what is bounded

ui == <<states, nodes, pending, applied, shownFor>>
foxlabd == <<daemon, pass, store>>
vars == <<desired, revision, ui, doing, refresh, foxlabd, real, edits, mishaps>>

Workloads == VMs \union Containers
NoStates == <<>>
Snapshot(ss, said) == [lab |-> "this", states |-> ss, said |-> said]
NoStore == [Snapshot(NoStates, FALSE) EXCEPT !.lab = "none"]
NoPass == [on |-> FALSE, desired |-> NoStates, read |-> NoStates]
NoRefresh == [at |-> "idle", for |-> 0]

Mishap == mishaps < MaxMishaps /\ mishaps' = mishaps + 1
Edit == edits < MaxEdits /\ edits' = edits + 1

-----------------------------------------------------------------------------
(* What a node shows *)

Display(w, asked, actual, transitions, starting) ==
  CASE starting /\ asked = "running" /\ actual = "missing" -> "starting"
    [] w \in VMs /\ asked = "stopped" /\ actual = "missing" -> "defined"
    [] transitions /\ asked = "running" /\ actual \in {"stopped", "defined"} -> "starting"
    [] transitions /\ asked = "stopped" /\ actual = "running" -> "stopping"
    [] OTHER -> actual

\* ModelFromLab: the nodes of a lab before any state is known.
Fresh(asked) ==
  [w \in Workloads |-> Display(w, asked[w], IF w \in VMs THEN "defined" ELSE "missing", TRUE, FALSE)]

WithStates(shown, asked, ss, transitions, starting) ==
  [w \in Workloads |->
     IF w \in DOMAIN ss THEN Display(w, asked[w], ss[w], transitions, w \in starting) ELSE shown[w]]

-----------------------------------------------------------------------------
(* Reads *)

\* A read's result: lab is what it says of the daemon, said whether it has a message.
Result(source, received, ss, said, lab) ==
  [source |-> source, received |-> received, states |-> ss, said |-> said, lab |-> lab]
NoResult == Result("direct", FALSE, NoStates, FALSE, "unknown")

Answers == store.lab = "this"
FromDaemon == Result("daemon", TRUE, store.states, store.said, "this")
FromRuntime == Result("direct", TRUE, real, FALSE, "unknown")
NotRead == [NoResult EXCEPT !.said = TRUE]

\* A start is waited for until a state is reported, or with a message any.
StillPending(ss, said) == {w \in pending : w \notin DOMAIN ss \/ (~said /\ ss[w] = "missing")}

\* applyRuntimeSnapshot
Shows(r, for, clear) ==
  /\ applied' = IF r.lab = "unknown" THEN applied ELSE r.lab = "this"
  /\ IF ~r.received THEN UNCHANGED <<states, nodes, pending, shownFor>>
     ELSE /\ states' = r.states /\ shownFor' = for
          /\ pending' = IF clear THEN StillPending(r.states, r.said) ELSE pending
          /\ nodes' = WithStates(nodes, desired, states', applied', pending')

\* The read in the background: the socket, then the runtime, then systemd.
StartStatusRefresh ==
  /\ doing = "idle" /\ refresh = NoRefresh
  /\ refresh' = [at |-> "query", for |-> revision]
  /\ UNCHANGED <<desired, revision, ui, doing, foxlabd, real, edits, mishaps>>

Sends(r) == refresh' = [at |-> "sent", for |-> refresh.for, result |-> r]

Query ==
  /\ refresh.at = "query"
  /\ \/ Answers /\ Sends(FromDaemon) /\ UNCHANGED mishaps
     \/ /\ refresh' = [at |-> "runtime", for |-> refresh.for]
        /\ IF Answers THEN Mishap ELSE UNCHANGED mishaps
  /\ UNCHANGED <<desired, revision, ui, doing, foxlabd, real, edits>>

ReadLiveStatus ==
  /\ refresh.at = "runtime"
  /\ \/ refresh' = [at |-> "systemd", for |-> refresh.for, result |-> FromRuntime] /\ UNCHANGED mishaps
     \/ Sends(NotRead) /\ Mishap
  /\ UNCHANGED <<desired, revision, ui, doing, foxlabd, real, edits>>

AskSystemd ==
  /\ refresh.at = "systemd"
  /\ \/ Sends([refresh.result EXCEPT !.lab = daemon]) /\ UNCHANGED mishaps
     \/ Sends(refresh.result) /\ Mishap
  /\ UNCHANGED <<desired, revision, ui, doing, foxlabd, real, edits>>

\* Mutant: a status of an earlier lab is shown.
CurrentAlways == TRUE

\* The status was asked for under the lab that is open now.
Current == refresh.for = revision

\* Mutant: a status that is not shown leaves the refresh under way.
ReceivedIfCurrent == refresh' = IF Current THEN NoRefresh ELSE [refresh EXCEPT !.at = "ignored"]

Received == refresh' = NoRefresh

DrainStatusUpdates ==
  /\ doing = "idle" /\ refresh.at = "sent" /\ Received
  /\ IF Current THEN Shows(refresh.result, refresh.for, TRUE) ELSE UNCHANGED ui
  /\ UNCHANGED <<desired, revision, doing, foxlabd, real, edits, mishaps>>

-----------------------------------------------------------------------------
(* The UI thread *)

\* An edit, or one that failed and put the lab back: a new lab in the session.
Mutate ==
  /\ doing = "idle" /\ Edit /\ revision' = revision + 1
  /\ nodes' = WithStates(Fresh(desired), desired, states, applied, pending)
  /\ UNCHANGED <<desired, states, pending, applied, shownFor, doing, refresh, foxlabd, real, mishaps>>

SetDesired(w, asked) ==
  LET new == [desired EXCEPT ![w] = asked]
  IN  /\ doing = "idle" /\ Edit /\ revision' = revision + 1
      /\ desired' = new
      /\ nodes' = WithStates(Fresh(new), new, states, applied, pending)
      /\ pending' = IF asked = "running" THEN pending \union {w} ELSE pending \ {w}
      /\ doing' = "apply and read"
      /\ UNCHANGED <<states, applied, shownFor, refresh, foxlabd, real, mishaps>>

\* The menu's Apply, which is off while the lab is applied.
ApplyOpenLab ==
  /\ doing = "idle" /\ ~applied /\ Edit /\ doing' = "apply"
  /\ UNCHANGED <<desired, revision, ui, refresh, foxlabd, real, mishaps>>

Started == daemon' = "this" /\ pass' = NoPass /\ store' = NoStore
Down == daemon' = "none" /\ pass' = NoPass /\ store' = NoStore

\* The daemon may be asked for its status before it is asked to run the lab.
Apply ==
  /\ doing \in {"apply", "apply and read"}
  /\ \/ /\ daemon = "this" /\ applied' = TRUE /\ UNCHANGED <<foxlabd, mishaps>>
        /\ doing' = IF doing = "apply" THEN "idle" ELSE "read"
     \/ daemon # "this" /\ Started /\ applied' = TRUE /\ doing' = "read" /\ UNCHANGED mishaps
     \/ /\ Mishap /\ doing' = "idle"
        /\ IF daemon = "this" THEN UNCHANGED foxlabd ELSE Down \/ UNCHANGED foxlabd
        /\ applied' \in {daemon' = "this", FALSE}
  /\ UNCHANGED <<desired, revision, states, nodes, pending, shownFor, refresh, real, edits>>

\* refreshWorkloadStates: the UI waits for the answer.
RefreshWorkloadStates ==
  /\ doing = "read" /\ doing' = "idle"
  /\ \/ Answers /\ Shows(FromDaemon, revision, TRUE) /\ UNCHANGED mishaps
     \/ Shows(FromRuntime, revision, FALSE) /\ (IF Answers THEN Mishap ELSE UNCHANGED mishaps)
     \/ ~Answers /\ Shows(NotRead, revision, FALSE) /\ Mishap
  /\ UNCHANGED <<desired, revision, refresh, foxlabd, real, edits>>

-----------------------------------------------------------------------------
(* The daemon *)

PassBegins ==
  /\ daemon = "this" /\ ~pass.on
  /\ pass' = [on |-> TRUE, desired |-> desired, read |-> real]
  /\ UNCHANGED <<desired, revision, ui, doing, refresh, daemon, store, real, edits, mishaps>>

ActualStopped == {"missing", "stopped"}

\* A pass that works starts what is to run and stops what is not; what it says
\* of a workload that it stopped is not yet that it is gone.
PassEnds ==
  LET starts == {w \in Workloads : pass.desired[w] = "running"}
      stops == {w \in Workloads \ starts : pass.read[w] \notin ActualStopped}
  IN  /\ pass.on /\ pass' = NoPass
      /\ \E bad \in SUBSET (starts \union stops) :
           /\ IF bad = {} THEN UNCHANGED mishaps ELSE Mishap
           /\ real' = [w \in Workloads |-> IF w \in starts \ bad THEN "running"
                                            ELSE IF w \in stops \ bad THEN "missing" ELSE real[w]]
           /\ store' = Snapshot([w \in Workloads |-> IF w \in starts \ bad THEN "running"
                                                      ELSE IF w \in stops \ bad THEN "stopped" ELSE pass.read[w]],
                                bad # {} \/ stops # {} \/ (\E w \in starts : pass.read[w] # "running"))
      /\ UNCHANGED <<desired, revision, ui, doing, refresh, daemon, edits>>

\* publishError: the lab cannot be read, or the runtime not reached.
PassFails ==
  /\ pass.on /\ pass' = NoPass /\ Mishap
  /\ store' = Snapshot(NoStates, TRUE)
  /\ UNCHANGED <<desired, revision, ui, doing, refresh, daemon, real, edits>>

\* The daemon dies and stays down, or another UI has it run another lab, which
\* destroys this one's workloads first.
Leaves ==
  /\ daemon = "this" /\ Mishap
  /\ \/ Down /\ UNCHANGED real
     \/ /\ daemon' = "other" /\ pass' = NoPass /\ store' = [NoStore EXCEPT !.lab = "other"]
        /\ real' = [w \in Workloads |-> "missing"]
  /\ UNCHANGED <<desired, revision, ui, doing, refresh, edits>>

\* A guest shuts down, or someone starts a workload by hand.
Drifts ==
  /\ Mishap
  /\ \E w \in Workloads : \E actual \in {"stopped", "running"} \ {real[w]} : real' = [real EXCEPT ![w] = actual]
  /\ UNCHANGED <<desired, revision, ui, doing, refresh, foxlabd, edits>>

-----------------------------------------------------------------------------

Init ==
  /\ desired \in [Workloads -> {"running", "stopped"}]
  /\ real \in [Workloads -> {"missing", "running"}]
  /\ daemon \in {"this", "other", "none"}
  /\ store = [NoStore EXCEPT !.lab = IF daemon = "other" THEN "other" ELSE "none"]
  /\ pass = NoPass /\ revision = 0
  /\ states = NoStates /\ pending = {} /\ applied = (daemon = "this") /\ shownFor = 0
  /\ nodes = Fresh(desired)
  /\ doing = "idle" /\ refresh = NoRefresh /\ edits = 0 /\ mishaps = 0

Reads == StartStatusRefresh \/ Query \/ ReadLiveStatus \/ AskSystemd \/ DrainStatusUpdates
Thread == Apply \/ RefreshWorkloadStates

Next ==
  \/ Reads \/ Thread \/ Mutate \/ ApplyOpenLab
  \/ \E w \in Workloads, asked \in {"running", "stopped"} : SetDesired(w, asked)
  \/ PassBegins \/ PassEnds \/ PassFails \/ Leaves \/ Drifts

Spec == Init /\ [][Next]_vars

\* Each read has a timeout and an answer, the loop of the UI wakes up by itself,
\* and the daemon's ticker makes passes that end.
Fairness ==
  /\ WF_vars(StartStatusRefresh) /\ WF_vars(Query) /\ WF_vars(ReadLiveStatus)
  /\ WF_vars(AskSystemd) /\ WF_vars(DrainStatusUpdates)
  /\ WF_vars(Thread) /\ WF_vars(PassBegins) /\ WF_vars(PassEnds)

FairSpec == Spec /\ Fairness

-----------------------------------------------------------------------------
(* Properties *)

\* A status that was asked for before an edit never replaces one that was
\* asked for after it, however late the answer comes.
NeverBack == [][shownFor' >= shownFor]_vars

\* Once nothing goes wrong any more, and whatever was lost on the way, the UI
\* has the true state of every workload, shows it, waits for no start that is
\* not to come, and offers to apply the lab exactly if it is not applied.
ShowsReal ==
  <>[](/\ states = real /\ applied = (daemon = "this")
       /\ daemon = "this" => pending = {}
       /\ \A w \in Workloads \ pending :
            nodes[w] = IF w \in VMs /\ desired[w] = "stopped" /\ real[w] = "missing" THEN "defined" ELSE real[w])
=============================================================================
