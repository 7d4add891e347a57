--------------------------- MODULE DaemonControl ---------------------------
(***************************************************************************)
(* Which lab foxlabd runs (internal/daemoncontrol): Apply, called by the   *)
(* terminal UI, moves the one system daemon from lab to lab by a sequence  *)
(* of systemctl calls, the destruction of the previous lab and a drop-in   *)
(* file. Each part fails, or is cut by the 90 seconds of its context while *)
(* systemd goes on with the job; the UI is killed, the daemon crashes, the *)
(* machine reboots, and lab files are edited, broken and deleted.          *)
(*                                                                         *)
(* A lab is known by its path. What one lab has on the host is a set of    *)
(* workloads; Reconciler.tla opens what the daemon does to them.           *)
(***************************************************************************)
EXTENDS Naturals, FiniteSets

CONSTANTS Labs,         \* paths of lab files
          Work,         \* workloads that a lab may have
          Callers,      \* UI processes
          Default,      \* ~/.foxlab/default.lab of the user of each
          Shipped,      \* the lab that the unit file names, root's
          None,         \* no drop-in, no lab
          InitFiles,    \* the files to begin with
          MaxEdits, MaxMishaps

\* A lab file: what it names, that it is not there, or that LoadFile refuses it.
File(ws) == [kind |-> "lab", names |-> ws]
Gone     == [kind |-> "gone", names |-> {}]
Broken   == [kind |-> "broken", names |-> {}]
Contents == {File(ws) : ws \in SUBSET Work} \cup {Gone, Broken}

ASSUME DaemonControlAssumption ==
    /\ Default \in [Callers -> Labs] /\ Shipped \in Labs /\ None \notin Labs
    /\ InitFiles \in [Labs -> Contents]
    /\ MaxEdits \in Nat /\ MaxMishaps \in Nat

VARIABLES
    files,      \* the lab files
    host,       \* the workloads of each lab that exist
    dropin,     \* FOXLAB_LAB in foxlabd.service.d/lab.conf
    installed,  \* the unit file: none, whole, or torn by a write that was cut off
    conf,       \* the lab in the configuration that systemd has loaded
    enabled,
    unit,       \* ActiveState, and the lab of the process when there is one
    call,       \* of each caller: where its Apply is, the lab wanted, status.LabPath
    applied,    \* history: the lab of an Apply that returned nil, until another begins
    lost,       \* history: workloads that their lab's file did not name when it was
                \* destroyed, or whose lab was forgotten by a broken write of the
                \* drop-in or by a user with another default lab
    clash,      \* history: two Applies were under way at once
    edits, mishaps

systemd == <<conf, enabled, unit>>
disk    == <<dropin, installed>>
history == <<applied, lost, clash>>
bounds  == <<edits, mishaps>>
vars    == <<files, host, disk, systemd, call, history, bounds>>

Process == unit.state \in {"active", "deactivating"}
Down    == [state |-> "inactive", lab |-> None]
Pending == [state |-> "activating", lab |-> None]
Active(l) == [state |-> "active", lab |-> l]

\* configuredLabPath: a drop-in that is missing, or names no lab, stands for the
\* default lab of the user who asks.
Configured(c) == IF dropin = None THEN Default[c] ELSE dropin
\* What systemd reads of the files; a unit without its ExecStart is no unit.
OnDisk   == IF dropin = None THEN Shipped ELSE dropin
Loadable == IF installed = "whole" THEN OnDisk ELSE None
Names(l)   == files[l].names

Mishap == mishaps < MaxMishaps /\ mishaps' = mishaps + 1
At(c, p) == call[c].pc = p
Goes(c, p) == call' = [call EXCEPT ![c].pc = p]
Ended   == [pc |-> "idle", want |-> None, seen |-> None]
GivesUp(c) == call' = [call EXCEPT ![c] = Ended] /\ UNCHANGED applied
Fails(c) == Mishap /\ GivesUp(c)
Succeeds(c) == /\ call' = [call EXCEPT ![c] = Ended]
               /\ applied' = call[c].want

-----------------------------------------------------------------------------
(* Apply. The UI asks for the status itself before it calls; its question  *)
(* is the one of Ask.                                                      *)

Begin(c, l) == /\ At(c, "idle")
               /\ call' = [call EXCEPT ![c] = [pc |-> "status", want |-> l, seen |-> None]]
               /\ applied' = None
               /\ clash' = (clash \/ \E d \in Callers : ~At(d, "idle"))
               /\ UNCHANGED <<files, host, disk, systemd, lost, bounds>>

SamePath(c)  == Configured(c) = call[c].want                    \* mutant
Unchanged(c) == unit.state = "active" /\ Configured(c) = call[c].want
Ask(c) == /\ At(c, "status")
          /\ \/ Unchanged(c) /\ Succeeds(c) /\ UNCHANGED mishaps
             \/ /\ ~Unchanged(c)
                /\ call' = [call EXCEPT ![c].pc = "stop", ![c].seen = Configured(c)]
                /\ UNCHANGED <<applied, mishaps>>
             \/ Fails(c)
          /\ UNCHANGED <<files, host, disk, systemd, lost, clash, edits>>

\* stopDaemon, which waits for the process to end; stopUserDaemon comes before,
\* and its errors are ignored. A unit that is missing or cannot be loaded is
\* stopped.
AlwaysDestroy(c) == "destroy"                                   \* mutant
AfterStop(c) == IF call[c].seen = call[c].want THEN "write" ELSE "destroy"
Stopped(c)   == Goes(c, AfterStop(c)) /\ UNCHANGED <<applied, mishaps>>
StopIgnored(c) == Mishap /\ Goes(c, AfterStop(c)) /\ UNCHANGED applied     \* mutant
StopFails(c)   == Fails(c)
MissingFails(c) == GivesUp(c) /\ UNCHANGED mishaps               \* mutant
MissingStops(c) == Stopped(c)
StopUnit(c) ==
    /\ At(c, "stop")
    /\ \/ installed = "whole" /\ unit' = Down /\ Stopped(c)
       \/ installed # "whole" /\ MissingStops(c) /\ UNCHANGED unit
       \/ /\ StopFails(c)
          /\ unit' \in {unit} \cup (IF Process THEN {[unit EXCEPT !.state = "deactivating"]} ELSE {})
    /\ UNCHANGED <<files, host, disk, conf, enabled, lost, clash, edits>>

\* destroyPreviousLab: every workload that the old file names is tried.
Previous(c) == files[call[c].seen]
IgnoresErrors(c) == Goes(c, "write") /\ UNCHANGED <<applied, mishaps>>      \* mutant
Refuses(c)       == Fails(c)
Destroyed(c, ws) == host' = [host EXCEPT ![call[c].seen] = @ \ ws]
Destroy(c) ==
    /\ At(c, "destroy")
    /\ \/ /\ Previous(c) # Broken
          /\ Destroyed(c, Names(call[c].seen))
          /\ lost' = [lost EXCEPT ![call[c].seen] = host'[call[c].seen]]
          /\ Goes(c, "write") /\ UNCHANGED <<applied, mishaps>>
       \/ Previous(c) = Broken /\ GivesUp(c) /\ UNCHANGED <<host, lost, mishaps>>
       \/ /\ Previous(c) \notin {Gone, Broken}
          /\ \E ws \in SUBSET Names(call[c].seen) : Destroyed(c, ws)
          /\ Refuses(c)
          /\ UNCHANGED lost
    /\ UNCHANGED <<files, disk, systemd, clash, edits>>

\* writeDropIn. The file is written in place: a write that fails may leave it
\* without its lab, which is then forgotten. So is the lab of the unit file
\* when the caller, without a drop-in, saw another as the previous one.
Forgets(l) == lost' = [lost EXCEPT ![l] = host[l]]
WriteDropIn(c) ==
    /\ At(c, "write")
    /\ \/ /\ dropin' = call[c].want /\ Goes(c, "unit") /\ UNCHANGED <<applied, mishaps>>
          /\ IF OnDisk \in {call[c].seen, call[c].want} THEN UNCHANGED lost ELSE Forgets(OnDisk)
       \/ UNCHANGED <<dropin, lost>> /\ Fails(c)
       \/ dropin # None /\ dropin' = None /\ Fails(c) /\ Forgets(dropin)
    /\ UNCHANGED <<files, host, installed, systemd, clash, edits>>

\* ensureSystemUnit writes in place, too, and is content with any unit that
\* systemctl can show, a torn one as well.
EnsureUnit(c) ==
    /\ At(c, "unit")
    /\ \/ /\ installed' = (IF installed = "none" THEN "whole" ELSE installed)
          /\ Goes(c, "reload") /\ UNCHANGED <<applied, mishaps>>
       \/ Fails(c) /\ installed' \in {installed} \cup (IF installed = "none" THEN {"torn"} ELSE {})
    /\ UNCHANGED <<files, host, dropin, systemd, lost, clash, edits>>

Reload(c) ==
    /\ At(c, "reload")
    /\ \/ conf' = Loadable /\ Goes(c, "enable") /\ UNCHANGED <<applied, mishaps>>
       \/ conf' \in {conf, Loadable} /\ Fails(c)
    /\ UNCHANGED <<files, host, disk, enabled, unit, lost, clash, edits>>

\* enable --now reloads, too, and leaves alone a process that runs. A torn unit
\* has nothing to enable and nothing to start.
Start == unit' = IF unit.state = "active" THEN unit ELSE Active(OnDisk)
Enable(c) ==
    /\ At(c, "enable")
    /\ \/ /\ installed = "whole" /\ enabled' = TRUE /\ conf' = OnDisk /\ Start
          /\ Succeeds(c) /\ UNCHANGED mishaps
       \/ installed # "whole" /\ GivesUp(c) /\ UNCHANGED <<systemd, mishaps>>
       \/ Fails(c) /\ UNCHANGED systemd
       \/ /\ installed = "whole" /\ enabled' = TRUE /\ conf' = OnDisk /\ Fails(c)
          /\ unit' \in {unit} \cup (IF unit = Down THEN {Pending} ELSE {})
    /\ UNCHANGED <<files, host, disk, lost, clash, edits>>

\* The user quits, or the UI is killed.
Killed(c) == /\ ~At(c, "idle") /\ Fails(c)
             /\ UNCHANGED <<files, host, disk, systemd, lost, clash, edits>>

-----------------------------------------------------------------------------
(* systemd and the daemon *)

\* A job that its client no longer waits for ends; Restart=on-failure.
Job == /\ \/ unit.state = "activating" /\ unit' = Active(conf)
          \/ unit.state = "deactivating" /\ unit' = Down
       /\ UNCHANGED <<files, host, disk, conf, enabled, call, history, bounds>>

DaemonCrash == /\ unit.state = "active" /\ Mishap
               /\ unit' = Pending
               /\ UNCHANGED <<files, host, disk, conf, enabled, call, history, edits>>

\* What is persistent of the host stays.
Boot == /\ Mishap
        /\ conf' = Loadable
        /\ unit' = IF enabled /\ installed = "whole" THEN Active(OnDisk) ELSE Down
        /\ call' = [c \in Callers |-> Ended]
        /\ UNCHANGED <<files, host, disk, enabled, history, edits>>

\* The daemon brings up what its file names and, while the file names anything,
\* takes down what it does not.
Converge == /\ Process
            /\ LET l == unit.lab IN
                 \/ \E w \in Names(l) \ host[l] : host' = [host EXCEPT ![l] = @ \cup {w}]
                 \/ /\ Names(l) # {}
                    /\ \E w \in host[l] \ Names(l) : host' = [host EXCEPT ![l] = @ \ {w}]
            /\ UNCHANGED <<files, disk, systemd, call, history, bounds>>

Edit == /\ edits < MaxEdits /\ edits' = edits + 1
        /\ \E l \in Labs, f \in Contents : f # files[l] /\ files' = [files EXCEPT ![l] = f]
        /\ UNCHANGED <<host, disk, systemd, call, history, mishaps>>

-----------------------------------------------------------------------------
\* Nothing is set up yet, make install has run, or the lab d has been applied.
Init == /\ files = InitFiles
        /\ host = [l \in Labs |-> {}]
        /\ \/ dropin = None /\ installed = "none" /\ conf = None /\ enabled = FALSE /\ unit = Down
           \/ /\ dropin \in Labs \cup {None} /\ installed = "whole" /\ enabled = TRUE
              /\ conf = OnDisk /\ unit = Active(OnDisk)
        /\ call = [c \in Callers |-> Ended]
        /\ applied = None /\ lost = [l \in Labs |-> {}] /\ clash = FALSE
        /\ edits = 0 /\ mishaps = 0

Apply(c) == Ask(c) \/ StopUnit(c) \/ Destroy(c) \/ WriteDropIn(c) \/ EnsureUnit(c) \/ Reload(c) \/ Enable(c)
Next == \/ \E c \in Callers : Apply(c) \/ Killed(c) \/ \E l \in Labs : Begin(c, l)
        \/ Job \/ DaemonCrash \/ Boot \/ Converge \/ Edit
Spec == Init /\ [][Next]_vars

\* Commands return or are cut by their context, systemd ends its jobs, and the
\* daemon keeps stepping (Reconciler's Settles).
FairSpec == Spec /\ WF_vars(Job) /\ WF_vars(Converge) /\ \A c \in Callers : WF_vars(Apply(c))
-----------------------------------------------------------------------------
(* Properties *)

PCs == {"idle", "status", "stop", "destroy", "write", "unit", "reload", "enable"}
CallState == [pc : PCs, want : Labs \cup {None}, seen : Labs \cup {None}]
UnitState == {Down, Pending} \cup [state : {"active", "deactivating"}, lab : Labs]

Sensible(k) == /\ k.pc \in {"stop", "destroy"} => k.seen \in Labs
               /\ k.pc = "destroy" => k.seen # k.want

\* Every variable has its type; a unit that is up has a lab, a configuration and
\* a whole file; the previous lab is destroyed only when it is not the one wanted.
TypeOK ==
    /\ files \in [Labs -> Contents] /\ host \in [Labs -> SUBSET Work]
    /\ dropin \in Labs \cup {None} /\ conf \in Labs \cup {None}
    /\ installed \in {"none", "whole", "torn"} /\ enabled \in BOOLEAN
    /\ unit \in UnitState /\ (unit # Down => conf \in Labs /\ installed = "whole")
    /\ call \in [Callers -> CallState]
    /\ \A c \in Callers : Sensible(call[c])
    /\ applied \in Labs \cup {None} /\ lost \in [Labs -> SUBSET Work] /\ clash \in BOOLEAN
    /\ edits \in 0..MaxEdits /\ mishaps \in 0..MaxMishaps

\* The one case in which the file of the daemon's lab says nothing: without a
\* drop-in the controller assumes the default lab of its user, and systemd runs
\* that of the unit file.
Misread(c) == dropin = None /\ Default[c] # Shipped

\* What Status tells any user is what is so: an active daemon runs the lab
\* configured, whatever of an Apply failed or was cut before, as long as no two
\* Applies overlap and the user does not misread a missing drop-in. The UI
\* offers no "Apply lab" and Apply does nothing on its word.
StatusTruth == ~clash /\ unit.state = "active" =>
    \A c \in Callers : unit.lab = Configured(c) \/ Misread(c)

\* An Apply that returned nil has taken effect for good: the daemon runs the lab
\* wanted, and runs it again after a crash or a reboot; unless it did nothing
\* because its user misread the status, or overlapped with another.
AppliedRuns == ~clash /\ applied # None /\ (dropin # None \/ applied = Shipped) =>
    /\ unit \in {Active(applied), Pending}
    /\ conf = applied /\ enabled /\ installed = "whole"

\* After it, no other lab has anything left, however often an Apply before it
\* failed half-way ("TestSystemdDaemonApplyDestroysPreviousLabBeforeRestart"),
\* but what the file of that lab no longer named when its turn came, and what
\* was forgotten with a drop-in that a write broke or that was not there yet.
NothingLeft == ~clash /\ applied # None /\ (dropin # None \/ applied = Shipped) =>
    \A l \in Labs \ {applied} : host[l] \subseteq lost[l]

\* A user who repeats the Apply of lab l, alone, gets l, when failures end, the
\* file of the lab configured can be read or is gone, and neither the status is
\* misread nor the unit file torn: the one stays so, and the other fails each time.
Insists(c, l) == /\ []<>~At(c, "idle") /\ <>[](At(c, "idle") \/ call[c].want = l)
                 /\ <>[](\A d \in Callers \ {c} : At(d, "idle")) /\ [](~clash)
Readable(c)  == <>[](files[Configured(c)] # Broken /\ ~Misread(c) /\ installed # "torn")
RetrySettles == \A c \in Callers, l \in Labs :
    Insists(c, l) /\ Readable(c) => <>[](unit = Active(l) /\ Names(l) \subseteq host[l])
=============================================================================
