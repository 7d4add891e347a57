----------------------------- MODULE ShellTabs -----------------------------
(***************************************************************************)
(* The shell tabs of the terminal UI (internal/topologyui/tabs.go): the UI *)
(* thread that opens, restarts and closes them, one goroutine for each     *)
(* session, the shells behind the sessions, and the queue and pipe by      *)
(* which goroutines wake the UI out of its poll.                           *)
(*                                                                         *)
(* A session is <<tab, generation>>. Tab order, sizes, keys, and the       *)
(* buffer of the terminal with its lock are left out.                      *)
(***************************************************************************)
EXTENDS Naturals, FiniteSets

CONSTANTS Tabs,         \* tab objects; one that was closed is not used again
          MaxGen,       \* bound: generations of each tab; a restart uses two
          MaxSignals    \* bound: signals to come that are told apart

ASSUME ShellTabsAssumption ==
    /\ MaxGen \in [Tabs -> Nat \ {0}] /\ MaxSignals \in Nat \ {0}
    /\ Tabs \cap {"none", "close", "quit"} = {}

Gens     == UNION {1..MaxGen[t] : t \in Tabs}
Sessions == {s \in Tabs \X Gens : s[2] <= MaxGen[s[1]]}
None     == 0           \* no session, no context: generations start at 1

VARIABLES
    tabs,       \* the tab objects
    closing,
    worker,     \* where the goroutine of each session is
    shell,      \* the shell process of each session; a deaf one lets its input be
    closed,     \* the sessions whose shell lives on after Close was called
    ended,      \* the sessions whose shell lives, or may yet, after their context was cancelled
    ui,         \* where the UI thread is, and what it holds
    shown,      \* history: the sessions a tab has shown whose shells live, and
                \* were not given up by an UI that waited long enough
    updates, readable, signals  \* an update is queued, the wake pipe has bytes, signals to come

backend == <<shell, closed, ended>>
wake    == <<updates, readable, signals>>
vars    == <<tabs, closing, worker, backend, ui, shown, wake>>

\* reply is the session that the tab's buffer answers terminal queries to.
NewTab  == [present |-> FALSE, status |-> "starting", gen |-> 0, sess |-> None, conn |-> None, reply |-> None]
Present(t) == tabs[t].present
Alive(s)   == shell[s] \in {"setup", "up", "deaf"}
Living(ss) == {s \in ss : Alive(s)}

At(p)   == ui.pc = p
Goes(p) == ui' = [ui EXCEPT !.pc = p]
Idle    == [pc |-> "drain", op |-> "none", held |-> {}, cancels |-> {}]

\* tabPresentLocked and the generation, asked by every callback.
Listed(s) == Present(s[1])                              \* mutant
Latest(s) == Present(s[1]) /\ tabs[s[1]].gen = s[2]

-----------------------------------------------------------------------------
(* notify, signalWake, drainWake. The UI thread signals before it goes on; *)
(* a goroutine may signal any time later.                                  *)

Notify == IF updates
          THEN UNCHANGED wake
          ELSE /\ updates' = TRUE /\ UNCHANGED readable
               /\ signals' = IF signals < MaxSignals THEN signals + 1 ELSE signals
NotifyUI == updates' = TRUE /\ readable' = (readable \/ ~updates) /\ UNCHANGED signals

Signal == /\ signals > 0 /\ ~At("exited")
          /\ signals' = signals - 1 /\ readable' = TRUE
          /\ UNCHANGED <<tabs, closing, worker, backend, ui, shown, updates>>

-----------------------------------------------------------------------------
(* runInteractive: the descriptor is drained before the channel.           *)

ReceiveUpdate == updates' = FALSE /\ UNCHANGED <<readable, signals>>
DrainWake     == readable' = FALSE /\ UNCHANGED <<updates, signals>>
ReceiveThenDrain(stage) == IF stage = "drain" THEN ReceiveUpdate ELSE DrainWake     \* mutant
DrainThenReceive(stage) == IF stage = "drain" THEN DrainWake ELSE ReceiveUpdate

Drain   == /\ At("drain") /\ DrainThenReceive("drain") /\ Goes("receive")
           /\ UNCHANGED <<tabs, closing, worker, backend, shown>>
Receive == /\ At("receive") /\ DrainThenReceive("receive") /\ Goes("read")
           /\ UNCHANGED <<tabs, closing, worker, backend, shown>>

\* The poll ends with a wake or at its timeout, or there is a key that does
\* nothing here. That it drains the pipe with any key makes no difference: the
\* next step of the loop is Drain.
Poll == /\ At("read") /\ Goes("drain") /\ DrainWake
        /\ UNCHANGED <<tabs, closing, worker, backend, shown>>

\* startTabSession. Its two critical sections are one: only the UI thread
\* changes generations, tabs and closing.
StartedSame(tab) == [tab EXCEPT !.status = "starting", !.conn = tab.gen + 1]       \* mutant
Started(tab) == [tab EXCEPT !.gen = @ + 1, !.status = "starting", !.conn = tab.gen + 1]

OpenTab(t) ==
    /\ At("read") /\ ~Present(t) /\ tabs[t].gen = 0
    /\ tabs' = [tabs EXCEPT ![t] = Started([NewTab EXCEPT !.present = TRUE])]
    /\ worker' = [worker EXCEPT ![<<t, 1>>] = "open"]
    /\ NotifyUI
    /\ ui' = Idle
    /\ UNCHANGED <<closing, backend, shown>>

\* What a tab that is closed, restarted or quit hands to the code after the lock.
Handles(t)   == IF tabs[t].sess = None THEN {} ELSE {<<t, tabs[t].sess>>}
Contexts(t)  == IF tabs[t].conn = None THEN {} ELSE {<<t, tabs[t].conn>>}
CancelsOnly(op, ts) == ui' = [pc |-> "release", op |-> op, held |-> {},     \* mutant
                              cancels |-> UNION {Contexts(t) : t \in ts}]
Takes(op, ts) == ui' = [pc |-> "release", op |-> op, held |-> UNION {Handles(t) : t \in ts},
                        cancels |-> UNION {Contexts(t) : t \in ts}]
Unhandled(tab) == [tab EXCEPT !.sess = None, !.conn = None, !.reply = None]
Invalidated(tab) == [Unhandled(tab) EXCEPT !.gen = tab.gen + 1]

CloseTab(t) ==
    /\ At("read") /\ Present(t)
    /\ tabs' = [tabs EXCEPT ![t] = [Unhandled(@) EXCEPT !.present = FALSE]]
    /\ Takes("close", {t})
    /\ UNCHANGED <<closing, worker, backend, shown, wake>>

\* restartActiveTab: a generation to invalidate the callbacks, a new buffer.
Restart(t) ==
    /\ At("read") /\ Present(t) /\ tabs[t].gen + 2 <= MaxGen[t]
    /\ tabs' = [tabs EXCEPT ![t] = Invalidated(@)]
    /\ Takes(t, {t})
    /\ UNCHANGED <<closing, worker, backend, shown, wake>>

Quit == /\ At("read")
        /\ closing' = TRUE
        /\ LET ts == {t \in Tabs : Present(t)} IN
             /\ tabs' = [t \in Tabs |-> IF t \in ts THEN Invalidated(tabs[t]) ELSE tabs[t]]
             /\ Takes("quit", ts)
        /\ UNCHANGED <<worker, backend, shown, wake>>

Release == /\ At("release")
           /\ ended' = ended \cup {s \in ui.cancels : Alive(s) \/ worker[s] = "open"}
           /\ closed' = closed \cup Living(ui.held)
           /\ Goes("await")
           /\ UNCHANGED <<tabs, closing, worker, shell, shown, wake>>

Unwaited == TRUE                                        \* mutant
AllEnded == \A s \in ui.held : ~Alive(s)
\* waitForTabSession, for 8 seconds at most; then what the operation ends with.
Await == /\ At("await")
         /\ \/ AllEnded /\ UNCHANGED shown
            \/ ~AllEnded /\ shown' = shown \ ui.held
         /\ CASE ui.op = "close" -> NotifyUI /\ ui' = Idle /\ UNCHANGED <<tabs, worker>>
              [] ui.op = "quit"  -> ui' = [Idle EXCEPT !.pc = "exited"] /\ UNCHANGED <<tabs, worker, wake>>
              [] OTHER -> /\ tabs' = [tabs EXCEPT ![ui.op] = Started(@)]
                          /\ worker' = [worker EXCEPT ![<<ui.op, tabs[ui.op].gen + 1>>] = "open"]
                          /\ NotifyUI /\ ui' = Idle
         /\ UNCHANGED <<closing, backend>>

\* writeActiveTab: the session is read under the lock and written to after it.
\* The pipe to a container's shell has no buffer and no time limit: it takes a key
\* only when the shell reads, or when an end of it is closed.
ReadOnly(s) == shell[s] = "up"                          \* mutant
Taken(s)    == shell[s] \notin {"setup", "deaf"} \/ s \in closed
Type(t) == /\ At("read") /\ Present(t) /\ tabs[t].sess # None
           /\ ui' = [ui EXCEPT !.pc = "write", !.held = Handles(t)]
           /\ UNCHANGED <<tabs, closing, worker, backend, shown, wake>>
Written == /\ At("write")
           /\ \A s \in ui.held : Taken(s)
           /\ ui' = Idle
           /\ UNCHANGED <<tabs, closing, worker, backend, shown, wake>>

-----------------------------------------------------------------------------
(* The goroutine of session s; it ends with the process.                   *)

In(s, stage) == worker[s] = stage /\ ~At("exited")
On(s, stage) == worker' = [worker EXCEPT ![s] = stage]

\* OpenTerminalSession answers at once for a container, whose shell is set up
\* by another goroutine.
Opened(s) == /\ In(s, "open")
             /\ shell' = [shell EXCEPT ![s] = "setup"]
             /\ On(s, "opened")
             /\ UNCHANGED <<tabs, closing, closed, ended, ui, shown, wake>>
OpenFails(s) == /\ In(s, "open")
                /\ On(s, "failed")
                /\ ended' = ended \ {s}
                /\ UNCHANGED <<tabs, closing, shell, closed, ui, shown, wake>>

\* clearTabConnectCancel does not ask for closing.
ClearCancel(s) ==
    /\ \/ In(s, "opened") /\ On(s, "set")
       \/ In(s, "failed") /\ On(s, "finish")
    /\ tabs' = [tabs EXCEPT ![s[1]].conn = IF Latest(s) THEN None ELSE @]
    /\ UNCHANGED <<closing, backend, ui, shown, wake>>

Dropped(s)  == UNCHANGED closed         \* mutant
Refused(s)  == closed' = closed \cup Living({s})
SetSession(s) ==
    /\ In(s, "set")
    /\ On(s, "copy")
    /\ IF ~closing /\ Latest(s)
       THEN /\ tabs' = [tabs EXCEPT ![s[1]].sess = s[2], ![s[1]].status = "running",
                                     ![s[1]].reply = s[2]]
            /\ shown' = shown \cup Living({s})
            /\ UNCHANGED closed
       ELSE Refused(s) /\ UNCHANGED <<tabs, shown>>
    /\ Notify
    /\ UNCHANGED <<closing, shell, ended, ui>>

\* Output is copied to the buffer until the shell or the session ends.
Output(s) == /\ In(s, "copy") /\ shell[s] \in {"up", "deaf"} /\ s \notin closed
             /\ ~updates /\ Notify
             /\ UNCHANGED <<tabs, closing, worker, backend, ui, shown>>
\* io.Copy ends with the shell or with Close, session.Wait with the shell or
\* with the context.
WaitEnds(s) == /\ In(s, "copy") /\ (~Alive(s) \/ s \in closed \cap ended)
               /\ On(s, "finish")
               /\ UNCHANGED <<tabs, closing, backend, ui, shown, wake>>

\* finishTabSession: what follows its critical section works on the buffer that
\* the tab has by then.
Finish(s) ==
    /\ In(s, "finish")
    /\ IF Latest(s)
       THEN /\ tabs' = [tabs EXCEPT ![s[1]].sess = None, ![s[1]].status = "exited"]
            /\ On(s, IF tabs[s[1]].sess = None THEN "unbound" ELSE "bound")
       ELSE UNCHANGED tabs /\ On(s, "done")
    /\ UNCHANGED <<closing, backend, ui, shown, wake>>
FinishBuffer(s) ==
    /\ \/ In(s, "bound") /\ closed' = closed \cup Living({s})
       \/ In(s, "unbound") /\ UNCHANGED closed
    /\ On(s, "done")
    /\ tabs' = [tabs EXCEPT ![s[1]].reply = None]
    /\ Notify
    /\ UNCHANGED <<closing, shell, ended, ui, shown>>

-----------------------------------------------------------------------------
(* ExecShellWithResize and the shell: a shell that is closed or cancelled  *)
(* is deleted, any other may exit; the set-up fails after 15 seconds.      *)

ShellUp(s)   == /\ shell[s] = "setup" /\ ~At("exited")
                /\ shell' = [shell EXCEPT ![s] = "up"]
                /\ UNCHANGED <<tabs, closing, worker, closed, ended, ui, shown, wake>>
\* What runs in the shell stops reading its input, or reads again.
ShellTurns(s) == /\ shell[s] \in {"up", "deaf"} /\ ~At("exited")
                 /\ shell' = [shell EXCEPT ![s] = IF @ = "up" THEN "deaf" ELSE "up"]
                 /\ UNCHANGED <<tabs, closing, worker, closed, ended, ui, shown, wake>>
ShellEnds(s) == /\ Alive(s) /\ ~At("exited")
                /\ shell' = [shell EXCEPT ![s] = "gone"]
                /\ closed' = closed \ {s} /\ ended' = ended \ {s} /\ shown' = shown \ {s}
                /\ UNCHANGED <<tabs, closing, worker, ui, wake>>

-----------------------------------------------------------------------------
Init == /\ tabs = [t \in Tabs |-> NewTab]
        /\ closing = FALSE
        /\ worker = [s \in Sessions |-> "none"]
        /\ shell = [s \in Sessions |-> "none"]
        /\ closed = {} /\ ended = {}
        /\ ui = Idle /\ shown = {}
        /\ updates = FALSE /\ readable = FALSE /\ signals = 0

Loop == Drain \/ Receive \/ Poll \/ Release \/ Await \/ Written
Press == Quit \/ \E t \in Tabs : OpenTab(t) \/ CloseTab(t) \/ Restart(t) \/ Type(t)
Goroutine(s) == Opened(s) \/ OpenFails(s) \/ ClearCancel(s) \/ SetSession(s) \/ WaitEnds(s)
                \/ Finish(s) \/ FinishBuffer(s)
Process(s) == ShellUp(s) \/ ShellTurns(s) \/ ShellEnds(s)
Next == Loop \/ Press \/ Signal \/ \E s \in Sessions : Goroutine(s) \/ Output(s) \/ Process(s)

Spec == Init /\ [][Next]_vars

\* The UI loop turns, goroutines run, and a shell whose session is closed or
\* cancelled is deleted; a set-up ends within its timeout. A shell need not ever
\* read; one that does time and again takes what waits for it.
FairSpec == /\ Spec /\ WF_vars(Loop) /\ SF_vars(Written) /\ WF_vars(Press) /\ WF_vars(Signal)
            /\ \A s \in Sessions : /\ WF_vars(Goroutine(s))
                                   /\ WF_vars(shell[s] = "setup" /\ (ShellUp(s) \/ ShellEnds(s)))
                                   /\ WF_vars(s \in closed \cup ended /\ ShellEnds(s))
-----------------------------------------------------------------------------
(* Properties *)

Stages == {"none", "open", "opened", "failed", "set", "copy", "finish", "bound", "unbound", "done"}
UIPCs  == {"drain", "receive", "read", "release", "await", "write", "exited"}
UIState  == [pc : UIPCs, op : Tabs \cup {"none", "close", "quit"}, held : SUBSET Sessions, cancels : SUBSET Sessions]
TabState == [present : BOOLEAN, status : {"starting", "running", "exited"}, gen : Nat,
             sess : Gens \cup {None}, conn : Gens \cup {None}, reply : Gens \cup {None}]

\* Every variable has its type, only a session that was opened has a shell, and
\* only generations that were started have a goroutine.
TypeOK ==
    /\ tabs \in [Tabs -> TabState]
    /\ \A t \in Tabs : \A g \in {tabs[t].sess, tabs[t].conn} : g = None \/ <<t, g>> \in Sessions
    /\ worker \in [Sessions -> Stages]
    /\ shell \in [Sessions -> {"none", "setup", "up", "deaf", "gone"}]
    /\ \A s \in Sessions : /\ shell[s] # "none" => worker[s] \notin {"none", "open", "failed"}
                           /\ worker[s] # "none" => s[2] <= tabs[s[1]].gen
    /\ closed \subseteq Sessions /\ ended \subseteq Sessions
    /\ ui \in UIState
    /\ closing \in BOOLEAN /\ shown \subseteq Sessions
    /\ updates \in BOOLEAN /\ readable \in BOOLEAN /\ signals \in 0..MaxSignals

\* No shell is lost: one that lives belongs to the tab that shows it, or its end
\* is under way, or somebody still holds it who will show or close it.
NoStray ==
    \A s \in Sessions : Alive(s) =>
        \/ Present(s[1]) /\ tabs[s[1]].sess = s[2]
        \/ s \in closed \cup ended
        \/ worker[s] \in {"opened", "set"}
        \/ s \in ui.held /\ At("release")

\* The goroutine of a session that a restart, a close or the end of the program
\* has left behind changes nothing of the tab ("Invalidate callbacks from the
\* previous backend before closing it", restartActiveTab), except that a buffer
\* may still lose its reply writer to what follows finishTabSession's lock.
Muted(tab) == [tab EXCEPT !.reply = None]
Left(s) == ~(Present(s[1]) /\ tabs[s[1]].gen = s[2])
Fenced == [][\A s \in Sessions : worker'[s] # worker[s] /\ worker[s] # "none" /\ Left(s)
                                   => tabs' \in {tabs, [tabs EXCEPT ![s[1]] = Muted(@)]}]_vars

\* When the UI is back in its loop, a tab that runs shows the session of its last
\* generation, and its buffer answers to that session or to none.
Connected ==
    ui.pc \in {"drain", "receive", "read"} =>
        \A t \in Tabs : Present(t) /\ tabs[t].status = "running" =>
            tabs[t].sess = tabs[t].gen /\ tabs[t].reply \in {None, tabs[t].sess}

\* "It can never leave a queued update without a wake byte" (drainTabUpdates),
\* when the UI goes to poll and all have signalled.
Woken == At("read") /\ updates => readable \/ signals > 0

\* The program ends with no shell left that a tab was showing, unless one took
\* more than its 8 seconds (waitForTabSession). The shell of a tab that was
\* still connecting is not waited for.
ShellsEnd == At("exited") => shown = {}

\* A key for a shell that is not up yet, that was closed or that has ended does not
\* hold the UI: it comes back to its poll, unless it waits from then on in
\* writeActiveTab for a shell that lives and never reads again.
Stuck == At("write") /\ \E s \in ui.held : shell[s] = "deaf"
KeyAnswered == ~At("read") ~> (ui.pc \in {"read", "exited"} \/ []Stuck)

\* The shells of what is closed or restarted end.
Reaped == \A s \in Sessions : (worker[s] # "none" /\ Left(s)) ~> (~Alive(s) \/ At("exited"))
=============================================================================
