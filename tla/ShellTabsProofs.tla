--------------------------- MODULE ShellTabsProofs ---------------------------
(***************************************************************************)
(* Proofs about ShellTabs, for any number of tabs and restarts: no shell is *)
(* lost, what a restart or a close left behind changes no tab, no update is *)
(* queued without a wake, and the program ends after the shells it showed.  *)
(***************************************************************************)
EXTENDS ShellTabs, TLAPS

\* What is there of a tab and of the goroutine and shell of a session.
TabTypes ==
    /\ tabs \in [Tabs -> TabState]
    /\ \A t \in Tabs : \A g \in {tabs[t].sess, tabs[t].conn} : g = None \/ <<t, g>> \in Sessions
SessionTypes ==
    /\ worker \in [Sessions -> Stages]
    /\ shell \in [Sessions -> {"none", "setup", "up", "deaf", "gone"}]
    /\ \A s \in Sessions : /\ shell[s] # "none" => worker[s] \notin {"none", "open", "failed"}
                           /\ worker[s] # "none" => s[2] <= tabs[s[1]].gen
SetTypes == closed \subseteq Sessions /\ ended \subseteq Sessions /\ shown \subseteq Sessions
RestTypes ==
    /\ ui \in UIState /\ closing \in BOOLEAN
    /\ updates \in BOOLEAN /\ readable \in BOOLEAN /\ signals \in 0..MaxSignals

\* TypeOK, in parts.
Types == TabTypes /\ SessionTypes /\ SetTypes /\ RestTypes
Shows(s) == tabs[s[1]].sess = s[2]
Restarting(t) == ui.pc \in {"release", "await"} /\ ui.op = t

\* A tab that is there was started; one that shows a session shows that of its
\* last generation, whose goroutine copies it. A restart has a generation
\* that no goroutine works for.
Tabbed ==
    \A t \in Tabs :
        /\ Present(t) => tabs[t].gen >= 1
        /\ tabs[t].sess # None => Present(t) /\ ~closing /\ tabs[t].sess = tabs[t].gen
        /\ Restarting(t) => /\ Present(t) /\ tabs[t].sess = None /\ tabs[t].gen + 1 <= MaxGen[t]
                            /\ worker[<<t, tabs[t].gen>>] = "none"

\* The session a tab shows is not closed, and is copied until its shell is gone;
\* one that is closed was offered to its tab.
Unset == {"none", "open", "opened", "failed", "set"}
Copied ==
    \A s \in Sessions :
        /\ Shows(s) => worker[s] \in {"copy", "finish"} /\ s \notin closed
        /\ worker[s] \in {"finish", "bound", "unbound", "done"} /\ Alive(s) => s \in closed \cap ended
        /\ s \in closed => worker[s] \notin Unset

\* What an operation holds has left its tab and has a goroutine that set it.
Held ==
    ui.pc \in {"release", "await"} =>
        /\ ui.op # "none"
        /\ \A s \in ui.held : worker[s] \notin Unset /\ Left(s)

\* Connected, at any time: for every tab but the one being restarted.
Running ==
    \A t \in Tabs :
        Present(t) /\ tabs[t].status = "running"
          => \/ tabs[t].sess = tabs[t].gen /\ tabs[t].reply \in {None, tabs[t].sess}
             \/ At("exited")
             \/ ui.pc \in {"release", "await"} /\ ui.op \in {t, "quit"}

\* A quit lets the session of every tab go.
Quits == At("exited") \/ (ui.pc \in {"release", "await"} /\ ui.op = "quit") => closing
Shown ==
    /\ \A s \in shown : Alive(s) /\ (Shows(s) \/ (ui.pc \in {"release", "await"} /\ s \in ui.held))
    /\ ShellsEnd

\* Nobody waits for a wake that will not come.
Waking == updates /\ ~readable /\ signals = 0 => ui.pc \in {"drain", "receive"}

IInv == Types /\ Tabbed /\ Copied /\ Held /\ NoStray /\ Running /\ Quits /\ Shown /\ Waking

-----------------------------------------------------------------------------
(* Types *)

\* Generations are counted from 1, and a session is a tab with one of its own.
LEMMA SessionFacts ==
    /\ Gens \subseteq Nat \ {0} /\ None \notin Gens
    /\ \A t \in Tabs : \A g \in 1..MaxGen[t] : g \in Gens /\ <<t, g>> \in Sessions
    /\ \A s \in Sessions : s[1] \in Tabs /\ s[2] \in Gens /\ s = <<s[1], s[2]>>
    /\ \A t \in Tabs : MaxGen[t] >= 1
BY ShellTabsAssumption DEF Gens, Sessions, None

LEMMA TabFacts ==
    ASSUME NEW tab \in TabState
    PROVE  /\ tab.present \in BOOLEAN /\ tab.gen \in Nat /\ tab.sess \in Gens \cup {None}
           /\ tab.conn \in Gens \cup {None} /\ tab.reply \in Gens \cup {None}
           /\ Muted(tab) \in TabState
           /\ [Unhandled(tab) EXCEPT !.present = FALSE] \in TabState
           /\ Invalidated(tab) \in TabState
           /\ [tab EXCEPT !.sess = None, !.status = "exited"] \in TabState
           /\ \A g \in Gens \cup {None} : [tab EXCEPT !.conn = g] \in TabState
           /\ \A g \in Gens : [tab EXCEPT !.sess = g, !.status = "running", !.reply = g] \in TabState
           /\ tab.gen + 1 \in Gens => Started(tab) \in TabState
<1>1. /\ tab.present \in BOOLEAN /\ tab.gen \in Nat /\ tab.sess \in Gens \cup {None}
      /\ tab.conn \in Gens \cup {None} /\ tab.reply \in Gens \cup {None}
    BY DEF TabState
<1>2. Muted(tab) \in TabState
    BY DEF Muted, TabState
<1>3. [Unhandled(tab) EXCEPT !.present = FALSE] \in TabState
    BY DEF Unhandled, TabState
<1>4. Invalidated(tab) \in TabState
  <2>1. Unhandled(tab) \in TabState
    BY DEF Unhandled, TabState
  <2>2. \A u \in TabState, g \in Nat : [u EXCEPT !.gen = g] \in TabState
    BY DEF TabState
  <2>3. tab.gen + 1 \in Nat
    BY <1>1
  <2> QED  BY <2>1, <2>2, <2>3 DEF Invalidated
<1>5. [tab EXCEPT !.sess = None, !.status = "exited"] \in TabState
    BY DEF TabState
<1>6. \A g \in Gens \cup {None} : [tab EXCEPT !.conn = g] \in TabState
    BY DEF TabState
<1>7. \A g \in Gens : [tab EXCEPT !.sess = g, !.status = "running", !.reply = g] \in TabState
    BY DEF TabState
<1>8. tab.gen + 1 \in Gens => Started(tab) \in TabState
  <2>1. \A g \in Nat, c \in Gens : [tab EXCEPT !.gen = g, !.status = "starting", !.conn = c] \in TabState
    BY DEF TabState
  <2>2. tab.gen + 1 \in Nat
    BY <1>1
  <2>3. Started(tab) = [tab EXCEPT !.gen = tab.gen + 1, !.status = "starting", !.conn = tab.gen + 1]
    BY DEF Started
  <2> QED  BY <2>1, <2>2, <2>3
<1> QED  BY <1>1, <1>2, <1>3, <1>4, <1>5, <1>6, <1>7, <1>8

LEMMA TypeParts == TypeOK <=> Types
BY DEF TypeOK, Types, TabTypes, SessionTypes, SetTypes, RestTypes

LEMMA UIFacts ==
    ASSUME ui \in UIState
    PROVE  /\ ui.pc \in UIPCs /\ ui.op \in Tabs \cup {"none", "close", "quit"}
           /\ ui.held \subseteq Sessions /\ ui.cancels \subseteq Sessions
           /\ \A p \in UIPCs : Goes(p) => ui' \in UIState /\ ui'.pc = p /\ ui'.op = ui.op /\ ui'.held = ui.held
<1>1. /\ ui.pc \in UIPCs /\ ui.op \in Tabs \cup {"none", "close", "quit"}
      /\ ui.held \subseteq Sessions /\ ui.cancels \subseteq Sessions
    BY DEF UIState
<1>2. ASSUME NEW p \in UIPCs
      PROVE  /\ [ui EXCEPT !.pc = p] \in UIState
             /\ [ui EXCEPT !.pc = p].pc = p /\ [ui EXCEPT !.pc = p].op = ui.op /\ [ui EXCEPT !.pc = p].held = ui.held
    BY DEF UIState
<1> QED  BY <1>1, <1>2 DEF Goes

LEMMA IdleFacts == Idle \in UIState /\ Idle.pc = "drain" /\ Idle.held = {} /\ Idle.op = "none"
BY DEF UIState, UIPCs, Idle

LEMMA WakeTypes ==
    ASSUME Types, Notify \/ NotifyUI \/ DrainWake \/ ReceiveUpdate \/ UNCHANGED wake
    PROVE  updates' \in BOOLEAN /\ readable' \in BOOLEAN /\ signals' \in 0..MaxSignals
<1>1. updates \in BOOLEAN /\ readable \in BOOLEAN /\ signals \in 0..MaxSignals
    BY DEF Types, RestTypes
<1>2. CASE Notify
  <2>1. UNCHANGED wake \/ (/\ updates' = TRUE /\ readable' = readable
                           /\ signals' = IF signals < MaxSignals THEN signals + 1 ELSE signals)
    BY <1>2 DEF Notify
  <2>2. signals' \in 0..MaxSignals
    BY <1>1, <2>1, ShellTabsAssumption DEF wake
  <2> QED  BY <1>1, <2>1, <2>2 DEF wake
<1>3. CASE NotifyUI
  <2>1. updates' = TRUE /\ signals' = signals /\ readable' = (readable \/ ~updates)
    BY <1>3 DEF NotifyUI
  <2>2. readable' \in BOOLEAN
    BY <2>1
  <2> QED  BY <1>1, <2>1, <2>2
<1>4. CASE DrainWake \/ ReceiveUpdate \/ UNCHANGED wake
    BY <1>1, <1>4 DEF DrainWake, ReceiveUpdate, wake
<1> QED  BY <1>2, <1>3, <1>4

LEMMA TakesFacts ==
    ASSUME Types, NEW op \in Tabs \cup {"close", "quit"}, NEW ts \in SUBSET Tabs, Takes(op, ts)
    PROVE  /\ ui' \in UIState /\ ui'.pc = "release" /\ ui'.op = op
           /\ \A s \in ui'.held : s[1] \in ts /\ s[2] = tabs[s[1]].sess /\ s[2] # None
           /\ \A t \in ts : tabs[t].sess # None => <<t, tabs[t].sess>> \in ui'.held
<1> DEFINE held == UNION {Handles(t) : t \in ts}
           cancels == UNION {Contexts(t) : t \in ts}
<1>1. held \subseteq Sessions /\ cancels \subseteq Sessions
  <2>1. \A t \in Tabs : \A g \in {tabs[t].sess, tabs[t].conn} : g = None \/ <<t, g>> \in Sessions
    BY DEF Types, TabTypes
  <2>2. \A t \in ts : Handles(t) \subseteq Sessions /\ Contexts(t) \subseteq Sessions
    BY <2>1 DEF Handles, Contexts
  <2> QED  BY <2>2
<1>2. ui' = [pc |-> "release", op |-> op, held |-> held, cancels |-> cancels]
    BY DEF Takes
<1>3. \A s \in held : s[1] \in ts /\ s[2] = tabs[s[1]].sess /\ s[2] # None
    BY DEF Handles
<1>4. \A t \in ts : tabs[t].sess # None => <<t, tabs[t].sess>> \in held
    BY DEF Handles
<1> HIDE DEF held, cancels
<1> QED  BY <1>1, <1>2, <1>3, <1>4 DEF UIState, UIPCs

LEMMA TypeInit == Init => Types
<1> SUFFICES ASSUME Init PROVE Types
  OBVIOUS
<1>1. NewTab \in TabState /\ NewTab.sess = None /\ NewTab.conn = None
    BY DEF NewTab, TabState
<1>2. TabTypes
    BY <1>1 DEF Init, TabTypes
<1>3. SessionTypes /\ SetTypes
    BY DEF Init, SessionTypes, SetTypes, Stages
<1>4. RestTypes
    <2>1. ui \in UIState /\ signals \in 0..MaxSignals
      BY IdleFacts, ShellTabsAssumption DEF Init
  <2>2. closing \in BOOLEAN /\ updates \in BOOLEAN /\ readable \in BOOLEAN
      BY DEF Init
  <2> QED  BY <2>1, <2>2 DEF RestTypes
<1> QED  BY <1>2, <1>3, <1>4 DEF Types

-----------------------------------------------------------------------------
(* The steps of the loop *)

LEMMA Unmoved ==
    ASSUME IInv, UNCHANGED <<tabs, worker, backend, closing, shown>>
    PROVE  TabTypes' /\ SessionTypes' /\ SetTypes' /\ closing' \in BOOLEAN /\ Copied'
BY DEF IInv, Types, TabTypes, SessionTypes, SetTypes, RestTypes, Copied, Shows, Alive, backend

\* Steps of the loop that change no tab and no session.
LEMMA LoopKeeps ==
    ASSUME IInv, Drain \/ Receive \/ Poll \/ Signal \/ Written
    PROVE  IInv'
<1>1. UNCHANGED <<tabs, worker, backend, closing, shown>>
    BY DEF Drain, Receive, Poll, Signal, Written
<1>2. /\ (ui' \in UIState /\ ui'.pc \in {"drain", "receive", "read"}) \/ UNCHANGED ui
      /\ ui.pc \notin {"release", "await", "exited"} \/ UNCHANGED ui
  <2>1. CASE Written
    BY <2>1, IdleFacts DEF Written, At
  <2>2. CASE Signal
    BY <2>2 DEF Signal
  <2>3. CASE Drain \/ Receive \/ Poll
    BY <2>3, UIFacts DEF IInv, Types, RestTypes, Drain, Receive, Poll, UIPCs, At
  <2> QED  BY <2>1, <2>2, <2>3
<1>3. DrainWake \/ ReceiveUpdate \/ Signal \/ UNCHANGED wake
    BY DEF Drain, Receive, Poll, Written, DrainThenReceive
<1>4. Types'
  <2>1. updates' \in BOOLEAN /\ readable' \in BOOLEAN /\ signals' \in 0..MaxSignals
    <3>1. CASE Signal
      <4>1. signals' = signals - 1 /\ signals > 0 /\ readable' = TRUE /\ updates' = updates
        BY <3>1 DEF Signal
      <4>2. signals' \in 0..MaxSignals /\ updates \in BOOLEAN
        BY <4>1, ShellTabsAssumption DEF IInv, Types, RestTypes
      <4> QED  BY <4>1, <4>2
    <3> QED  BY <1>3, <3>1, WakeTypes DEF IInv
  <2> QED  BY <1>1, <1>2, <2>1, Unmoved DEF IInv, Types, RestTypes
<1>5. Tabbed' /\ Held' /\ Quits'
    BY <1>1, <1>2 DEF IInv, Tabbed, Restarting, Held, Left, Present, Quits, At
<1>6. Running' /\ NoStray' /\ Shown'
    BY <1>1, <1>2 DEF IInv, Running, NoStray, Shown, ShellsEnd, Shows, Alive, Present, At, backend
<1>7. Waking'
  <2>1. Drain \/ Poll \/ Written => ui'.pc \in {"drain", "receive"}
    BY UIFacts, IdleFacts DEF Drain, Poll, Written, IInv, Types, RestTypes, UIPCs
  <2>2. Receive => updates' = FALSE
    BY DEF Receive, DrainThenReceive, ReceiveUpdate
  <2>3. Signal => readable' = TRUE
    BY DEF Signal
  <2> QED  BY <2>1, <2>2, <2>3 DEF Waking
<1> QED  BY <1>1, <1>4, <1>5, <1>6, <1>7, Unmoved DEF IInv

-----------------------------------------------------------------------------
(* The operations of the UI thread *)

\* A tab takes up a new generation: OpenTab, and the end of a restart.
LEMMA StartKeeps ==
    ASSUME IInv, NEW t \in Tabs, NEW new \in TabState, NEW g, g = tabs[t].gen + 1, g <= MaxGen[t],
           tabs[t].sess = None, new.present, new.gen = g, new.conn = g, new.sess = None, new.status = "starting",
           tabs' = [tabs EXCEPT ![t] = new], worker' = [worker EXCEPT ![<<t, g>>] = "open"],
           ui.pc \in {"read", "await"}, ui.pc = "await" => ui.op = t,
           ui' = Idle, NotifyUI, UNCHANGED <<closing, backend>>,
           shown' \subseteq shown, \A s \in shown' : Shows(s)
    PROVE  IInv'
<1>1. g \in Gens /\ <<t, g>> \in Sessions /\ g \in Nat /\ g >= 1
  <2>1. tabs[t].gen \in Nat
    BY TabFacts DEF IInv, Types, TabTypes
  <2> QED  BY <2>1, SessionFacts, ShellTabsAssumption
<1>2. worker[<<t, g>>] = "none" /\ shell[<<t, g>>] = "none"
  <2>1. tabs[t].gen \in Nat /\ <<t, g>>[1] = t /\ <<t, g>>[2] = g
    BY TabFacts DEF IInv, Types, TabTypes
  <2> QED  BY <1>1, <2>1 DEF IInv, Types, SessionTypes
<1>3. \A s \in Sessions : s[1] = t => ~Shows(s)
    BY SessionFacts DEF Shows, None
<1>4. /\ \A s \in Sessions : Shows(s)' = Shows(s) /\ Alive(s)' = Alive(s)
      /\ \A u \in Tabs \ {t} : tabs'[u] = tabs[u]
      /\ tabs'[t] = new
      /\ \A s \in Sessions \ {<<t, g>>} : worker'[s] = worker[s]
      /\ worker'[<<t, g>>] = "open"
    BY <1>1, <1>3, SessionFacts DEF IInv, Types, TabTypes, SessionTypes, Shows, Alive, backend
<1>5. ui' \in UIState /\ ui'.pc = "drain" /\ ui'.held = {}
    BY IdleFacts
<1>6. Types'
  <2>1. TabTypes'
    BY <1>1, <1>4 DEF IInv, Types, TabTypes
  <2>2. SessionTypes'
    <3>1. worker' \in [Sessions -> Stages] /\ shell' = shell
      BY <1>1 DEF IInv, Types, SessionTypes, Stages, backend
    <3>2. ASSUME NEW s \in Sessions, worker'[s] # "none" PROVE s[2] <= tabs'[s[1]].gen
      <4>1. CASE s = <<t, g>>
        BY <1>1, <1>4, <4>1
      <4>2. CASE s # <<t, g>>
        <5>1. s[1] \in Tabs /\ s[2] \in Nat /\ s[2] <= tabs[s[1]].gen /\ tabs[s[1]].gen \in Nat
          BY <1>4, <3>2, <4>2, SessionFacts, TabFacts DEF IInv, Types, SessionTypes, TabTypes
        <5> QED  BY <1>4, <5>1
      <4> QED  BY <4>1, <4>2
    <3>3. \A s \in Sessions : shell'[s] # "none" => worker'[s] \notin {"none", "open", "failed"}
      BY <1>2, <1>4, <3>1 DEF IInv, Types, SessionTypes
    <3> QED  BY <3>1, <3>2, <3>3 DEF IInv, Types, SessionTypes
  <2>3. SetTypes' /\ closing' \in BOOLEAN
    BY DEF IInv, Types, SetTypes, RestTypes, backend
  <2> QED  BY <1>5, <2>1, <2>2, <2>3, WakeTypes DEF IInv, Types, RestTypes
<1>7. Tabbed'
  <2>1. \A u \in Tabs : ~Restarting(u)'
    BY <1>5 DEF Restarting
  <2>2. \A u \in Tabs : /\ Present(u)' => tabs'[u].gen >= 1
                        /\ tabs'[u].sess # None => Present(u)' /\ ~closing' /\ tabs'[u].sess = tabs'[u].gen
    <3>1. \A u \in Tabs : /\ Present(u) => tabs[u].gen >= 1
                          /\ tabs[u].sess # None => Present(u) /\ ~closing /\ tabs[u].sess = tabs[u].gen
      BY DEF IInv, Tabbed
    <3>2. tabs'[t].gen >= 1 /\ tabs'[t].sess = None
      BY <1>1, <1>4
    <3>3. \A u \in Tabs \ {t} : Present(u)' = Present(u)
      BY <1>4 DEF Present
    <3> QED  BY <1>4, <3>1, <3>2, <3>3
  <2> QED  BY <2>1, <2>2 DEF Tabbed
<1>8. Copied' /\ NoStray'
  <2>1. closed' = closed /\ ended' = ended
    BY DEF backend
  <2>0. <<t, g>> \notin closed
    BY <1>1, <1>2 DEF IInv, Copied, Unset
  <2>2. ASSUME NEW s \in Sessions, Alive(s), Present(s[1]), Shows(s) PROVE Present(s[1])'
    BY <1>3, <1>4, <2>2, SessionFacts DEF Present
  <2>3. Copied'
    BY <1>2, <1>3, <1>4, <2>0, <2>1, SessionFacts DEF IInv, Copied, Alive
  <2>4. NoStray'
    BY <1>2, <1>4, <2>1, <2>2 DEF IInv, NoStray, Alive, At, Shows
  <2> QED  BY <2>3, <2>4
<1>9. Held' /\ Quits' /\ Waking'
    BY <1>5 DEF Held, Quits, Waking, At
<1>10. Running'
    BY <1>4, <1>5, ShellTabsAssumption DEF IInv, Running, Present, At
<1>11. Shown'
    BY <1>4, <1>5 DEF IInv, Types, SetTypes, Shown, ShellsEnd, At
<1> QED  BY <1>6, <1>7, <1>8, <1>9, <1>10, <1>11 DEF IInv

\* Tabs hand over what they hold: closed, restarted or quit.
LEMMA TakesKeeps ==
    ASSUME IInv, At("read"), NEW op \in Tabs \cup {"close", "quit"}, NEW ts \in SUBSET Tabs, Takes(op, ts),
           tabs' \in [Tabs -> TabState],
           \A t \in Tabs \ ts : tabs'[t] = tabs[t],
           \A t \in ts : /\ Present(t) /\ tabs'[t].sess = None /\ tabs'[t].conn = None
                         /\ \/ ~tabs'[t].present /\ tabs'[t].gen = tabs[t].gen
                            \/ tabs'[t].present /\ tabs'[t].gen = tabs[t].gen + 1 /\ op \in {t, "quit"},
           op \in Tabs => op \in ts /\ tabs'[op].present /\ tabs'[op].gen + 1 <= MaxGen[op],
           closing' = (closing \/ op = "quit"),
           op = "quit" => ts = {t \in Tabs : Present(t)},
           UNCHANGED <<worker, backend, shown, wake>>
    PROVE  IInv'
<1>1. /\ ui' \in UIState /\ ui'.pc = "release" /\ ui'.op = op
      /\ \A s \in ui'.held : s \in Sessions /\ s[1] \in ts /\ s[2] = tabs[s[1]].sess /\ s[2] # None
      /\ \A t \in ts : tabs[t].sess # None => <<t, tabs[t].sess>> \in ui'.held
    BY TakesFacts DEF IInv, UIState
<1>2. \A t \in Tabs : tabs[t].gen \in Nat /\ tabs'[t].gen \in Nat /\ tabs'[t].gen >= tabs[t].gen
  <2>1. \A t \in Tabs : tabs[t].gen \in Nat
    BY TabFacts DEF IInv, Types, TabTypes
  <2> QED  BY <2>1
<1>3. \A s \in Sessions : /\ s[1] \in ts => ~Shows(s)'
                          /\ s[1] \notin ts => Shows(s)' = Shows(s)
                          /\ s[1] \in ts /\ Shows(s) => s \in ui'.held
  <2> SUFFICES ASSUME NEW s \in Sessions
               PROVE  /\ s[1] \in ts => ~Shows(s)'
                      /\ s[1] \notin ts => Shows(s)' = Shows(s)
                      /\ s[1] \in ts /\ Shows(s) => s \in ui'.held
    OBVIOUS
  <2>1. s[1] \in Tabs /\ s[2] # None /\ s = <<s[1], s[2]>>
    BY SessionFacts DEF None
  <2> QED  BY <1>1, <2>1 DEF Shows
<1>4. Types'
  <2>1. TabTypes'
    BY DEF IInv, Types, TabTypes
  <2>2. SessionTypes'
    <3>1. ASSUME NEW s \in Sessions, worker'[s] # "none" PROVE s[2] <= tabs'[s[1]].gen
      <4>1. s[1] \in Tabs /\ s[2] \in Nat /\ s[2] <= tabs[s[1]].gen
        BY <3>1, SessionFacts DEF IInv, Types, SessionTypes
      <4> QED  BY <1>2, <4>1
    <3> QED  BY <3>1 DEF IInv, Types, SessionTypes, backend
  <2>3. SetTypes'
    BY DEF IInv, Types, SetTypes, backend
  <2>4. closing' \in BOOLEAN
    BY DEF IInv, Types, RestTypes
  <2>5. RestTypes'
    BY <1>1, <2>4, WakeTypes DEF IInv, Types, RestTypes
  <2> QED  BY <2>1, <2>2, <2>3, <2>5 DEF Types
<1>5. Tabbed'
  <2> SUFFICES ASSUME NEW t \in Tabs
               PROVE  /\ Present(t)' => tabs'[t].gen >= 1
                      /\ tabs'[t].sess # None => Present(t)' /\ ~closing' /\ tabs'[t].sess = tabs'[t].gen
                      /\ Restarting(t)' => /\ Present(t)' /\ tabs'[t].sess = None /\ tabs'[t].gen + 1 <= MaxGen[t]
                                           /\ worker'[<<t, tabs'[t].gen>>] = "none"
    BY DEF Tabbed
  <2>1. /\ Present(t) => tabs[t].gen >= 1
        /\ tabs[t].sess # None => Present(t) /\ ~closing /\ tabs[t].sess = tabs[t].gen
    BY DEF IInv, Tabbed
  <2>2. Present(t)' => tabs'[t].gen >= 1
    BY <1>2, <2>1 DEF Present
  <2>3. tabs'[t].sess # None => Present(t)' /\ ~closing' /\ tabs'[t].sess = tabs'[t].gen
    BY <2>1 DEF Present
  <2>4. Restarting(t)' => Present(t)' /\ tabs'[t].sess = None /\ tabs'[t].gen + 1 <= MaxGen[t]
    BY <1>1 DEF Present, Restarting
  <2>5. Restarting(t)' => worker'[<<t, tabs'[t].gen>>] = "none"
    <3> SUFFICES ASSUME Restarting(t)' PROVE worker[<<t, tabs'[t].gen>>] = "none"
      OBVIOUS
    <3>1. op = t /\ tabs'[t].gen = tabs[t].gen + 1 /\ tabs'[t].gen + 1 <= MaxGen[t]
      BY <1>1 DEF Restarting
    <3>2. tabs[t].gen \in Nat /\ MaxGen[t] \in Nat
      BY <1>2, ShellTabsAssumption
    <3>3. tabs'[t].gen \in 1..MaxGen[t] /\ ~(tabs'[t].gen <= tabs[t].gen)
      BY <3>1, <3>2
    <3>4. <<t, tabs'[t].gen>> \in Sessions
      BY <3>3, SessionFacts
    <3> QED  BY <3>3, <3>4 DEF IInv, Types, SessionTypes
  <2> QED  BY <2>2, <2>3, <2>4, <2>5
<1>6. Copied'
    BY <1>3 DEF IInv, Copied, Alive, backend
<1>7. Held'
  <2>1. ui'.op # "none"
    BY <1>1, ShellTabsAssumption
  <2>2. ASSUME NEW s \in ui'.held
        PROVE  worker'[s] \notin Unset /\ Left(s)'
    <3>1. Shows(s) /\ s[1] \in ts /\ s \in Sessions /\ s[2] # None /\ s[2] = tabs[s[1]].sess
      BY <1>1, <2>2 DEF Shows
    <3>2. worker[s] \in {"copy", "finish"} /\ s[2] = tabs[s[1]].gen
      BY <3>1 DEF IInv, Copied, Tabbed
    <3>3. Left(s)'
      BY <1>2, <3>1, <3>2 DEF Left, Present
    <3> QED  BY <3>2, <3>3 DEF Unset
  <2> QED  BY <2>1, <2>2 DEF Held
<1>8. NoStray'
  <2> SUFFICES ASSUME NEW s \in Sessions, Alive(s)' PROVE
        \/ Present(s[1])' /\ tabs'[s[1]].sess = s[2]
        \/ s \in closed' \cup ended'
        \/ worker'[s] \in {"opened", "set"}
        \/ s \in ui'.held /\ At("release")'
    BY DEF NoStray
  <2>1. \/ Present(s[1]) /\ Shows(s)
        \/ s \in closed \cup ended
        \/ worker[s] \in {"opened", "set"}
    BY DEF IInv, NoStray, Alive, backend, At, Shows
  <2>2. CASE Present(s[1]) /\ Shows(s)
    BY <1>1, <1>3, <2>2, SessionFacts DEF At, Present, Shows
  <2> QED  BY <2>1, <2>2 DEF backend
<1>9. Running'
  <2> SUFFICES ASSUME NEW t \in Tabs, Present(t)', tabs'[t].status = "running", ui'.op \notin {t, "quit"}
               PROVE  tabs'[t].sess = tabs'[t].gen /\ tabs'[t].reply \in {None, tabs'[t].sess}
    BY <1>1 DEF Running, At
  <2>1. t \notin ts
    BY <1>1 DEF Present
  <2> QED  BY <2>1 DEF IInv, Running, Present, At
<1>10. Quits' /\ Waking'
    BY <1>1 DEF IInv, Quits, Waking, At, wake
<1>11. Shown'
    BY <1>1, <1>3 DEF IInv, Types, SetTypes, Shown, ShellsEnd, At, Alive, backend
<1> QED  BY <1>4, <1>5, <1>6, <1>7, <1>8, <1>9, <1>10, <1>11 DEF IInv

\* What a tab is when its connection starts.
LEMMA StartedFacts ==
    ASSUME NEW tab \in TabState, tab.gen + 1 \in Gens
    PROVE  /\ Started(tab) \in TabState /\ Started(tab).gen = tab.gen + 1 /\ Started(tab).conn = tab.gen + 1
           /\ Started(tab).sess = tab.sess /\ Started(tab).present = tab.present /\ Started(tab).status = "starting"
<1>1. Started(tab) \in TabState /\ tab.gen + 1 \in Nat
  <2>1. tab.gen \in Nat
    BY DEF TabState
  <2>2. Started(tab) \in TabState
    BY TabFacts
  <2> QED  BY <2>1, <2>2
<1>2. \A u \in TabState, g \in Nat, c \in Gens :
          LET v == [u EXCEPT !.gen = g, !.status = "starting", !.conn = c]
          IN  v.gen = g /\ v.conn = c /\ v.sess = u.sess /\ v.present = u.present /\ v.status = "starting"
    BY DEF TabState
<1>3. Started(tab) = [tab EXCEPT !.gen = tab.gen + 1, !.status = "starting", !.conn = tab.gen + 1]
    BY DEF Started
<1> QED  BY <1>1, <1>2, <1>3

LEMMA OpenTabKeeps == ASSUME IInv, NEW t \in Tabs, OpenTab(t) PROVE IInv'
<1> DEFINE n == [NewTab EXCEPT !.present = TRUE]
<1>1. n \in TabState /\ n.gen = 0 /\ n.sess = None /\ n.present
    BY DEF NewTab, TabState, None
<1>2. tabs[t].gen = 0 /\ ~Present(t) /\ tabs[t].sess = None
    BY DEF OpenTab, IInv, Tabbed
<1>3. 1 \in Gens /\ 1 <= MaxGen[t] /\ 1 = tabs[t].gen + 1
  <2>1. MaxGen[t] \in Nat /\ MaxGen[t] >= 1 /\ 1 \in 1..MaxGen[t]
    BY SessionFacts, ShellTabsAssumption
  <2>2. 1 \in Gens
    BY <2>1, SessionFacts
  <2> QED  BY <1>2, <2>1, <2>2
<1>4. /\ Started(n) \in TabState /\ Started(n).gen = 1 /\ Started(n).conn = 1 /\ Started(n).sess = None
      /\ Started(n).present /\ Started(n).status = "starting"
  <2> HIDE DEF n
  <2>1. n.gen + 1 = 1
    BY <1>1
  <2> QED  BY <1>1, <1>3, <2>1, StartedFacts
<1> HIDE DEF n
<1>5. /\ tabs' = [tabs EXCEPT ![t] = Started(n)] /\ worker' = [worker EXCEPT ![<<t, 1>>] = "open"]
      /\ NotifyUI /\ ui' = Idle /\ UNCHANGED <<closing, backend, shown>> /\ ui.pc = "read"
    BY DEF OpenTab, At, n
<1>6. \A s \in shown' : Shows(s)
    BY <1>5 DEF IInv, Shown
<1> QED  BY <1>2, <1>3, <1>4, <1>5, <1>6, StartKeeps

\* What a tab is after it handed over its session.
LEMMA UnhandledFacts ==
    ASSUME NEW tab \in TabState
    PROVE  /\ [Unhandled(tab) EXCEPT !.present = FALSE].present = FALSE
           /\ [Unhandled(tab) EXCEPT !.present = FALSE].sess = None
           /\ [Unhandled(tab) EXCEPT !.present = FALSE].conn = None
           /\ [Unhandled(tab) EXCEPT !.present = FALSE].gen = tab.gen
           /\ Invalidated(tab).present = tab.present
           /\ Invalidated(tab).sess = None
           /\ Invalidated(tab).conn = None
           /\ Invalidated(tab).gen = tab.gen + 1
<1>1. PICK u \in TabState : u = Unhandled(tab)
  <2>1. Unhandled(tab) \in TabState
    BY DEF Unhandled, TabState
  <2> QED  BY <2>1
<1>2. u.sess = None /\ u.conn = None
    BY <1>1 DEF Unhandled, TabState
<1>3. u.gen = tab.gen /\ u.gen \in Nat
    BY <1>1 DEF Unhandled, TabState
<1>4. u.present = tab.present
    BY <1>1 DEF Unhandled, TabState
<1>5. /\ [u EXCEPT !.present = FALSE].present = FALSE /\ [u EXCEPT !.present = FALSE].sess = u.sess
      /\ [u EXCEPT !.present = FALSE].conn = u.conn /\ [u EXCEPT !.present = FALSE].gen = u.gen
    BY DEF TabState
<1>6. \A g \in Nat : /\ [u EXCEPT !.gen = g].present = u.present /\ [u EXCEPT !.gen = g].sess = u.sess
                      /\ [u EXCEPT !.gen = g].conn = u.conn /\ [u EXCEPT !.gen = g].gen = g
    BY DEF TabState
<1>7. tab.gen + 1 \in Nat /\ Invalidated(tab) = [u EXCEPT !.gen = tab.gen + 1]
    BY <1>1, <1>3 DEF Invalidated
<1> QED  BY <1>1, <1>2, <1>3, <1>4, <1>5, <1>6, <1>7

LEMMA HandOversKeep ==
    ASSUME IInv, Quit \/ \E t \in Tabs : CloseTab(t) \/ Restart(t)
    PROVE  IInv'
<1>1. tabs \in [Tabs -> TabState]
    BY DEF IInv, Types, TabTypes
<1>2. ASSUME NEW t \in Tabs, CloseTab(t) PROVE IInv'
  <2> DEFINE new == [Unhandled(tabs[t]) EXCEPT !.present = FALSE]
  <2>1. new \in TabState /\ new.sess = None /\ new.conn = None /\ ~new.present /\ new.gen = tabs[t].gen
    BY <1>1, TabFacts, UnhandledFacts
  <2>2. /\ At("read") /\ Present(t) /\ Takes("close", {t}) /\ tabs' = [tabs EXCEPT ![t] = new]
        /\ UNCHANGED <<closing, worker, backend, shown, wake>>
    BY <1>2 DEF CloseTab
  <2> HIDE DEF new
  <2>3. /\ tabs' \in [Tabs -> TabState] /\ tabs'[t] = new
        /\ \A u \in Tabs \ {t} : tabs'[u] = tabs[u]
    BY <1>1, <2>1, <2>2
  <2>4. PICK op : op = "close"
    OBVIOUS
  <2>5. op \notin Tabs /\ op # "quit" /\ closing' = (closing \/ op = "quit") /\ op \in Tabs \cup {"close", "quit"}
    BY <2>2, <2>4, ShellTabsAssumption DEF IInv, Types, RestTypes
  <2>6. \A u \in {t} : /\ Present(u) /\ tabs'[u].sess = None /\ tabs'[u].conn = None
                       /\ ~tabs'[u].present /\ tabs'[u].gen = tabs[u].gen
    BY <2>1, <2>2, <2>3
  <2>7. {t} \in SUBSET Tabs /\ Takes(op, {t})
    BY <2>2, <2>4
  <2> QED  BY <2>2, <2>3, <2>5, <2>6, <2>7, TakesKeeps
<1>3. ASSUME NEW t \in Tabs, Restart(t) PROVE IInv'
  <2> DEFINE new == Invalidated(tabs[t])
  <2>1. new \in TabState /\ new.sess = None /\ new.conn = None /\ new.present = tabs[t].present /\ new.gen = tabs[t].gen + 1
    BY <1>1, TabFacts, UnhandledFacts
  <2>2. /\ At("read") /\ Present(t) /\ Takes(t, {t}) /\ tabs[t].gen + 2 <= MaxGen[t]
        /\ UNCHANGED <<closing, worker, backend, shown, wake>>
    BY <1>3 DEF Restart
  <2>3. tabs' = [tabs EXCEPT ![t] = new]
    BY <1>3 DEF Restart
  <2> HIDE DEF new
  <2>4. /\ tabs' \in [Tabs -> TabState] /\ tabs'[t] = new
        /\ \A u \in Tabs \ {t} : tabs'[u] = tabs[u]
    BY <1>1, <2>1, <2>3
  <2>5. t # "quit" /\ closing' = (closing \/ t = "quit")
    BY <2>2, ShellTabsAssumption DEF IInv, Types, RestTypes
  <2>6. tabs'[t].gen + 1 <= MaxGen[t] /\ tabs'[t].present
    <3>1. tabs[t].gen \in Nat /\ MaxGen[t] \in Nat
      BY <1>1, TabFacts, ShellTabsAssumption
    <3>2. tabs'[t].present
      BY <2>1, <2>2, <2>4 DEF Present
    <3>3. tabs'[t].gen = tabs[t].gen + 1
      BY <2>1, <2>4
    <3> QED  BY <2>2, <3>1, <3>2, <3>3
  <2>7. \A u \in {t} : /\ Present(u) /\ tabs'[u].sess = None /\ tabs'[u].conn = None
                       /\ tabs'[u].present /\ tabs'[u].gen = tabs[u].gen + 1 /\ t \in {u, "quit"}
    BY <2>1, <2>2, <2>4, <2>6
  <2>8. {t} \in SUBSET Tabs /\ t \in Tabs \cup {"close", "quit"} /\ t \in {t}
    OBVIOUS
  <2> QED  BY <2>2, <2>4, <2>5, <2>6, <2>7, <2>8, TakesKeeps
<1>4. CASE Quit
  <2> DEFINE ts == {t \in Tabs : Present(t)}
             new(t) == Invalidated(tabs[t])
  <2>1. \A t \in Tabs : /\ new(t) \in TabState /\ new(t).sess = None /\ new(t).conn = None
                        /\ new(t).present = tabs[t].present /\ new(t).gen = tabs[t].gen + 1
    BY <1>1, TabFacts, UnhandledFacts
  <2> HIDE DEF new
  <2>2. /\ At("read") /\ Takes("quit", ts) /\ tabs' = [t \in Tabs |-> IF t \in ts THEN new(t) ELSE tabs[t]]
        /\ closing' = TRUE /\ UNCHANGED <<worker, backend, shown, wake>>
    BY <1>4 DEF Quit, new
  <2>3. /\ tabs' \in [Tabs -> TabState] /\ "quit" \notin Tabs
        /\ \A t \in ts : tabs'[t] = new(t) /\ Present(t)
        /\ \A t \in Tabs \ ts : tabs'[t] = tabs[t]
    BY <1>1, <2>1, <2>2, ShellTabsAssumption
  <2>4. \A t \in ts : /\ Present(t) /\ tabs'[t].sess = None /\ tabs'[t].conn = None
                      /\ tabs'[t].present /\ tabs'[t].gen = tabs[t].gen + 1
    BY <2>1, <2>3 DEF Present
  <2>5. ts \in SUBSET Tabs /\ closing' = (closing \/ "quit" = "quit")
    BY <2>2
  <2> HIDE DEF ts
  <2>6. ts = {t \in Tabs : Present(t)}
    BY DEF ts
  <2> QED  BY <2>2, <2>3, <2>4, <2>5, <2>6, TakesKeeps
<1> QED  BY <1>2, <1>3, <1>4

LEMMA TypeKeeps == ASSUME IInv, NEW t \in Tabs, Type(t) PROVE IInv'
<1>1. UNCHANGED <<tabs, worker, backend, closing, shown>> /\ UNCHANGED wake /\ ui.pc = "read"
    BY DEF Type, At
<1>2. ui' \in UIState /\ ui'.pc = "write"
  <2>1. Handles(t) \in SUBSET Sessions
    BY DEF Handles, IInv, Types, TabTypes
  <2>2. \A h \in SUBSET Sessions : LET u == [ui EXCEPT !.pc = "write", !.held = h] IN u \in UIState /\ u.pc = "write"
    BY DEF IInv, Types, RestTypes, UIState, UIPCs
  <2>3. ui' = [ui EXCEPT !.pc = "write", !.held = Handles(t)]
    BY DEF Type
  <2> QED  BY <2>1, <2>2, <2>3
<1>3. Types'
    BY <1>1, <1>2, Unmoved, WakeTypes DEF IInv, Types, RestTypes
<1>4. Tabbed' /\ Held' /\ Quits' /\ Waking'
    BY <1>1, <1>2 DEF IInv, Tabbed, Restarting, Held, Present, Quits, Waking, wake, At
<1>5. Running' /\ NoStray' /\ Shown'
    BY <1>1, <1>2 DEF IInv, Running, NoStray, Shown, ShellsEnd, Shows, Alive, Present, At, backend
<1> QED  BY <1>1, <1>3, <1>4, <1>5, Unmoved DEF IInv

LEMMA ShowsFacts ==
    ASSUME IInv, NEW s \in Sessions, Shows(s)
    PROVE  Present(s[1]) /\ ~closing /\ tabs[s[1]].sess = s[2] /\ tabs[s[1]].gen = s[2] /\ s[2] # None
<1>1. s[1] \in Tabs /\ s[2] # None
    BY SessionFacts
<1>2. \A t \in Tabs : tabs[t].sess # None => Present(t) /\ ~closing /\ tabs[t].sess = tabs[t].gen
    BY DEF IInv, Tabbed
<1> QED  BY <1>1, <1>2 DEF Shows

LEMMA ReleaseKeeps == ASSUME IInv, Release PROVE IInv'
<1>1. UNCHANGED <<tabs, worker, shell, closing, shown>> /\ UNCHANGED wake /\ ui.pc = "release"
    BY DEF Release, At
<1>2. ui' \in UIState /\ ui'.pc = "await" /\ ui'.op = ui.op /\ ui'.held = ui.held
    BY UIFacts DEF Release, IInv, Types, RestTypes, UIPCs
<1>3. /\ closed \subseteq closed' /\ closed' \subseteq closed \cup ui.held /\ closed' \subseteq Sessions
      /\ \A s \in ui.held : Alive(s) => s \in closed'
      /\ ended \subseteq ended' /\ ended' \subseteq Sessions
  <2>1. ui.held \subseteq Sessions /\ ui.cancels \subseteq Sessions
    BY UIFacts DEF IInv, Types, RestTypes
  <2> QED  BY <2>1 DEF Release, Living, IInv, Types, SetTypes
<1>4. Types'
    BY <1>1, <1>2, <1>3, WakeTypes DEF IInv, Types, TabTypes, SessionTypes, SetTypes, RestTypes
<1>5. \A s \in Sessions : Shows(s) => s \notin ui.held
  <2> SUFFICES ASSUME NEW s \in Sessions, Shows(s), s \in ui.held PROVE FALSE
    OBVIOUS
  <2>1. Present(s[1]) /\ s[2] = tabs[s[1]].gen
    BY ShowsFacts
  <2> QED  BY <1>1, <2>1 DEF IInv, Held, Left
<1>6. Copied' /\ NoStray'
  <2>1. \A s \in ui.held : worker[s] \notin Unset
    BY <1>1 DEF IInv, Held
  <2> QED  BY <1>1, <1>2, <1>3, <1>5, <2>1 DEF IInv, Copied, NoStray, Shows, Alive, Present, At
<1>7. Tabbed' /\ Held' /\ Quits' /\ Waking'
    BY <1>1, <1>2 DEF IInv, Tabbed, Restarting, Held, Left, Present, Quits, Waking, wake, At
<1>8. Running' /\ Shown'
    BY <1>1, <1>2 DEF IInv, Running, Shown, ShellsEnd, Shows, Alive, Present, At
<1> QED  BY <1>4, <1>6, <1>7, <1>8 DEF IInv

LEMMA AwaitKeeps == ASSUME IInv, Await PROVE IInv'
<1>1. ui.pc = "await" /\ ui.op \in Tabs \cup {"close", "quit"} /\ UNCHANGED <<closing, backend>>
    BY UIFacts DEF Await, At, IInv, Types, RestTypes, Held
<1>2. shown' \subseteq shown /\ \A s \in shown' : Shows(s) /\ s \notin ui.held
    BY DEF Await, AllEnded, IInv, Shown
<1>3. CASE ui.op = "close"
  <2>1. NotifyUI /\ ui' = Idle /\ UNCHANGED <<tabs, worker>> /\ "close" \notin Tabs
    BY <1>3, ShellTabsAssumption DEF Await
  <2>2. ui' \in UIState /\ ui'.pc = "drain"
    BY <2>1, IdleFacts
  <2>3. Types'
    BY <1>1, <1>2, <2>1, <2>2, WakeTypes DEF IInv, Types, TabTypes, SessionTypes, SetTypes, RestTypes, backend
  <2>4. Tabbed' /\ Held' /\ Quits' /\ Waking' /\ Copied'
    BY <1>1, <2>1, <2>2 DEF IInv, Tabbed, Restarting, Held, Present, Quits, Waking, At, Copied, Shows, Alive, backend
  <2>5. Running' /\ NoStray' /\ Shown'
    BY <1>1, <1>2, <1>3, <2>1, <2>2
       DEF IInv, Running, NoStray, Shown, ShellsEnd, Shows, Alive, Present, At, backend
  <2> QED  BY <2>3, <2>4, <2>5 DEF IInv
<1>4. CASE ui.op = "quit"
  <2>1. ui' = [Idle EXCEPT !.pc = "exited"] /\ UNCHANGED <<tabs, worker, wake>>
    BY <1>4 DEF Await
  <2>2. ui' \in UIState /\ ui'.pc = "exited"
    BY <2>1 DEF Idle, UIState, UIPCs
  <2>3. Types'
    BY <1>1, <1>2, <2>1, <2>2, WakeTypes DEF IInv, Types, TabTypes, SessionTypes, SetTypes, RestTypes, backend
  <2>4. closing /\ \A s \in Sessions : ~Shows(s)
    BY <1>1, <1>4, SessionFacts DEF IInv, Quits, Tabbed, Shows, None
  <2>5. Tabbed' /\ Held' /\ Quits' /\ Copied' /\ Running'
    BY <1>1, <2>1, <2>2, <2>4
       DEF IInv, Tabbed, Restarting, Held, Present, Quits, At, Copied, Shows, Alive, Running, backend
  <2>6. NoStray' /\ Waking'
    BY <1>1, <2>1, <2>2 DEF IInv, NoStray, Alive, Present, At, backend, Waking, wake
  <2>7. Shown'
    BY <1>2, <2>4 DEF IInv, Types, SetTypes, Shown, ShellsEnd
  <2> QED  BY <2>3, <2>5, <2>6, <2>7 DEF IInv
<1>5. CASE ui.op \in Tabs
  <2> DEFINE t == ui.op
             new == Started(tabs[t])
  <2>1. t \in Tabs /\ t \notin {"close", "quit"}
    BY <1>5, ShellTabsAssumption
  <2>2. tabs[t] \in TabState /\ Present(t) /\ tabs[t].sess = None /\ tabs[t].gen + 1 <= MaxGen[t]
    BY <1>1, <1>5 DEF IInv, Types, TabTypes, Tabbed, Restarting
  <2>3. tabs[t].gen \in Nat /\ tabs[t].gen + 1 \in Gens
    <3>1. tabs[t].gen \in Nat /\ MaxGen[t] \in Nat
      BY <2>1, <2>2, TabFacts, ShellTabsAssumption
    <3>2. tabs[t].gen + 1 \in 1..MaxGen[t]
      BY <2>2, <3>1
    <3> QED  BY <2>1, <3>1, <3>2, SessionFacts
  <2>4. /\ new \in TabState /\ new.gen = tabs[t].gen + 1 /\ new.conn = tabs[t].gen + 1 /\ new.sess = None
        /\ new.present /\ new.status = "starting"
    BY <2>2, <2>3, StartedFacts DEF Present
  <2>5. /\ tabs' = [tabs EXCEPT ![t] = new]
        /\ worker' = [worker EXCEPT ![<<t, tabs[t].gen + 1>>] = "open"]
        /\ NotifyUI /\ ui' = Idle
    BY <2>1 DEF Await
  <2> HIDE DEF new, t
  <2>6. ui.pc = "await" => ui.op = t
    BY DEF t
  <2> QED  BY <1>1, <1>2, <2>1, <2>2, <2>3, <2>4, <2>5, <2>6, StartKeeps
<1> QED  BY <1>1, <1>3, <1>4, <1>5

-----------------------------------------------------------------------------
(* The goroutines and the shells *)

LEMMA NotifyWakes ==
    ASSUME IInv, Notify \/ UNCHANGED wake, UNCHANGED ui
    PROVE  Waking'
<1>1. CASE Notify /\ ~updates
  <2>1. signals \in Nat /\ signals' = IF signals < MaxSignals THEN signals + 1 ELSE signals
    BY <1>1, ShellTabsAssumption DEF Notify, IInv, Types, RestTypes
  <2>2. signals' # 0
    BY <2>1, ShellTabsAssumption
  <2> QED  BY <2>2 DEF Waking
<1>2. CASE UNCHANGED wake
    BY <1>2 DEF IInv, Waking, wake
<1> QED  BY <1>1, <1>2 DEF Notify

\* A step of session s that changes no more of a tab than a context or a reply
\* writer it gives up, no other session, and of s what the invariant allows.
GivesUp ==
    /\ tabs' \in [Tabs -> TabState]
    /\ \A t \in Tabs : /\ tabs'[t].present = tabs[t].present /\ tabs'[t].gen = tabs[t].gen
                       /\ tabs'[t].sess = tabs[t].sess /\ tabs'[t].status = tabs[t].status
                       /\ tabs'[t].conn \in {None, tabs[t].conn} /\ tabs'[t].reply \in {None, tabs[t].reply}
Alone(s) ==
    /\ worker' \in [Sessions -> Stages] /\ shell' \in [Sessions -> {"none", "setup", "up", "deaf", "gone"}] /\ SetTypes'
    /\ \A u \in Sessions \ {s} : /\ worker'[u] = worker[u] /\ shell'[u] = shell[u]
                                 /\ u \in closed' <=> u \in closed
                                 /\ u \in ended' <=> u \in ended
    /\ shown' \subseteq shown /\ \A u \in shown' : Alive(u)'
Allowed(s) ==
    /\ shell'[s] # "none" => worker'[s] \notin {"none", "open", "failed"}
    /\ Shows(s) => worker'[s] \in {"copy", "finish"} /\ s \notin closed'
    /\ worker'[s] \in {"finish", "bound", "unbound", "done"} /\ Alive(s)' => s \in closed' \cap ended'
    /\ s \in closed' \/ worker[s] \notin Unset => worker'[s] \notin Unset
    /\ Alive(s)' => Shows(s) \/ s \in closed' \cup ended' \/ worker'[s] \in {"opened", "set"} \/ (s \in ui.held /\ At("release"))

LEMMA OwnKeeps ==
    ASSUME IInv, NEW s \in Sessions, UNCHANGED <<closing, ui>>, worker[s] # "none",
           GivesUp, Alone(s), Allowed(s), Notify \/ UNCHANGED wake
    PROVE  IInv'
<1> USE DEF GivesUp, Alone, Allowed
<1>1. \A u \in Sessions : Shows(u)' = Shows(u) /\ Present(u[1])' = Present(u[1])
    BY SessionFacts DEF Shows, Present
<1>2. Types'
  <2>1. TabTypes'
    <3>1. ASSUME NEW t \in Tabs PROVE \A g \in {tabs'[t].sess, tabs'[t].conn} : g = None \/ <<t, g>> \in Sessions
      <4>1. \A g \in {tabs[t].sess, tabs[t].conn} : g = None \/ <<t, g>> \in Sessions
        BY DEF IInv, Types, TabTypes
      <4>2. {tabs'[t].sess, tabs'[t].conn} \subseteq {tabs[t].sess, tabs[t].conn, None}
        OBVIOUS
      <4> QED  BY <4>1, <4>2
    <3> QED  BY <3>1 DEF TabTypes
  <2>2. SessionTypes'
    <3>1. \A u \in Sessions : worker[u] # "none" => u[2] <= tabs'[u[1]].gen
      BY SessionFacts DEF IInv, Types, SessionTypes
    <3>2. \A u \in Sessions : worker'[u] # "none" => worker[u] # "none"
      OBVIOUS
    <3>3. \A u \in Sessions : shell'[u] # "none" => worker'[u] \notin {"none", "open", "failed"}
      BY DEF IInv, Types, SessionTypes
    <3> QED  BY <3>1, <3>2, <3>3 DEF SessionTypes
  <2> QED  BY <2>1, <2>2, WakeTypes DEF IInv, Types, RestTypes
<1>3. Tabbed'
  <2> SUFFICES ASSUME NEW t \in Tabs
               PROVE  /\ Present(t)' => tabs'[t].gen >= 1
                      /\ tabs'[t].sess # None => Present(t)' /\ ~closing' /\ tabs'[t].sess = tabs'[t].gen
                      /\ Restarting(t)' => /\ Present(t)' /\ tabs'[t].sess = None /\ tabs'[t].gen + 1 <= MaxGen[t]
                                           /\ worker'[<<t, tabs'[t].gen>>] = "none"
    BY DEF Tabbed
  <2>1. Present(t)' = Present(t) /\ Restarting(t)' = Restarting(t)
    BY DEF Present, Restarting
  <2>2. /\ Present(t) => tabs[t].gen >= 1
        /\ tabs[t].sess # None => Present(t) /\ ~closing /\ tabs[t].sess = tabs[t].gen
        /\ Restarting(t) => /\ Present(t) /\ tabs[t].sess = None /\ tabs[t].gen + 1 <= MaxGen[t]
                            /\ worker[<<t, tabs[t].gen>>] = "none"
    BY DEF IInv, Tabbed
  <2>3. Restarting(t) => worker'[<<t, tabs[t].gen>>] = "none"
    <3> SUFFICES ASSUME Restarting(t) PROVE worker'[<<t, tabs[t].gen>>] = "none"
      OBVIOUS
    <3>1. tabs[t].gen \in Nat /\ MaxGen[t] \in Nat /\ tabs[t].gen >= 1 /\ tabs[t].gen + 1 <= MaxGen[t]
      BY <2>2, TabFacts, ShellTabsAssumption DEF IInv, Types, TabTypes
    <3>2. tabs[t].gen \in 1..MaxGen[t]
      BY <3>1
    <3>3. <<t, tabs[t].gen>> \in Sessions
      BY <3>2, SessionFacts
    <3> QED  BY <2>2, <3>3
  <2> QED  BY <2>1, <2>2, <2>3
<1>4. Copied'
  <2> SUFFICES ASSUME NEW u \in Sessions
               PROVE  /\ Shows(u) => worker'[u] \in {"copy", "finish"} /\ u \notin closed'
                      /\ worker'[u] \in {"finish", "bound", "unbound", "done"} /\ Alive(u)' => u \in closed' \cap ended'
                      /\ u \in closed' => worker'[u] \notin Unset
    BY <1>1 DEF Copied
  <2>1. CASE u # s
    BY <2>1 DEF IInv, Copied, Alive
  <2> QED  BY <2>1
<1>5. Held'
  <2>1. ASSUME NEW u \in ui.held, ui.pc \in {"release", "await"} PROVE worker'[u] \notin Unset /\ Left(u)'
    <3>1. u \in Sessions /\ worker[u] \notin Unset /\ Left(u)
      BY <2>1, UIFacts DEF IInv, Held, Types, RestTypes
    <3>2. Left(u)'
      BY <3>1, SessionFacts DEF Left, Present
    <3> QED  BY <3>1, <3>2
  <2> QED  BY <2>1 DEF IInv, Held
<1>6. NoStray'
  <2> SUFFICES ASSUME NEW u \in Sessions, Alive(u)' PROVE
        \/ Present(u[1])' /\ tabs'[u[1]].sess = u[2]
        \/ u \in closed' \cup ended'
        \/ worker'[u] \in {"opened", "set"}
        \/ u \in ui'.held /\ At("release")'
    BY DEF NoStray
  <2>1. CASE u # s
    BY <1>1, <2>1 DEF IInv, NoStray, Alive, At, Shows
  <2>2. CASE u = s
    BY <1>1, <2>2, ShowsFacts DEF At, Shows
  <2> QED  BY <2>1, <2>2
<1>7. Running' /\ Quits'
    BY DEF IInv, Running, Present, At, Quits
<1>8. Shown'
    BY <1>1 DEF IInv, Types, SetTypes, Shown, ShellsEnd, At
<1>9. Waking'
    BY NotifyWakes
<1> QED  BY <1>2, <1>3, <1>4, <1>5, <1>6, <1>7, <1>8, <1>9 DEF IInv

\* A tab whose context or reply writer is given up.
LEMMA GivenUp ==
    ASSUME IInv, NEW t \in Tabs,
           tabs' \in {tabs, [tabs EXCEPT ![t].conn = None], [tabs EXCEPT ![t].reply = None]}
    PROVE  GivesUp
<1>1. tabs \in [Tabs -> TabState]
    BY DEF IInv, Types, TabTypes
<1>2. PICK new \in {tabs[t], [tabs[t] EXCEPT !.conn = None], [tabs[t] EXCEPT !.reply = None]} :
          tabs' = [tabs EXCEPT ![t] = new]
  <2>1. tabs = [tabs EXCEPT ![t] = tabs[t]]
    BY <1>1
  <2>2. /\ [tabs EXCEPT ![t].conn = None] = [tabs EXCEPT ![t] = [tabs[t] EXCEPT !.conn = None]]
        /\ [tabs EXCEPT ![t].reply = None] = [tabs EXCEPT ![t] = [tabs[t] EXCEPT !.reply = None]]
    OBVIOUS
  <2> QED  BY <2>1, <2>2
<1>3. PICK tab \in TabState : tab = tabs[t]
    BY <1>1
<1>4. /\ new \in TabState
      /\ new.present = tab.present /\ new.gen = tab.gen /\ new.sess = tab.sess /\ new.status = tab.status
      /\ new.conn \in {None, tab.conn} /\ new.reply \in {None, tab.reply}
  <2>1. CASE new = tab
    BY <2>1
  <2>2. CASE new = [tab EXCEPT !.conn = None]
    BY <2>2 DEF TabState
  <2>3. CASE new = [tab EXCEPT !.reply = None]
    BY <2>3 DEF TabState
  <2> QED  BY <1>2, <1>3, <2>1, <2>2, <2>3
<1>5. tabs' \in [Tabs -> TabState] /\ tabs'[t] = new /\ \A u \in Tabs \ {t} : tabs'[u] = tabs[u]
    BY <1>1, <1>2, <1>4
<1> QED  BY <1>3, <1>4, <1>5 DEF GivesUp

\* The goroutine of s goes on to its next stage.
LEMMA OnFacts ==
    ASSUME IInv, NEW s \in Sessions, NEW stage \in Stages, On(s, stage)
    PROVE  /\ worker' \in [Sessions -> Stages] /\ worker'[s] = stage
           /\ \A u \in Sessions \ {s} : worker'[u] = worker[u]
BY DEF On, IInv, Types, SessionTypes

LEMMA Unwritten ==
    ASSUME IInv
    PROVE  /\ \A s \in Sessions : worker[s] \in {"none", "open", "failed"} => ~Alive(s)
           /\ \A s \in shown : Alive(s)
           /\ \A s \in Sessions : worker[s] \notin {"copy", "finish"} => ~Shows(s)
           /\ \A s \in Sessions : worker[s] \in Unset => s \notin closed
           /\ \A s \in Sessions : worker[s] \in Unset => ~(s \in ui.held /\ At("release"))
BY DEF IInv, Types, SessionTypes, Alive, Shown, Copied, Held, Unset, At

LEMMA OpenedKeeps == ASSUME IInv, NEW s \in Sessions, Opened(s) PROVE IInv'
<1>1. /\ worker[s] = "open" /\ On(s, "opened") /\ shell' = [shell EXCEPT ![s] = "setup"]
      /\ UNCHANGED <<closing, ui>> /\ UNCHANGED wake /\ UNCHANGED <<tabs, closed, ended, shown>>
    BY DEF Opened, In
<1>2. /\ worker' \in [Sessions -> Stages] /\ worker'[s] = "opened"
      /\ \A u \in Sessions \ {s} : worker'[u] = worker[u]
    BY <1>1, OnFacts DEF Stages
<1>3. /\ shell' \in [Sessions -> {"none", "setup", "up", "deaf", "gone"}] /\ shell'[s] = "setup"
      /\ \A u \in Sessions \ {s} : shell'[u] = shell[u]
    BY <1>1 DEF IInv, Types, SessionTypes
<1>4. GivesUp
    BY <1>1, SessionFacts, GivenUp
<1>5. SetTypes' /\ \A u \in shown' : Alive(u)'
  <2>1. shown' \subseteq Sessions /\ SetTypes' /\ \A u \in shown' : Alive(u)
    BY <1>1, Unwritten DEF IInv, Types, SetTypes
  <2> QED  BY <1>3, <2>1 DEF Alive
<1>6. Alone(s)
    BY <1>1, <1>2, <1>3, <1>5 DEF Alone
<1>7. Allowed(s)
  <2>1. s \notin closed /\ ~Shows(s) /\ worker[s] \in Unset
    BY <1>1, Unwritten DEF Unset
  <2>2. worker'[s] \in Unset \ {"none", "open", "failed"} /\ closed' = closed
    BY <1>1, <1>2 DEF Unset
  <2> QED  BY <1>2, <2>1, <2>2 DEF Allowed, Unset
<1> QED  BY <1>1, <1>4, <1>6, <1>7, OwnKeeps

LEMMA OpenFailsKeeps == ASSUME IInv, NEW s \in Sessions, OpenFails(s) PROVE IInv'
<1>1. /\ worker[s] = "open" /\ On(s, "failed") /\ ended' = ended \ {s}
      /\ UNCHANGED <<closing, ui>> /\ UNCHANGED wake /\ UNCHANGED <<tabs, shell, closed, shown>>
    BY DEF OpenFails, In
<1>2. /\ worker' \in [Sessions -> Stages] /\ worker'[s] = "failed"
      /\ \A u \in Sessions \ {s} : worker'[u] = worker[u]
    BY <1>1, OnFacts DEF Stages
<1>3. GivesUp
    BY <1>1, SessionFacts, GivenUp
<1>4. SetTypes' /\ shell' = shell /\ (\A u \in shown' : Alive(u)') /\ Alive(s)' = Alive(s) /\ shell[s] = "none"
    BY <1>1, Unwritten DEF IInv, Types, SetTypes, SessionTypes, Alive
<1>5. Alone(s)
    BY <1>1, <1>2, <1>4 DEF Alone, IInv, Types, SessionTypes
<1>6. Allowed(s)
    BY <1>1, <1>2, <1>4, Unwritten DEF Allowed, Unset
<1> QED  BY <1>1, <1>3, <1>5, <1>6, OwnKeeps

LEMMA ClearCancelKeeps == ASSUME IInv, NEW s \in Sessions, ClearCancel(s) PROVE IInv'
<1>1. /\ UNCHANGED <<closing, ui>> /\ UNCHANGED wake /\ UNCHANGED <<shell, closed, ended, shown>>
      /\ \/ worker[s] = "opened" /\ On(s, "set")
         \/ worker[s] = "failed" /\ On(s, "finish")
    BY DEF ClearCancel, In, backend
<1>2. GivesUp
  <2>1. [tabs EXCEPT ![s[1]].conn = tabs[s[1]].conn] = tabs
    BY DEF IInv, Types, TabTypes, TabState
  <2>2. tabs' \in {tabs, [tabs EXCEPT ![s[1]].conn = None]}
    BY <2>1 DEF ClearCancel
  <2> QED  BY <2>2, SessionFacts, GivenUp
<1>3. /\ worker' \in [Sessions -> Stages] /\ \A u \in Sessions \ {s} : worker'[u] = worker[u]
      /\ worker'[s] = IF worker[s] = "opened" THEN "set" ELSE "finish"
    BY <1>1, OnFacts DEF Stages
<1>4. SetTypes' /\ (\A u \in shown' : Alive(u)') /\ Alive(s)' = Alive(s) /\ shell' = shell
    BY <1>1, Unwritten DEF IInv, Types, SetTypes, Alive
<1>5. Alone(s)
    BY <1>1, <1>3, <1>4 DEF Alone, IInv, Types, SessionTypes
<1>6. Allowed(s)
  <2>1. (shell[s] # "none" => worker[s] = "opened") /\ (worker[s] = "failed" => ~Alive(s))
    BY <1>1, Unwritten DEF IInv, Types, SessionTypes
  <2>2. s \notin closed /\ ~Shows(s) /\ worker[s] \in Unset
    BY <1>1, Unwritten DEF Unset
  <2>3. CASE worker[s] = "opened"
    BY <1>1, <1>3, <1>4, <2>2, <2>3 DEF Allowed, Unset
  <2>4. CASE worker[s] = "failed"
    BY <1>1, <1>3, <1>4, <2>1, <2>2, <2>4 DEF Allowed, Unset
  <2> QED  BY <1>1, <2>3, <2>4
<1> QED  BY <1>1, <1>2, <1>5, <1>6, OwnKeeps

LEMMA RefusedKeeps ==
    ASSUME IInv, NEW s \in Sessions, worker[s] = "set", On(s, "copy"), Refused(s), Notify,
           UNCHANGED <<closing, shell, ended, ui>>, UNCHANGED <<tabs, shown>>
    PROVE  IInv'
<1>1. /\ worker' \in [Sessions -> Stages] /\ worker'[s] = "copy"
      /\ \A u \in Sessions \ {s} : worker'[u] = worker[u]
    BY OnFacts DEF Stages
<1>2. GivesUp
    BY SessionFacts, GivenUp
<1>3. SetTypes' /\ (\A u \in shown' : Alive(u)') /\ Alive(s)' = Alive(s)
    BY Unwritten DEF IInv, Types, SetTypes, Alive, Refused, Living
<1>4. (\A u \in Sessions \ {s} : u \in closed' <=> u \in closed) /\ (Alive(s) => s \in closed')
    BY DEF Refused, Living
<1>5. Alone(s)
    BY <1>1, <1>3, <1>4 DEF Alone, IInv, Types, SessionTypes
<1>6. Allowed(s)
  <2>1. ~Shows(s)
    BY Unwritten
  <2> QED  BY <1>1, <1>3, <1>4, <2>1 DEF Allowed, Unset
<1> QED  BY <1>2, <1>5, <1>6, OwnKeeps

LEMMA SetKeeps ==
    ASSUME IInv, NEW s \in Sessions, worker[s] = "set", On(s, "copy"), Notify, ~closing, Latest(s),
           tabs' = [tabs EXCEPT ![s[1]].sess = s[2], ![s[1]].status = "running", ![s[1]].reply = s[2]],
           shown' = shown \cup Living({s}), UNCHANGED closed, UNCHANGED <<closing, shell, ended, ui>>
    PROVE  IInv'
<1> DEFINE t == s[1]
           new == [tabs[t] EXCEPT !.sess = s[2], !.status = "running", !.reply = s[2]]
<1>1. t \in Tabs /\ s[2] \in Gens /\ s[2] # None /\ s = <<t, s[2]>> /\ tabs[t] \in TabState
    BY SessionFacts DEF IInv, Types, TabTypes
<1>2. /\ new \in TabState /\ new.present = tabs[t].present /\ new.gen = tabs[t].gen /\ new.conn = tabs[t].conn
      /\ new.sess = s[2] /\ new.status = "running" /\ new.reply = s[2]
  <2>1. \A u \in TabState, g \in Gens :
            LET v == [u EXCEPT !.sess = g, !.status = "running", !.reply = g]
            IN  /\ v \in TabState /\ v.present = u.present /\ v.gen = u.gen /\ v.conn = u.conn
                /\ v.sess = g /\ v.status = "running" /\ v.reply = g
    BY DEF TabState
  <2> QED  BY <1>1, <2>1
<1>3. tabs' = [tabs EXCEPT ![t] = new]
    OBVIOUS
<1> HIDE DEF new
<1>4. /\ tabs' \in [Tabs -> TabState] /\ tabs'[t] = new /\ \A u \in Tabs \ {t} : tabs'[u] = tabs[u]
  <2>1. tabs \in [Tabs -> TabState]
    BY DEF IInv, Types, TabTypes
  <2>2. t \in Tabs /\ new \in TabState
    BY <1>1, <1>2
  <2> HIDE DEF t
  <2> QED  BY <1>3, <2>1, <2>2
<1>5. Present(t) /\ tabs[t].gen = s[2]
    BY DEF Latest
<1> HIDE DEF t
<1>6. /\ worker' \in [Sessions -> Stages] /\ worker'[s] = "copy"
      /\ \A u \in Sessions \ {s} : worker'[u] = worker[u]
    BY OnFacts DEF Stages
<1>7. /\ ~Shows(s) /\ s \notin closed /\ tabs[t].sess = None
      /\ \A u \in Sessions : u # s => ~Shows(u) \/ u[1] # t
  <2>1. ~Shows(s) /\ s \notin closed
    BY Unwritten DEF Unset
  <2>2. tabs[t].sess # None => tabs[t].sess = s[2]
    BY <1>1, <1>5 DEF IInv, Tabbed
  <2>3. tabs[t].sess = None
    BY <2>1, <2>2 DEF Shows, t
  <2> QED  BY <1>1, <2>1, <2>3, SessionFacts DEF Shows
<1>8. /\ Shows(s)' /\ \A u \in Sessions \ {s} : Shows(u)' = Shows(u)
      /\ \A u \in Tabs : Present(u)' = Present(u)
      /\ \A u \in Tabs : tabs'[u].gen = tabs[u].gen
  <2>1. \A u \in Tabs : Present(u)' = Present(u) /\ tabs'[u].gen = tabs[u].gen
    BY <1>2, <1>4 DEF Present
  <2>2. Shows(s)'
    BY <1>2, <1>4 DEF Shows, t
  <2>3. ASSUME NEW u \in Sessions \ {s} PROVE Shows(u)' = Shows(u)
    <3>1. CASE u[1] = t
      <4>1. u[2] # s[2]
        BY <1>1, <3>1, SessionFacts
      <4> QED  BY <1>2, <1>4, <1>7, <3>1, <4>1 DEF Shows
    <3>2. CASE u[1] # t
      BY <1>4, <3>2, SessionFacts DEF Shows
    <3> QED  BY <3>1, <3>2
  <2> QED  BY <2>1, <2>2, <2>3
<1>9. ~Restarting(t)
  <2>1. Restarting(t) => worker[<<t, tabs[t].gen>>] = "none"
    BY <1>1 DEF IInv, Tabbed
  <2> QED  BY <1>1, <1>5, <2>1
<1>10. Types'
  <2>1. TabTypes'
    <3>1. ASSUME NEW u \in Tabs PROVE \A g \in {tabs'[u].sess, tabs'[u].conn} : g = None \/ <<u, g>> \in Sessions
      <4>1. \A g \in {tabs[u].sess, tabs[u].conn} : g = None \/ <<u, g>> \in Sessions
        BY DEF IInv, Types, TabTypes
      <4>2. CASE u = t
        BY <1>1, <1>2, <1>4, <4>1, <4>2
      <4>3. CASE u # t
        BY <1>4, <4>1, <4>3
      <4> QED  BY <4>2, <4>3
    <3> QED  BY <1>4, <3>1 DEF TabTypes
  <2>2. SessionTypes'
    BY <1>6, <1>8, SessionFacts DEF IInv, Types, SessionTypes
  <2>3. SetTypes'
    BY DEF IInv, Types, SetTypes, Living
  <2> QED  BY <2>1, <2>2, <2>3, WakeTypes DEF IInv, Types, RestTypes
<1>11. Tabbed'
  <2>1. ASSUME NEW u \in Tabs \ {t}
        PROVE  /\ Present(u)' => tabs'[u].gen >= 1
               /\ tabs'[u].sess # None => Present(u)' /\ ~closing' /\ tabs'[u].sess = tabs'[u].gen
               /\ Restarting(u)' => /\ Present(u)' /\ tabs'[u].sess = None /\ tabs'[u].gen + 1 <= MaxGen[u]
                                    /\ worker'[<<u, tabs'[u].gen>>] = "none"
    <3>1. Present(u)' = Present(u) /\ Restarting(u)' = Restarting(u) /\ tabs'[u] = tabs[u]
      BY <1>4, <1>8 DEF Restarting
    <3>2. worker'[<<u, tabs[u].gen>>] = worker[<<u, tabs[u].gen>>]
      BY <1>1 DEF On, IInv, Types, SessionTypes
    <3> QED  BY <3>1, <3>2 DEF IInv, Tabbed
  <2>2. /\ Present(t)' /\ tabs'[t].gen >= 1 /\ ~closing' /\ tabs'[t].sess = tabs'[t].gen
        /\ ~Restarting(t)'
    <3>1. tabs[t].gen >= 1
      BY <1>1, <1>5 DEF IInv, Tabbed
    <3>2. tabs'[t].gen = s[2] /\ tabs'[t].sess = s[2]
      BY <1>2, <1>4, <1>5
    <3>3. Present(t)'
      BY <1>1, <1>5, <1>8
    <3>4. ~Restarting(t)'
      BY <1>9 DEF Restarting
    <3> QED  BY <1>5, <3>1, <3>2, <3>3, <3>4
  <2> QED  BY <2>1, <2>2 DEF Tabbed
<1>12. Copied' /\ Held'
  <2>1. Copied'
    BY <1>6, <1>7, <1>8 DEF IInv, Copied, Alive, Unset
  <2>2. ASSUME NEW u \in ui.held, ui.pc \in {"release", "await"} PROVE worker'[u] \notin Unset /\ Left(u)'
    <3>1. u \in Sessions /\ worker[u] \notin Unset /\ Left(u)
      BY <2>2, UIFacts DEF IInv, Held, Types, RestTypes
    <3>2. Left(u)'
      BY <1>8, <3>1, SessionFacts DEF Left
    <3> QED  BY <1>6, <3>1, <3>2 DEF Unset
  <2> QED  BY <2>1, <2>2 DEF IInv, Held
<1>13. NoStray'
  <2> SUFFICES ASSUME NEW u \in Sessions, Alive(u)' PROVE
        \/ Present(u[1])' /\ tabs'[u[1]].sess = u[2]
        \/ u \in closed' \cup ended'
        \/ worker'[u] \in {"opened", "set"}
        \/ u \in ui'.held /\ At("release")'
    BY DEF NoStray
  <2>1. CASE u = s
    BY <1>1, <1>5, <1>8, <2>1 DEF Shows, t
  <2>2. CASE u # s
    BY <1>6, <1>8, <2>2, SessionFacts DEF IInv, NoStray, Alive, At, Shows
  <2> QED  BY <2>1, <2>2
<1>14. Running'
  <2>1. ASSUME NEW u \in Tabs \ {t} PROVE tabs'[u] = tabs[u] /\ Present(u)' = Present(u)
    BY <1>4, <1>8
  <2>2. tabs'[t].sess = tabs'[t].gen /\ tabs'[t].reply = tabs'[t].sess
    BY <1>2, <1>4, <1>5
  <2>3. Running
    BY DEF IInv
  <2> QED  BY <2>1, <2>2, <2>3 DEF Running, At, Present
<1>15. Quits' /\ Shown'
  <2>1. Quits' /\ ~At("exited")
    BY DEF IInv, Quits, At
  <2>2. ASSUME NEW u \in shown' PROVE Alive(u)' /\ (Shows(u)' \/ (ui.pc \in {"release", "await"} /\ u \in ui.held))
    <3>1. Alive(u)' = Alive(u)
      BY DEF Alive
    <3>2. CASE u \in shown
      BY <1>8, <3>1, <3>2 DEF IInv, Types, SetTypes, Shown
    <3>3. CASE u \in Living({s})
      BY <1>8, <3>1, <3>3 DEF Living
    <3> QED  BY <3>2, <3>3
  <2> QED  BY <2>1, <2>2 DEF Shown, ShellsEnd, At
<1>16. Waking'
    BY NotifyWakes
<1> QED  BY <1>10, <1>11, <1>12, <1>13, <1>14, <1>15, <1>16 DEF IInv

LEMMA OutputKeeps == ASSUME IInv, NEW s \in Sessions, Output(s) PROVE IInv'
<1>1. /\ UNCHANGED <<tabs, worker, backend, closing, shown>> /\ UNCHANGED ui /\ Notify /\ worker[s] = "copy"
    BY DEF Output, In
<1>2. Types'
    BY <1>1, WakeTypes, Unmoved DEF IInv, Types, RestTypes
<1>3. Tabbed' /\ Held' /\ Quits' /\ Waking'
    BY <1>1, NotifyWakes DEF IInv, Tabbed, Restarting, Held, Left, Present, Quits, At
<1>4. Running' /\ NoStray' /\ Shown'
    BY <1>1 DEF IInv, Running, NoStray, Shown, ShellsEnd, Shows, Alive, Present, At, backend
<1> QED  BY <1>1, <1>2, <1>3, <1>4, Unmoved DEF IInv

LEMMA WaitEndsKeeps == ASSUME IInv, NEW s \in Sessions, WaitEnds(s) PROVE IInv'
<1>1. /\ worker[s] = "copy" /\ On(s, "finish") /\ (~Alive(s) \/ s \in closed \cap ended)
      /\ UNCHANGED <<closing, ui>> /\ UNCHANGED wake /\ UNCHANGED <<tabs, shell, closed, ended, shown>>
    BY DEF WaitEnds, In, backend
<1>2. /\ worker' \in [Sessions -> Stages] /\ worker'[s] = "finish"
      /\ \A u \in Sessions \ {s} : worker'[u] = worker[u]
    BY <1>1, OnFacts DEF Stages
<1>3. GivesUp
    BY <1>1, SessionFacts, GivenUp
<1>4. SetTypes' /\ (\A u \in shown' : Alive(u)') /\ Alive(s)' = Alive(s)
    BY <1>1, Unwritten DEF IInv, Types, SetTypes, Alive
<1>5. Alone(s)
    BY <1>1, <1>2, <1>4 DEF Alone, IInv, Types, SessionTypes
<1>6. Allowed(s)
  <2>1. Shows(s) => s \notin closed
    BY DEF IInv, Copied
  <2>2. Alive(s)' => s \in closed' \cap ended'
    BY <1>1, <1>4
  <2> QED  BY <1>1, <1>2, <2>1, <2>2 DEF Allowed, Unset
<1> QED  BY <1>1, <1>3, <1>5, <1>6, OwnKeeps

LEMMA FinishBufferKeeps == ASSUME IInv, NEW s \in Sessions, FinishBuffer(s) PROVE IInv'
<1>1. /\ worker[s] \in {"bound", "unbound"} /\ On(s, "done") /\ Notify
      /\ UNCHANGED <<closing, ui>> /\ UNCHANGED <<shell, ended, shown>>
      /\ closed' \in {closed, closed \cup Living({s})}
      /\ tabs' = [tabs EXCEPT ![s[1]].reply = None]
    BY DEF FinishBuffer, In
<1>2. /\ worker' \in [Sessions -> Stages] /\ worker'[s] = "done"
      /\ \A u \in Sessions \ {s} : worker'[u] = worker[u]
    BY <1>1, OnFacts DEF Stages
<1>3. GivesUp
    BY <1>1, SessionFacts, GivenUp
<1>4. /\ SetTypes' /\ (\A u \in shown' : Alive(u)') /\ Alive(s)' = Alive(s)
      /\ \A u \in Sessions \ {s} : u \in closed' <=> u \in closed
      /\ closed \subseteq closed'
    BY <1>1, Unwritten DEF IInv, Types, SetTypes, Alive, Living
<1>5. Alone(s)
    BY <1>1, <1>2, <1>4 DEF Alone, IInv, Types, SessionTypes
<1>6. Allowed(s)
  <2>1. ~Shows(s) /\ (Alive(s) => s \in closed \cap ended)
    BY <1>1, Unwritten DEF IInv, Copied
  <2>2. Alive(s)' => s \in closed' \cap ended'
    BY <1>1, <1>4, <2>1
  <2> QED  BY <1>1, <1>2, <2>1, <2>2 DEF Allowed, Unset
<1> QED  BY <1>1, <1>3, <1>5, <1>6, OwnKeeps

LEMMA ShellLivesKeeps == ASSUME IInv, NEW s \in Sessions, ShellUp(s) \/ ShellTurns(s) PROVE IInv'
<1>0. PICK now \in {"up", "deaf"} : shell' = [shell EXCEPT ![s] = now]
    BY DEF ShellUp, ShellTurns
<1>1. /\ shell[s] \in {"setup", "up", "deaf"} /\ shell' = [shell EXCEPT ![s] = now]
      /\ UNCHANGED <<closing, ui>> /\ UNCHANGED wake /\ UNCHANGED <<tabs, worker, closed, ended, shown>>
    BY <1>0 DEF ShellUp, ShellTurns
<1>2. /\ shell' \in [Sessions -> {"none", "setup", "up", "deaf", "gone"}] /\ shell'[s] = now
      /\ \A u \in Sessions \ {s} : shell'[u] = shell[u]
    BY <1>1 DEF IInv, Types, SessionTypes
<1>3. GivesUp
    BY <1>1, SessionFacts, GivenUp
<1>4. \A u \in Sessions : Alive(u)' = Alive(u)
    BY <1>1, <1>2 DEF Alive
<1>5. SetTypes' /\ (\A u \in shown' : Alive(u)')
    BY <1>1, <1>4, Unwritten DEF IInv, Types, SetTypes
<1>6. worker' = worker /\ worker \in [Sessions -> Stages] /\ worker[s] \notin {"none", "open", "failed"}
    BY <1>1 DEF IInv, Types, SessionTypes
<1>7. Alone(s)
    BY <1>1, <1>2, <1>5, <1>6 DEF Alone
<1>8. Allowed(s)
  <2>1. /\ Shows(s) => worker[s] \in {"copy", "finish"} /\ s \notin closed
        /\ worker[s] \in {"finish", "bound", "unbound", "done"} /\ Alive(s) => s \in closed \cap ended
        /\ s \in closed => worker[s] \notin Unset
    BY DEF IInv, Copied
  <2>2. Alive(s) => Shows(s) \/ s \in closed \cup ended \/ worker[s] \in {"opened", "set"} \/ (s \in ui.held /\ At("release"))
    BY DEF IInv, NoStray, Shows
  <2> QED  BY <1>1, <1>4, <1>6, <2>1, <2>2 DEF Allowed
<1> QED  BY <1>1, <1>3, <1>6, <1>7, <1>8, OwnKeeps

LEMMA ShellEndsKeeps == ASSUME IInv, NEW s \in Sessions, ShellEnds(s) PROVE IInv'
<1>1. /\ Alive(s) /\ shell' = [shell EXCEPT ![s] = "gone"]
      /\ closed' = closed \ {s} /\ ended' = ended \ {s} /\ shown' = shown \ {s}
      /\ UNCHANGED <<closing, ui>> /\ UNCHANGED wake /\ UNCHANGED <<tabs, worker>>
    BY DEF ShellEnds
<1>2. /\ shell' \in [Sessions -> {"none", "setup", "up", "deaf", "gone"}] /\ shell'[s] = "gone"
      /\ \A u \in Sessions \ {s} : shell'[u] = shell[u]
    BY <1>1 DEF IInv, Types, SessionTypes
<1>3. GivesUp
    BY <1>1, SessionFacts, GivenUp
<1>4. ~Alive(s)' /\ \A u \in Sessions \ {s} : Alive(u)' = Alive(u)
    BY <1>2 DEF Alive
<1>5. SetTypes' /\ (\A u \in shown' : Alive(u)')
    BY <1>1, <1>4, Unwritten DEF IInv, Types, SetTypes
<1>6. worker' = worker /\ worker \in [Sessions -> Stages] /\ worker[s] \notin {"none", "open", "failed"}
    BY <1>1 DEF Alive, IInv, Types, SessionTypes
<1>7. Alone(s)
    BY <1>1, <1>2, <1>5, <1>6 DEF Alone
<1>8. Allowed(s)
  <2>1. Shows(s) => worker[s] \in {"copy", "finish"}
    BY DEF IInv, Copied
  <2> QED  BY <1>1, <1>4, <1>6, <2>1 DEF Allowed
<1> QED  BY <1>1, <1>3, <1>6, <1>7, <1>8, OwnKeeps

LEMMA FinishKeeps == ASSUME IInv, NEW s \in Sessions, Finish(s) PROVE IInv'
<1>1. worker[s] = "finish" /\ UNCHANGED <<closing, ui>> /\ UNCHANGED wake /\ UNCHANGED <<shell, closed, ended, shown>>
    BY DEF Finish, In, backend
<1>2. Alive(s) => s \in closed \cap ended
    BY <1>1 DEF IInv, Copied
<1>3. \A u \in Sessions : Alive(u)' = Alive(u)
    BY <1>1 DEF Alive
<1>4. CASE ~Latest(s)
  <2>1. UNCHANGED tabs /\ On(s, "done")
    BY <1>4 DEF Finish
  <2>2. /\ worker' \in [Sessions -> Stages] /\ worker'[s] = "done"
        /\ \A u \in Sessions \ {s} : worker'[u] = worker[u]
    BY <2>1, OnFacts DEF Stages
  <2>3. GivesUp
    BY <2>1, SessionFacts, GivenUp
  <2>4. SetTypes' /\ \A u \in shown' : Alive(u)'
    BY <1>1, <1>3, Unwritten DEF IInv, Types, SetTypes
  <2>5. Alone(s)
    BY <1>1, <2>2, <2>4 DEF Alone, IInv, Types, SessionTypes
  <2>6. Allowed(s)
    <3>1. ~Shows(s)
      BY <1>4, ShowsFacts DEF Latest
    <3> QED  BY <1>1, <1>2, <1>3, <2>2, <3>1 DEF Allowed, Unset
  <2> QED  BY <1>1, <2>3, <2>5, <2>6, OwnKeeps
<1>5. CASE Latest(s)
  <2> DEFINE t == s[1]
             new == [tabs[t] EXCEPT !.sess = None, !.status = "exited"]
  <2>1. t \in Tabs /\ s[2] # None /\ s = <<t, s[2]>> /\ tabs[t] \in TabState
    BY SessionFacts DEF IInv, Types, TabTypes
  <2>2. /\ new \in TabState /\ new.present = tabs[t].present /\ new.gen = tabs[t].gen /\ new.conn = tabs[t].conn
        /\ new.sess = None /\ new.status = "exited"
    <3>1. \A u \in TabState :
              LET v == [u EXCEPT !.sess = None, !.status = "exited"]
              IN  /\ v \in TabState /\ v.present = u.present /\ v.gen = u.gen /\ v.conn = u.conn
                  /\ v.sess = None /\ v.status = "exited"
      BY DEF TabState
    <3> QED  BY <2>1, <3>1
  <2>3. PICK stage \in {"bound", "unbound"} : On(s, stage)
    BY <1>5 DEF Finish
  <2>4. tabs' = [tabs EXCEPT ![t] = new]
    BY <1>5 DEF Finish
  <2> HIDE DEF new
  <2>5. /\ tabs' \in [Tabs -> TabState] /\ tabs'[t] = new /\ \A u \in Tabs \ {t} : tabs'[u] = tabs[u]
    BY <2>1, <2>2, <2>4 DEF IInv, Types, TabTypes
  <2>6. Present(t) /\ tabs[t].gen = s[2]
    BY <1>5 DEF Latest
  <2>7. /\ worker' \in [Sessions -> Stages] /\ worker'[s] \in {"bound", "unbound"}
        /\ \A u \in Sessions \ {s} : worker'[u] = worker[u]
    BY <2>3, OnFacts DEF Stages
  <2>8. \A u \in Sessions : u # s => ~Shows(u) \/ u[1] # t
    <3>1. tabs[t].sess \in {None, s[2]}
      BY <2>1, <2>6 DEF IInv, Tabbed
    <3> QED  BY <2>1, <3>1, SessionFacts DEF Shows
  <2> HIDE DEF t
  <2>9. /\ ~Shows(s)' /\ \A u \in Sessions \ {s} : Shows(u)' = Shows(u)
        /\ \A u \in Tabs : Present(u)' = Present(u)
        /\ \A u \in Tabs : tabs'[u].gen = tabs[u].gen
    <3>1. \A u \in Tabs : Present(u)' = Present(u) /\ tabs'[u].gen = tabs[u].gen
      BY <2>2, <2>5 DEF Present
    <3>2. ~Shows(s)'
      BY <2>1, <2>2, <2>5 DEF Shows, t
    <3>3. ASSUME NEW u \in Sessions \ {s} PROVE Shows(u)' = Shows(u)
      <4>1. CASE u[1] = t
        BY <2>2, <2>5, <2>8, <4>1, SessionFacts DEF Shows
      <4>2. CASE u[1] # t
        BY <2>5, <4>2, SessionFacts DEF Shows
      <4> QED  BY <4>1, <4>2
    <3> QED  BY <3>1, <3>2, <3>3
  <2>10. s \notin shown
    <3> SUFFICES ASSUME s \in shown PROVE FALSE
      OBVIOUS
    <3>1. Alive(s) /\ (Shows(s) \/ (ui.pc \in {"release", "await"} /\ s \in ui.held))
      BY DEF IInv, Shown
    <3>2. ~Shows(s)
      BY <1>2, <3>1 DEF IInv, Copied
    <3>3. Left(s)
      BY <3>1, <3>2 DEF IInv, Held
    <3> QED  BY <1>5, <3>3 DEF Left, Latest
  <2>11. Types'
    <3>1. TabTypes'
      <4>1. ASSUME NEW u \in Tabs PROVE \A g \in {tabs'[u].sess, tabs'[u].conn} : g = None \/ <<u, g>> \in Sessions
        <5>1. \A g \in {tabs[u].sess, tabs[u].conn} : g = None \/ <<u, g>> \in Sessions
          BY DEF IInv, Types, TabTypes
        <5>2. CASE u = t
          BY <2>2, <2>5, <5>1, <5>2
        <5>3. CASE u # t
          BY <2>5, <5>1, <5>3
        <5> QED  BY <5>2, <5>3
      <4> QED  BY <2>5, <4>1 DEF TabTypes
    <3>2. SessionTypes'
      BY <1>1, <2>7, <2>9, SessionFacts DEF IInv, Types, SessionTypes
    <3>3. SetTypes'
      BY <1>1 DEF IInv, Types, SetTypes
    <3> QED  BY <1>1, <3>1, <3>2, <3>3, WakeTypes DEF IInv, Types, RestTypes
  <2>12. Tabbed'
    <3>1. ASSUME NEW u \in Tabs
          PROVE  /\ Present(u)' => tabs'[u].gen >= 1
                 /\ tabs'[u].sess # None => Present(u)' /\ ~closing' /\ tabs'[u].sess = tabs'[u].gen
                 /\ Restarting(u)' => /\ Present(u)' /\ tabs'[u].sess = None /\ tabs'[u].gen + 1 <= MaxGen[u]
                                      /\ worker'[<<u, tabs'[u].gen>>] = "none"
      <4>1. Present(u)' = Present(u) /\ Restarting(u)' = Restarting(u) /\ tabs'[u].gen = tabs[u].gen /\ closing' = closing
        BY <1>1, <2>9 DEF Restarting
      <4>2. tabs'[u].sess \in {None, tabs[u].sess}
        BY <2>2, <2>5
      <4>3. worker[<<u, tabs[u].gen>>] = "none" => worker'[<<u, tabs[u].gen>>] = "none"
        <5>1. worker[<<u, tabs[u].gen>>] = "none" => <<u, tabs[u].gen>> # s
          BY <1>1
        <5>2. worker' = [worker EXCEPT ![s] = stage]
          BY <2>3 DEF On
        <5> QED  BY <5>1, <5>2 DEF IInv, Types, SessionTypes
      <4>4. /\ Present(u) => tabs[u].gen >= 1
            /\ tabs[u].sess # None => Present(u) /\ ~closing /\ tabs[u].sess = tabs[u].gen
            /\ Restarting(u) => /\ Present(u) /\ tabs[u].sess = None /\ tabs[u].gen + 1 <= MaxGen[u]
                                /\ worker[<<u, tabs[u].gen>>] = "none"
        BY DEF IInv, Tabbed
      <4> QED  BY <4>1, <4>2, <4>3, <4>4
    <3> QED  BY <3>1 DEF Tabbed
  <2>13. Copied' /\ Held'
    <3>1. Copied'
      BY <1>1, <1>2, <1>3, <2>7, <2>9 DEF IInv, Copied, Unset
    <3>2. ASSUME NEW u \in ui.held, ui.pc \in {"release", "await"} PROVE worker'[u] \notin Unset /\ Left(u)'
      <4>1. u \in Sessions /\ worker[u] \notin Unset /\ Left(u)
        BY <3>2, UIFacts DEF IInv, Held, Types, RestTypes
      <4>2. Left(u)'
        BY <2>9, <4>1, SessionFacts DEF Left
      <4> QED  BY <2>7, <4>1, <4>2 DEF Unset
    <3> QED  BY <1>1, <3>1, <3>2 DEF IInv, Held
  <2>14. NoStray'
    <3> SUFFICES ASSUME NEW u \in Sessions, Alive(u)' PROVE
          \/ Present(u[1])' /\ tabs'[u[1]].sess = u[2]
          \/ u \in closed' \cup ended'
          \/ worker'[u] \in {"opened", "set"}
          \/ u \in ui'.held /\ At("release")'
      BY DEF NoStray
    <3>1. CASE u = s
      BY <1>1, <1>2, <1>3, <3>1
    <3>2. CASE u # s
      BY <1>1, <1>3, <2>7, <2>9, <3>2, SessionFacts DEF IInv, NoStray, At, Shows
    <3> QED  BY <3>1, <3>2
  <2>15. Running'
    <3>1. ASSUME NEW u \in Tabs \ {t} PROVE tabs'[u] = tabs[u] /\ Present(u)' = Present(u)
      BY <2>5, <2>9
    <3>2. tabs'[t].status # "running"
      BY <2>2, <2>5
    <3>3. Running
      BY DEF IInv
    <3> QED  BY <1>1, <3>1, <3>2, <3>3 DEF Running, At, Present
  <2>16. Quits' /\ Shown' /\ Waking'
    BY <1>1, <1>3, <2>9, <2>10, NotifyWakes DEF IInv, Types, SetTypes, Quits, Shown, ShellsEnd, At
  <2> QED  BY <2>11, <2>12, <2>13, <2>14, <2>15, <2>16 DEF IInv
<1> QED  BY <1>4, <1>5

-----------------------------------------------------------------------------
(* The specification *)

LEMMA InitInvariant == Init => IInv
<1> SUFFICES ASSUME Init PROVE IInv
  OBVIOUS
<1>1. NewTab.present = FALSE /\ NewTab.sess = None
    BY DEF NewTab
<1>2. \A t \in Tabs : ~Present(t) /\ tabs[t].sess = None
    BY <1>1 DEF Init, Present
<1>3. ui.pc = "drain" /\ ui.held = {}
    BY IdleFacts DEF Init
<1>4. Tabbed /\ Held /\ Running /\ Quits
    BY <1>2, <1>3 DEF Tabbed, Restarting, Held, Running, Quits, At
<1>5. Copied /\ NoStray /\ Shown /\ Waking
    BY <1>2, <1>3, SessionFacts DEF Init, Copied, Shows, Alive, NoStray, Shown, ShellsEnd, Waking, At
<1> QED  BY <1>4, <1>5, TypeInit DEF IInv

LEMMA NextInvariant == IInv /\ [Next]_vars => IInv'
<1> SUFFICES ASSUME IInv, [Next]_vars PROVE IInv'
  OBVIOUS
<1>1. CASE Loop
    BY <1>1, LoopKeeps, ReleaseKeeps, AwaitKeeps DEF Loop
<1>2. CASE Press
    BY <1>2, HandOversKeep, OpenTabKeeps, TypeKeeps DEF Press
<1>3. CASE Signal
    BY <1>3, LoopKeeps
<1>4. ASSUME NEW s \in Sessions, SetSession(s) PROVE IInv'
    BY <1>4, SetKeeps, RefusedKeeps DEF SetSession, In
<1>5. ASSUME NEW s \in Sessions, Goroutine(s) \/ Output(s) \/ Process(s) PROVE IInv'
    BY <1>4, <1>5, OpenedKeeps, OpenFailsKeeps, ClearCancelKeeps, WaitEndsKeeps, FinishKeeps, FinishBufferKeeps,
       OutputKeeps, ShellLivesKeeps, ShellEndsKeeps DEF Goroutine, Process
<1>6. CASE UNCHANGED vars
  <2>1. UNCHANGED <<tabs, worker, backend, closing, shown>> /\ UNCHANGED ui /\ UNCHANGED wake
    BY <1>6 DEF vars
  <2>2. Types'
    BY <2>1, WakeTypes, Unmoved DEF IInv, Types, RestTypes
  <2>3. Tabbed' /\ Held' /\ Quits' /\ Waking'
    BY <2>1, NotifyWakes DEF IInv, Tabbed, Restarting, Held, Left, Present, Quits, At
  <2>4. Running' /\ NoStray' /\ Shown'
    BY <2>1 DEF IInv, Running, NoStray, Shown, ShellsEnd, Shows, Alive, Present, At, backend
  <2> QED  BY <2>1, <2>2, <2>3, <2>4, Unmoved DEF IInv
<1> QED  BY <1>1, <1>2, <1>3, <1>5, <1>6 DEF Next

LEMMA Implied == IInv => TypeOK /\ NoStray /\ Connected /\ Woken /\ ShellsEnd
<1> SUFFICES ASSUME IInv PROVE Connected /\ Woken
    BY TypeParts DEF IInv, Shown
<1>1. Connected
    BY DEF IInv, Running, Connected, At
<1>2. Woken
  <2>1. signals = 0 \/ signals > 0
    BY ShellTabsAssumption DEF IInv, Types, RestTypes
  <2> QED  BY <2>1 DEF IInv, Waking, Woken, At
<1> QED  BY <1>1, <1>2

LEMMA Invariant == Spec => []IInv
BY InitInvariant, NextInvariant, PTL DEF Spec

\* A goroutine that does the only step changes its own tab, and a goroutine that
\* starts was none.
LEMMA StepFenced ==
    ASSUME IInv, [Next]_vars, NEW s \in Sessions, worker'[s] # worker[s], worker[s] # "none", Left(s)
    PROVE  tabs' \in {tabs, [tabs EXCEPT ![s[1]] = Muted(@)]}
<1>1. ASSUME NEW t \in Tabs, NEW g, g = tabs[t].gen + 1, worker' = [worker EXCEPT ![<<t, g>>] = "open"]
      PROVE  FALSE
  <2>1. s = <<t, g>>
    BY <1>1 DEF IInv, Types, SessionTypes
  <2>2. s[2] <= tabs[s[1]].gen /\ s[1] = t /\ s[2] = g
    BY <2>1 DEF IInv, Types, SessionTypes
  <2>3. tabs[t].gen \in Nat
    BY TabFacts DEF IInv, Types, TabTypes
  <2> QED  BY <1>1, <2>2, <2>3
<1>2. CASE Loop
  <2>1. Await
    BY <1>2 DEF Loop, Drain, Receive, Poll, Release, Written
  <2>2. ui.op \in Tabs /\ worker' = [worker EXCEPT ![<<ui.op, tabs[ui.op].gen + 1>>] = "open"]
    BY <2>1, UIFacts DEF Await, At, IInv, Types, RestTypes, Held
  <2> QED  BY <1>1, <2>2
<1>3. CASE Press
  <2>1. PICK t \in Tabs : OpenTab(t)
    BY <1>3 DEF Press, Quit, CloseTab, Restart, Type
  <2>2. worker' = [worker EXCEPT ![<<t, 1>>] = "open"] /\ 1 = tabs[t].gen + 1
    BY <2>1 DEF OpenTab
  <2> QED  BY <1>1, <2>2
<1>4. ASSUME NEW u \in Sessions, Goroutine(u) PROVE tabs' \in {tabs, [tabs EXCEPT ![s[1]] = Muted(@)]}
  <2>1. u = s
    <3>1. PICK stage : On(u, stage)
      BY <1>4 DEF Goroutine, Opened, OpenFails, ClearCancel, SetSession, WaitEnds, Finish, FinishBuffer
    <3> QED  BY <3>1 DEF On, IInv, Types, SessionTypes
  <2>2. ~Latest(s)
    BY DEF Left, Latest
  <2>3. CASE ClearCancel(s)
    <3>1. tabs' = [tabs EXCEPT ![s[1]].conn = tabs[s[1]].conn]
      BY <2>2, <2>3 DEF ClearCancel
    <3>2. tabs' = tabs
      BY <3>1 DEF IInv, Types, TabTypes, TabState
    <3> QED  BY <3>2
  <2>4. CASE FinishBuffer(s)
    BY <2>4 DEF FinishBuffer, Muted
  <2>5. CASE Opened(s) \/ OpenFails(s) \/ WaitEnds(s)
    BY <2>5 DEF Opened, OpenFails, WaitEnds
  <2>6. CASE SetSession(s) \/ Finish(s)
    BY <2>2, <2>6 DEF SetSession, Finish
  <2> QED  BY <1>4, <2>1, <2>3, <2>4, <2>5, <2>6 DEF Goroutine
<1>5. CASE Signal \/ UNCHANGED vars \/ \E u \in Sessions : Output(u) \/ Process(u)
    BY <1>5 DEF Signal, vars, Output, Process, ShellUp, ShellTurns, ShellEnds
<1> QED  BY <1>2, <1>3, <1>4, <1>5 DEF Next

\* Types hold, and only started generations have goroutines and shells.
THEOREM ShellTypes == Spec => []TypeOK
BY Invariant, Implied, PTL

\* No shell is lost, whatever is opened, restarted, closed and quit in whatever
\* order with what the goroutines do (tabs.go).
THEOREM NoStrays == Spec => []NoStray
BY Invariant, Implied, PTL

\* A tab that runs shows the session of its last generation (setTabSession,
\* restartActiveTab).
THEOREM AlwaysConnected == Spec => []Connected
BY Invariant, Implied, PTL

\* The UI never goes to poll with an update queued and no wake to come
\* (notify, drainTabUpdates).
THEOREM AlwaysWoken == Spec => []Woken
BY Invariant, Implied, PTL

\* The program ends after the shells that tabs showed (closeTabs).
THEOREM ShellsEndFirst == Spec => []ShellsEnd
BY Invariant, Implied, PTL

\* The goroutine of a session that was left behind changes no tab, but for the
\* reply writer (tabPresentLocked and the generation, asked by every callback).
THEOREM AlwaysFenced == Spec => Fenced
<1>1. IInv /\ [Next]_vars
        => [\A s \in Sessions : worker'[s] # worker[s] /\ worker[s] # "none" /\ Left(s)
                                   => tabs' \in {tabs, [tabs EXCEPT ![s[1]] = Muted(@)]}]_vars
    BY StepFenced
<1> QED  BY <1>1, Invariant, PTL DEF Spec, Fenced
=============================================================================
