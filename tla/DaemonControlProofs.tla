------------------------ MODULE DaemonControlProofs ------------------------
(***************************************************************************)
(* Proofs about DaemonControl, for any number of UIs and any homes: as     *)
(* long as no two Applies overlap, what Status tells is true, what was     *)
(* applied runs for good, and no other lab is left on the host.            *)
(***************************************************************************)
EXTENDS DaemonControl, TLAPS

\* Apply changes the configuration only while the unit is down, and has
\* destroyed the lab it saw configured before it forgets it.
Settling == {"destroy", "write", "unit", "reload", "enable"}
Written  == {"unit", "reload", "enable"}
Calls(c) ==
    /\ ~At(c, "idle") => applied = None /\ call[c].want \in Labs
    /\ call[c].pc \in Settling => unit = Down
    /\ call[c].pc \in {"stop", "destroy", "write"} => call[c].seen = Configured(c)
    /\ At(c, "write") /\ call[c].seen # call[c].want => host[call[c].seen] \subseteq lost[call[c].seen]
    /\ call[c].pc \in Written => dropin = call[c].want
Units ==
    /\ unit # Down => enabled /\ installed = "whole"
    /\ Process => unit.lab = OnDisk
    /\ unit.state \in {"active", "activating"} => conf = OnDisk
Forgotten == \A l \in Labs : l # OnDisk => host[l] \subseteq lost[l]
Kept == applied # None /\ (dropin # None \/ applied = Shipped) =>
            /\ unit \in {Active(applied), Pending} /\ conf = applied /\ enabled /\ installed = "whole"
            /\ OnDisk = applied
Solo == \A c, d \in Callers : ~At(c, "idle") /\ ~At(d, "idle") => c = d
Rest == (\A c \in Callers : Calls(c)) /\ Units /\ Kept /\ Forgotten
Alone == TypeOK /\ Solo /\ Rest
IInv == TypeOK /\ (~clash => Solo /\ Rest)

-----------------------------------------------------------------------------
\* The records that calls and units are made of.
LEMMA Records ==
    /\ Ended \in CallState
    /\ \A r \in CallState, p \in PCs : [r EXCEPT !.pc = p] \in CallState
    /\ \A l \in Labs : [pc |-> "status", want |-> l, seen |-> None] \in CallState
    /\ Down \in UnitState /\ Pending \in UnitState
    /\ \A l \in Labs : Active(l) \in UnitState
    /\ \A u \in UnitState : u.state \in {"active", "deactivating"} =>
            u.lab \in Labs /\ [u EXCEPT !.state = "deactivating"] \in UnitState
BY DEF Ended, CallState, PCs, Down, Pending, Active, UnitState

\* What systemd and the controller read of the files is always a lab.
LEMMA Paths ==
    ASSUME TypeOK
    PROVE  OnDisk \in Labs /\ \A c \in Callers : Configured(c) \in Labs
BY DaemonControlAssumption DEF TypeOK, OnDisk, Configured

\* Every variable keeps its type, whatever the number of callers.
LEMMA TypeInit == Init => TypeOK
<1> SUFFICES ASSUME Init PROVE TypeOK
  OBVIOUS
<1>1. dropin \in Labs \cup {None} /\ OnDisk \in Labs
  BY DaemonControlAssumption DEF Init, OnDisk
<1>2. /\ conf \in Labs \cup {None} /\ installed \in {"none", "whole", "torn"} /\ enabled \in BOOLEAN
      /\ unit \in UnitState /\ (unit # Down => conf \in Labs /\ installed = "whole")
  BY <1>1, Records DEF Init
<1>3. call \in [Callers -> CallState]
  BY Records DEF Init
<1>4. \A c \in Callers : Sensible(call[c])
  BY DEF Init, Sensible, Ended
<1>5. /\ files \in [Labs -> Contents] /\ host \in [Labs -> SUBSET Work] /\ lost \in [Labs -> SUBSET Work]
      /\ applied \in Labs \cup {None} /\ clash \in BOOLEAN
  BY DaemonControlAssumption DEF Init
<1>6. edits \in 0..MaxEdits /\ mishaps \in 0..MaxMishaps
  BY DaemonControlAssumption DEF Init
<1> QED
  BY <1>1, <1>2, <1>3, <1>4, <1>5, <1>6 DEF TypeOK

\* How one caller's call goes on.
Typed(c) == /\ call' \in [Callers -> CallState]
            /\ \A d \in Callers : Sensible(call'[d])
            /\ applied' \in Labs \cup {None}
            /\ mishaps' \in 0..MaxMishaps

LEMMA EndsTyped ==
    ASSUME TypeOK, NEW c \in Callers,
           \/ Fails(c)
           \/ Succeeds(c) /\ UNCHANGED mishaps
           \/ GivesUp(c) /\ UNCHANGED mishaps
    PROVE  Typed(c)
<1>1. call' = [call EXCEPT ![c] = Ended]
  BY DEF Fails, GivesUp, Succeeds
<1>2. call' \in [Callers -> CallState] /\ \A d \in Callers : Sensible(call'[d])
  BY <1>1, Records DEF TypeOK, Sensible, Ended
<1>3. applied' \in Labs \cup {None} /\ mishaps' \in 0..MaxMishaps
  BY DaemonControlAssumption DEF TypeOK, Fails, GivesUp, Succeeds, Mishap, CallState
<1> QED
  BY <1>2, <1>3 DEF Typed

LEMMA GoesTyped ==
    ASSUME TypeOK, NEW c \in Callers, NEW p \in PCs, Goes(c, p), UNCHANGED <<applied, mishaps>>,
           p \notin {"stop", "destroy"} \/ (At(c, "stop") /\ (p = "destroy" => call[c].seen # call[c].want))
    PROVE  Typed(c)
<1>1. call' = [call EXCEPT ![c] = [call[c] EXCEPT !.pc = p]] /\ call[c] \in CallState
  BY DEF Goes, TypeOK
<1>2. call' \in [Callers -> CallState]
  BY <1>1, Records DEF TypeOK
<1>3. Sensible([call[c] EXCEPT !.pc = p])
  BY <1>1 DEF Sensible, TypeOK, At, CallState
<1>4. \A d \in Callers : Sensible(call'[d])
  BY <1>1, <1>3 DEF TypeOK
<1> QED
  BY <1>2, <1>4 DEF Typed, TypeOK

LEMMA TypeCalls ==
    ASSUME TypeOK, NEW c \in Callers, Apply(c)
    PROVE  Typed(c)
<1>1. CASE Ask(c)
  <2>1. CASE ~Unchanged(c) /\ call' = [call EXCEPT ![c].pc = "stop", ![c].seen = Configured(c)]
             /\ UNCHANGED <<applied, mishaps>>
    <3>1. call' = [call EXCEPT ![c] = [call[c] EXCEPT !.pc = "stop", !.seen = Configured(c)]]
          /\ call[c] \in CallState /\ Configured(c) \in Labs
      BY <2>1, Paths DEF TypeOK
    <3>2. /\ [call[c] EXCEPT !.pc = "stop", !.seen = Configured(c)] \in CallState
          /\ Sensible([call[c] EXCEPT !.pc = "stop", !.seen = Configured(c)])
      BY <3>1 DEF CallState, PCs, Sensible
    <3> QED
      BY <2>1, <3>1, <3>2 DEF Typed, TypeOK
  <2> QED
    BY <1>1, <2>1, EndsTyped DEF Ask
<1>2. CASE StopUnit(c)
  <2>1. AfterStop(c) \in PCs /\ (AfterStop(c) = "destroy" => call[c].seen # call[c].want)
    BY DEF AfterStop, PCs
  <2> QED
    BY <1>2, <2>1, EndsTyped, GoesTyped DEF StopUnit, Stopped, MissingStops, StopFails
<1>3. CASE Destroy(c)
  BY <1>3, EndsTyped, GoesTyped DEF Destroy, Refuses, PCs
<1>4. CASE WriteDropIn(c) \/ EnsureUnit(c) \/ Reload(c)
  BY <1>4, EndsTyped, GoesTyped DEF WriteDropIn, EnsureUnit, Reload, PCs
<1>5. CASE Enable(c)
  BY <1>5, EndsTyped DEF Enable
<1> QED
  BY <1>1, <1>2, <1>3, <1>4, <1>5 DEF Apply

LEMMA TypeApply ==
    ASSUME TypeOK, NEW c \in Callers, Apply(c)
    PROVE  TypeOK'
<1> USE TypeCalls, Paths, Records DEF TypeOK, Typed
<1>1. CASE Ask(c)
  BY <1>1 DEF Ask, disk, systemd
<1>2. CASE StopUnit(c)
  <2>1. unit' = unit \/ unit' = Down \/ (Process /\ unit' = [unit EXCEPT !.state = "deactivating"])
    BY <1>2 DEF StopUnit
  <2>2. unit' \in UnitState /\ (unit' # Down => unit # Down)
    BY <2>1 DEF Process, Down
  <2> QED
    BY <1>2, <2>2 DEF StopUnit, disk
<1>3. CASE Destroy(c)
  <2>1. host' \in [Labs -> SUBSET Work] /\ lost' \in [Labs -> SUBSET Work]
    BY <1>3 DEF Destroy, Destroyed
  <2> QED
    BY <1>3, <2>1 DEF Destroy, disk, systemd
<1>4. CASE WriteDropIn(c)
  <2>1. dropin' \in Labs \cup {None} /\ lost' \in [Labs -> SUBSET Work]
    BY <1>4 DEF WriteDropIn, Forgets, CallState
  <2> QED
    BY <1>4, <2>1 DEF WriteDropIn, systemd
<1>5. CASE EnsureUnit(c)
  BY <1>5 DEF EnsureUnit, systemd
<1>6. CASE Reload(c)
  BY <1>6 DEF Reload, Loadable, disk
<1>7. CASE Enable(c)
  BY <1>7 DEF Enable, Start, disk, systemd
<1> QED
  BY <1>1, <1>2, <1>3, <1>4, <1>5, <1>6, <1>7 DEF Apply

LEMMA TypeNext ==
    ASSUME TypeOK, [Next]_vars
    PROVE  TypeOK'
<1>1. CASE \E c \in Callers : Apply(c)
  BY <1>1, TypeApply
<1>2. ASSUME NEW c \in Callers, Killed(c) PROVE TypeOK'
  BY <1>2, EndsTyped DEF Killed, TypeOK, Typed, disk, systemd
<1>3. ASSUME NEW c \in Callers, NEW l \in Labs, Begin(c, l) PROVE TypeOK'
  <2>1. call' \in [Callers -> CallState] /\ \A d \in Callers : Sensible(call'[d])
    BY <1>3, Records DEF Begin, TypeOK, Sensible
  <2> QED
    BY <1>3, <2>1 DEF Begin, TypeOK, disk, systemd, bounds
<1>4. CASE Job
  <2>1. unit' \in UnitState /\ (unit' # Down => conf \in Labs)
    <3>1. CASE unit.state = "activating"
      <4>1. conf \in Labs
        BY <3>1 DEF TypeOK, Down
      <4> QED
        BY <4>1, <3>1, <1>4, Records DEF Job
    <3> QED
      BY <1>4, <3>1, Records DEF Job, TypeOK
  <2> QED
    BY <1>4, <2>1 DEF Job, TypeOK, disk, history, bounds, Down
<1>5. CASE DaemonCrash
  <2>1. unit' \in UnitState /\ conf' \in Labs
    BY <1>5, Records DEF DaemonCrash, TypeOK, Down
  <2>2. mishaps' \in 0..MaxMishaps
    BY <1>5, DaemonControlAssumption DEF DaemonCrash, Mishap, TypeOK
  <2> QED
    BY <1>5, <2>1, <2>2 DEF DaemonCrash, TypeOK, disk, history, Down
<1>6. CASE Boot
  <2>1. call' \in [Callers -> CallState] /\ \A d \in Callers : Sensible(call'[d])
    BY <1>6, Records DEF Boot, Sensible, Ended
  <2>2. unit' \in UnitState /\ conf' \in Labs \cup {None} /\ (unit' # Down => conf' \in Labs)
    BY <1>6, Records, Paths DEF Boot, Loadable
  <2>3. mishaps' \in 0..MaxMishaps
    BY <1>6, DaemonControlAssumption DEF Boot, Mishap, TypeOK
  <2> QED
    BY <1>6, <2>1, <2>2, <2>3 DEF Boot, TypeOK, disk, history
<1>7. CASE Converge
  <2>1. host' \in [Labs -> SUBSET Work]
    <3>1. unit.lab \in Labs
      BY <1>7, Records DEF Converge, Process, TypeOK
    <3>2. Names(unit.lab) \subseteq Work
      <4>1. files[unit.lab] \in Contents
        BY <3>1 DEF TypeOK
      <4>2. \A f \in Contents : f.names \subseteq Work
        BY DEF Contents, File, Gone, Broken
      <4> QED
        BY <4>1, <4>2 DEF Names
    <3> QED
      BY <1>7, <3>1, <3>2 DEF Converge, TypeOK
  <2> QED
    BY <1>7, <2>1 DEF Converge, TypeOK, disk, systemd, history, bounds
<1>8. CASE Edit
  BY <1>8, DaemonControlAssumption DEF Edit, TypeOK, disk, systemd, history
<1>9. CASE UNCHANGED vars
  BY <1>9 DEF vars, TypeOK, disk, systemd, history, bounds
<1> QED
  BY <1>1, <1>2, <1>3, <1>4, <1>5, <1>6, <1>7, <1>8, <1>9 DEF Next

\* Type correctness of the specification, for any number of UIs.
THEOREM TypeCorrect == Spec => []TypeOK
BY TypeInit, TypeNext, PTL DEF Spec

-----------------------------------------------------------------------------
(* From here on no two Applies overlap.                                    *)

LEMMA RestInit == Init => Solo /\ Rest
<1> SUFFICES ASSUME Init PROVE Solo /\ Rest
  OBVIOUS
<1>1. Solo /\ \A c \in Callers : Calls(c)
  BY DEF Init, Solo, Calls, At, Ended, Settling, Written
<1>2. Units
  BY DEF Init, Units, Down, Active, Process
<1> QED
  BY <1>1, <1>2 DEF Rest, Kept, Forgotten, Init

\* A caller that is idle has nothing to keep to.
LEMMA IdleCalls ==
    ASSUME NEW d \in Callers, At(d, "idle")'
    PROVE  Calls(d)'
BY DEF Calls, At, Settling, Written

\* The others are idle while one is at work.
LEMMA Others ==
    ASSUME Alone, NEW c \in Callers, ~At(c, "idle"), NEW k, call' = [call EXCEPT ![c] = k]
    PROVE  /\ \A d \in Callers \ {c} : Calls(d)'
           /\ call'[c] = k /\ Solo'
<1>1. \A d \in Callers \ {c} : At(d, "idle") /\ call'[d] = call[d]
  BY DEF Alone, Solo, TypeOK
<1>2. call'[c] = k
  BY DEF Alone, TypeOK
<1>3. \A d \in Callers \ {c} : At(d, "idle")'
  BY <1>1 DEF At
<1> QED
  BY <1>2, <1>3, IdleCalls DEF Solo

\* A call that is over says nothing any more.
LEMMA OverCalls ==
    ASSUME Alone, NEW c \in Callers, ~At(c, "idle"), call' = [call EXCEPT ![c] = Ended]
    PROVE  (\A d \in Callers : Calls(d)') /\ Solo'
<1>1. call'[c] = Ended /\ (\A d \in Callers \ {c} : Calls(d)') /\ Solo'
  BY Others
<1>2. Calls(c)'
  BY <1>1, IdleCalls DEF At, Ended
<1> QED
  BY <1>1, <1>2

\* A call that goes on to p keeps its lab, and the others say nothing.
LEMMA NextCalls ==
    ASSUME Alone, NEW c \in Callers, ~At(c, "idle"), NEW p, Goes(c, p)
    PROVE  /\ (\A d \in Callers \ {c} : Calls(d)') /\ Solo'
           /\ call'[c].pc = p /\ call'[c].want = call[c].want /\ call'[c].seen = call[c].seen
<1>1. call' = [call EXCEPT ![c] = [call[c] EXCEPT !.pc = p]] /\ call[c] \in CallState
  BY DEF Goes, Alone, TypeOK
<1>2. (\A d \in Callers \ {c} : Calls(d)') /\ Solo' /\ call'[c] = [call[c] EXCEPT !.pc = p]
  BY <1>1, Others
<1> QED
  BY <1>1, <1>2 DEF CallState

\* A call that gives up leaves nothing applied, as it began.
LEMMA RestFails ==
    ASSUME Alone, NEW c \in Callers, ~At(c, "idle"), GivesUp(c)
    PROVE  (\A d \in Callers : Calls(d)') /\ Solo' /\ Kept'
<1>1. applied' = None
  BY DEF Alone, Rest, Calls, GivesUp
<1> QED
  BY <1>1, OverCalls DEF Kept, GivesUp

LEMMA RestAsk ==
    ASSUME Alone, NEW c \in Callers, Ask(c)
    PROVE  (Solo /\ Rest)'
<1>1. ~At(c, "idle") /\ UNCHANGED <<host, dropin, installed, conf, enabled, unit, lost>>
  BY DEF Ask, At, disk, systemd
<1>2. Units' /\ Forgotten'
  BY <1>1 DEF Alone, Rest, Units, Forgotten, OnDisk, Process
<1>3. CASE Unchanged(c) /\ Succeeds(c)
  <2>1. (\A d \in Callers : Calls(d)') /\ Solo'
    BY <1>1, <1>3, OverCalls DEF Succeeds
  <2>2. unit.lab = OnDisk /\ unit # Down /\ unit = Active(OnDisk)
    <3>1. unit.lab = OnDisk /\ unit.state = "active"
      BY <1>3 DEF Unchanged, Alone, Rest, Units, Process
    <3>2. unit = [state |-> unit.state, lab |-> unit.lab]
      BY <3>1 DEF Alone, TypeOK, UnitState, Down, Pending
    <3> QED
      BY <3>1, <3>2 DEF Active, Down
  <2>3. ASSUME applied' # None, dropin' # None \/ applied' = Shipped PROVE OnDisk' = applied'
    BY <1>1, <1>3, <2>3 DEF Unchanged, Succeeds, Configured, OnDisk
  <2>4. OnDisk' = OnDisk /\ conf = OnDisk /\ enabled /\ installed = "whole"
    BY <1>1, <2>2 DEF OnDisk, Alone, Rest, Units, Active
  <2>5. Kept'
    BY <1>1, <2>2, <2>3, <2>4 DEF Kept
  <2> QED
    BY <1>2, <2>1, <2>5 DEF Rest
<1>4. CASE Fails(c)
  BY <1>1, <1>2, <1>4, RestFails DEF Fails, Rest
<1>5. CASE call' = [call EXCEPT ![c].pc = "stop", ![c].seen = Configured(c)] /\ UNCHANGED applied
  <2>1. /\ call' = [call EXCEPT ![c] = [call[c] EXCEPT !.pc = "stop", !.seen = Configured(c)]]
        /\ call[c] \in CallState
    BY <1>5 DEF Alone, TypeOK
  <2>2. /\ (\A d \in Callers \ {c} : Calls(d)') /\ Solo'
        /\ call'[c] = [call[c] EXCEPT !.pc = "stop", !.seen = Configured(c)]
    BY <1>1, <2>1, Others
  <2>3. call'[c].pc = "stop" /\ call'[c].seen = Configured(c) /\ call'[c].want = call[c].want
    BY <2>1, <2>2 DEF CallState
  <2>4. applied = None /\ call[c].want \in Labs
    BY <1>1 DEF Alone, Rest, Calls
  <2>5. Calls(c)'
    BY <1>1, <1>5, <2>3, <2>4 DEF Calls, At, Settling, Written, Configured
  <2> QED
    BY <1>2, <1>5, <2>2, <2>4, <2>5 DEF Rest, Kept
<1> QED
  BY <1>3, <1>4, <1>5 DEF Ask

LEMMA RestStop ==
    ASSUME Alone, NEW c \in Callers, StopUnit(c)
    PROVE  (Solo /\ Rest)'
<1>1. /\ applied = None /\ call[c].want \in Labs /\ call[c].seen = Configured(c) /\ ~At(c, "idle")
      /\ UNCHANGED <<host, dropin, installed, conf, enabled, lost>>
  BY DEF StopUnit, At, Alone, Rest, Calls, disk
<1>2. OnDisk' = OnDisk /\ Configured(c)' = Configured(c)
  BY <1>1 DEF OnDisk, Configured
<1>3. Units' /\ Forgotten'
  <2>1. unit' = unit \/ unit' = Down \/ (Process /\ unit' = [unit EXCEPT !.state = "deactivating"])
    BY DEF StopUnit
  <2>2. CASE Process /\ unit' = [unit EXCEPT !.state = "deactivating"]
    <3>1. unit'.state = "deactivating" /\ unit'.lab = unit.lab /\ unit # Down
      BY <2>2 DEF Alone, TypeOK, UnitState, Down, Pending, Process
    <3> QED
      BY <1>1, <1>2, <2>2, <3>1 DEF Units, Alone, Rest, Process, Forgotten
  <2>3. CASE unit' = unit \/ unit' = Down
    BY <1>1, <1>2, <2>3 DEF Units, Alone, Rest, Process, Forgotten, Down
  <2> QED
    BY <2>1, <2>2, <2>3
<1>4. CASE StopFails(c)
  BY <1>1, <1>3, <1>4, RestFails DEF StopFails, Fails, Rest
<1>5. CASE Stopped(c) /\ unit' = Down
  <2>1. Calls(c)'
    BY <1>1, <1>2, <1>5, NextCalls DEF Stopped, AfterStop, Calls, At, Settling, Written
  <2>2. Kept'
    BY <1>1, <1>5 DEF Stopped, Kept
  <2> QED
    BY <1>1, <1>3, <1>5, <2>1, <2>2, NextCalls DEF Stopped, Rest
<1>6. CASE installed # "whole" /\ MissingStops(c) /\ UNCHANGED unit
  BY <1>5, <1>6 DEF MissingStops, Alone, Rest, Units
<1> QED
  BY <1>4, <1>5, <1>6 DEF StopUnit

LEMMA RestDestroy ==
    ASSUME Alone, NEW c \in Callers, Destroy(c)
    PROVE  (Solo /\ Rest)'
<1> DEFINE old == Configured(c)
<1>1. /\ applied = None /\ call[c].want \in Labs /\ call[c].seen = old /\ ~At(c, "idle")
      /\ unit = Down /\ old \in Labs /\ UNCHANGED <<dropin, installed, conf, enabled, unit>>
  BY Paths DEF Destroy, At, Alone, Rest, Calls, disk, systemd, Settling
<1>2. OnDisk' = OnDisk /\ old' = old
  BY <1>1 DEF OnDisk, Configured
<1>3. Units'
  BY <1>1, <1>2 DEF Units, Alone, Rest, Process, Down
<1>4. /\ \A l \in Labs : l # old => host'[l] = host[l] /\ lost'[l] = lost[l]
      /\ host'[old] \subseteq host[old]
  BY <1>1 DEF Destroy, Destroyed, Alone, TypeOK
<1>5. CASE Goes(c, "write") /\ UNCHANGED applied /\ lost' = [lost EXCEPT ![call[c].seen] = host'[call[c].seen]]
  <2>1. host'[old] \subseteq lost'[old]
    BY <1>1, <1>5 DEF Alone, TypeOK
  <2>2. Forgotten'
    BY <1>2, <1>4, <2>1 DEF Forgotten, Alone, Rest
  <2>3. /\ call'[c].pc = "write" /\ call'[c].want = call[c].want /\ call'[c].seen = old
        /\ (\A d \in Callers \ {c} : Calls(d)') /\ Solo'
    BY <1>1, <1>5, NextCalls
  <2>4. Calls(c)'
    BY <1>1, <1>2, <1>5, <2>1, <2>3 DEF Calls, At, Settling, Written
  <2> QED
    BY <1>1, <1>3, <1>5, <2>2, <2>3, <2>4 DEF Rest, Kept
<1>6. CASE GivesUp(c) /\ UNCHANGED lost
  <2>1. Forgotten'
    BY <1>2, <1>4, <1>6 DEF Forgotten, Alone, Rest
  <2> QED
    BY <1>1, <1>3, <1>6, <2>1, RestFails DEF Rest
<1> QED
  BY <1>5, <1>6 DEF Destroy, Refuses, Fails

LEMMA RestWrite ==
    ASSUME Alone, NEW c \in Callers, WriteDropIn(c)
    PROVE  (Solo /\ Rest)'
<1> DEFINE old == Configured(c)
<1>1. /\ applied = None /\ call[c].want \in Labs /\ call[c].seen = old /\ ~At(c, "idle")
      /\ unit = Down /\ old \in Labs /\ OnDisk \in Labs
      /\ UNCHANGED <<installed, conf, enabled, unit, host>>
      /\ call[c].seen # call[c].want => host[old] \subseteq lost[old]
  BY Paths DEF WriteDropIn, At, Alone, Rest, Calls, Settling, systemd
<1>2. Units'
  BY <1>1 DEF Units, Process, Down
<1>3. CASE /\ dropin' = call[c].want /\ Goes(c, "unit") /\ UNCHANGED applied
           /\ IF OnDisk \in {call[c].seen, call[c].want} THEN UNCHANGED lost ELSE Forgets(OnDisk)
  <2>1. OnDisk' = call[c].want
    BY <1>1, <1>3, DaemonControlAssumption DEF OnDisk
  <2>2. Forgotten'
    <3> SUFFICES ASSUME NEW l \in Labs, l # call[c].want PROVE host[l] \subseteq lost'[l]
      BY <1>1, <2>1 DEF Forgotten
    <3>1. CASE OnDisk \in {call[c].seen, call[c].want}
      <4>1. lost' = lost
        BY <1>3, <3>1
      <4> QED
        BY <1>1, <3>1, <4>1 DEF Forgotten, Alone, Rest
    <3>2. CASE OnDisk \notin {call[c].seen, call[c].want}
      <4>1. lost' = [lost EXCEPT ![OnDisk] = host[OnDisk]]
        BY <1>3, <3>2 DEF Forgets
      <4> QED
        BY <4>1 DEF Forgotten, Alone, Rest, TypeOK
    <3> QED
      BY <3>1, <3>2
  <2>3. /\ call'[c].pc = "unit" /\ call'[c].want = call[c].want
        /\ (\A d \in Callers \ {c} : Calls(d)') /\ Solo'
    BY <1>1, <1>3, NextCalls
  <2>4. Calls(c)'
    BY <1>1, <1>3, <2>3 DEF Calls, At, Settling, Written
  <2> QED
    BY <1>1, <1>2, <1>3, <2>2, <2>3, <2>4 DEF Rest, Kept
<1>4. CASE UNCHANGED <<dropin, lost>> /\ Fails(c)
  <2>1. Forgotten'
    BY <1>1, <1>4 DEF Forgotten, Alone, Rest, OnDisk
  <2> QED
    BY <1>1, <1>2, <1>4, <2>1, RestFails DEF Rest, Fails
<1>5. CASE dropin # None /\ dropin' = None /\ Fails(c) /\ Forgets(dropin)
  <2>1. Forgotten'
    <3> SUFFICES ASSUME NEW l \in Labs PROVE host[l] \subseteq lost'[l]
      BY <1>1 DEF Forgotten
    <3> QED
      BY <1>5 DEF Forgets, Forgotten, OnDisk, Alone, Rest, TypeOK
  <2> QED
    BY <1>1, <1>2, <1>5, <2>1, RestFails DEF Rest, Fails
<1> QED
  BY <1>3, <1>4, <1>5 DEF WriteDropIn

LEMMA RestUnit ==
    ASSUME Alone, NEW c \in Callers, EnsureUnit(c) \/ Reload(c)
    PROVE  (Solo /\ Rest)'
<1>1. /\ applied = None /\ call[c].want \in Labs /\ ~At(c, "idle") /\ unit = Down
      /\ dropin = call[c].want /\ UNCHANGED <<dropin, unit, host, lost>>
  BY DEF EnsureUnit, Reload, At, Alone, Rest, Calls, Settling, Written, disk, systemd
<1>2. Units' /\ Forgotten'
  BY <1>1 DEF Units, Process, Down, Forgotten, Alone, Rest, OnDisk
<1>3. CASE Fails(c)
  BY <1>1, <1>2, <1>3, RestFails DEF Rest, Fails
<1>4. ASSUME NEW p \in {"reload", "enable"}, Goes(c, p), UNCHANGED applied PROVE (Solo /\ Rest)'
  <2>1. /\ call'[c].pc = p /\ call'[c].want = call[c].want
        /\ (\A d \in Callers \ {c} : Calls(d)') /\ Solo'
    BY <1>1, <1>4, NextCalls
  <2>2. Calls(c)'
    BY <1>1, <1>4, <2>1 DEF Calls, At, Settling, Written
  <2> QED
    BY <1>1, <1>2, <1>4, <2>1, <2>2 DEF Rest, Kept
<1> QED
  BY <1>3, <1>4 DEF EnsureUnit, Reload

LEMMA RestEnable ==
    ASSUME Alone, NEW c \in Callers, Enable(c)
    PROVE  (Solo /\ Rest)'
<1>1. /\ applied = None /\ call[c].want \in Labs /\ ~At(c, "idle") /\ unit = Down
      /\ dropin = call[c].want /\ UNCHANGED <<dropin, installed, host, lost>>
  BY DEF Enable, At, Alone, Rest, Calls, Settling, Written, disk
<1>2. OnDisk = call[c].want /\ OnDisk' = OnDisk
  BY <1>1, DaemonControlAssumption DEF OnDisk
<1>3. Forgotten'
  BY <1>1, <1>2 DEF Forgotten, Alone, Rest
<1>4. CASE installed = "whole" /\ enabled' = TRUE /\ conf' = OnDisk /\ Start /\ Succeeds(c)
  <2>1. unit' = Active(call[c].want)
    BY <1>1, <1>2, <1>4 DEF Start, Down
  <2>2. Units' /\ Kept'
    BY <1>1, <1>2, <1>4, <2>1 DEF Units, Active, Process, Kept, Succeeds
  <2> QED
    BY <1>1, <1>3, <1>4, <2>2, OverCalls DEF Rest, Succeeds
<1>5. CASE /\ GivesUp(c)
           /\ \/ UNCHANGED systemd
              \/ installed = "whole" /\ enabled' = TRUE /\ conf' = OnDisk /\ unit' \in {unit, Pending}
  <2>1. Units'
    BY <1>1, <1>2, <1>5 DEF Units, Process, Down, Pending, Alone, Rest, systemd
  <2> QED
    BY <1>1, <1>3, <1>5, <2>1, RestFails DEF Rest
<1> QED
  BY <1>4, <1>5 DEF Enable, Fails

LEMMA RestBegin ==
    ASSUME Alone, NEW c \in Callers, NEW l \in Labs, Begin(c, l), ~clash'
    PROVE  (Solo /\ Rest)'
<1>1. \A d \in Callers : At(d, "idle")
  BY DEF Begin
<1>2. call' = [call EXCEPT ![c] = [pc |-> "status", want |-> l, seen |-> None]] /\ applied' = None
  BY DEF Begin
<1>3. \A d \in Callers : call'[d] = IF d = c THEN [pc |-> "status", want |-> l, seen |-> None] ELSE call[d]
  BY <1>2 DEF Alone, TypeOK
<1>4. Calls(c)'
  BY <1>2, <1>3 DEF Calls, At, Settling, Written
<1>5. \A d \in Callers \ {c} : At(d, "idle")'
  BY <1>1, <1>3 DEF At
<1>6. Units' /\ Forgotten'
  BY DEF Begin, Alone, Rest, Units, Forgotten, Process, OnDisk, disk, systemd
<1> QED
  BY <1>2, <1>4, <1>5, <1>6, IdleCalls DEF Rest, Kept, Solo

\* systemd's own steps, the daemon, and the edits of files.
LEMMA RestAround ==
    ASSUME Alone, Job \/ DaemonCrash \/ Converge \/ Edit \/ UNCHANGED vars
    PROVE  (Solo /\ Rest)'
<1>1. UNCHANGED <<dropin, installed, enabled, conf, call, applied, lost>>
  BY DEF Job, DaemonCrash, Converge, Edit, vars, disk, systemd, history, bounds
<1>2. Solo' /\ OnDisk' = OnDisk /\ \A c \in Callers : Configured(c)' = Configured(c)
  BY <1>1 DEF Alone, Solo, At, OnDisk, Configured
<1>3. CASE Converge
  <2>1. unit' = unit /\ unit.lab = OnDisk /\ unit # Down
    BY <1>3 DEF Converge, systemd, Alone, Rest, Units, Process, Down
  <2>2. \A l \in Labs : l # OnDisk => host'[l] = host[l]
    BY <1>3, <2>1 DEF Converge, Alone, TypeOK
  <2>3. \A c \in Callers : call[c].pc \notin Settling
    BY <2>1 DEF Alone, Rest, Calls
  <2>4. \A c \in Callers : Calls(c)'
    BY <1>1, <1>2, <2>1, <2>3 DEF Alone, Rest, Calls, At, Settling, Written
  <2> QED
    BY <1>1, <1>2, <2>1, <2>2, <2>4 DEF Alone, Rest, Units, Process, Kept, Forgotten
<1>4. CASE Job \/ DaemonCrash
  <2>1. host' = host /\ unit # Down
    BY <1>4 DEF Job, DaemonCrash, Down
  <2>2. \A c \in Callers : Calls(c)'
    BY <1>1, <1>2, <2>1 DEF Alone, Rest, Calls, At, Settling, Written
  <2>3. Units'
    BY <1>1, <1>2, <1>4, <2>1 DEF Job, DaemonCrash, Alone, Rest, Units, Process, Active, Pending, Down
  <2>4. Kept'
    <3> SUFFICES ASSUME applied # None, dropin # None \/ applied = Shipped
                 PROVE  unit' \in {Active(applied), Pending}
      BY <1>1, <1>2 DEF Kept, Alone, Rest
    <3>1. unit \in {Active(applied), Pending} /\ conf = applied
      BY DEF Alone, Rest, Kept
    <3>2. unit.state # "deactivating"
      BY <3>1 DEF Active, Pending
    <3> QED
      BY <1>4, <3>1, <3>2 DEF Job, DaemonCrash
  <2> QED
    BY <1>1, <1>2, <2>1, <2>2, <2>3, <2>4 DEF Alone, Rest, Forgotten
<1>5. CASE Edit \/ UNCHANGED vars
  <2>1. host' = host /\ unit' = unit
    BY <1>5 DEF Edit, vars, systemd
  <2>2. \A c \in Callers : Calls(c)'
    BY <1>1, <1>2, <2>1 DEF Alone, Rest, Calls, At
  <2> QED
    BY <1>1, <1>2, <2>1, <2>2 DEF Alone, Rest, Units, Process, Kept, Forgotten
<1> QED
  BY <1>3, <1>4, <1>5

LEMMA RestBoot ==
    ASSUME Alone, Boot
    PROVE  (Solo /\ Rest)'
<1>1. UNCHANGED <<host, dropin, installed, enabled, applied, lost>> /\ OnDisk' = OnDisk
  BY DEF Boot, disk, history, OnDisk
<1>2. Solo' /\ \A c \in Callers : Calls(c)'
  BY DEF Boot, Solo, Calls, At, Ended, Settling, Written
<1>3. Units'
  BY <1>1 DEF Boot, Units, Process, Active, Down, Loadable
<1>4. Kept'
  BY <1>1 DEF Boot, Alone, Rest, Kept, Loadable
<1> QED
  BY <1>1, <1>2, <1>3, <1>4 DEF Alone, Rest, Forgotten

\* Whether two Applies were under way at once is never forgotten.
LEMMA ClashStays ==
    ASSUME [Next]_vars, ~clash'
    PROVE  ~clash
BY DEF Next, Apply, Ask, StopUnit, Destroy, WriteDropIn, EnsureUnit, Reload, Enable, Killed, Begin,
       Job, DaemonCrash, Boot, Converge, Edit, vars, history

LEMMA InvNext ==
    ASSUME IInv, [Next]_vars
    PROVE  IInv'
<1>1. TypeOK'
  BY TypeNext DEF IInv
<1> SUFFICES ASSUME ~clash' PROVE (Solo /\ Rest)'
  BY <1>1 DEF IInv
<1>2. Alone
  BY ClashStays DEF IInv, Alone
<1>3. ASSUME NEW c \in Callers, Apply(c) PROVE (Solo /\ Rest)'
  BY <1>2, <1>3, RestAsk, RestStop, RestDestroy, RestWrite, RestUnit, RestEnable DEF Apply
<1>4. ASSUME NEW c \in Callers, Killed(c) PROVE (Solo /\ Rest)'
  <2>1. Units' /\ Forgotten' /\ ~At(c, "idle")
    BY <1>2, <1>4 DEF Killed, Alone, Rest, Units, Forgotten, Process, OnDisk, disk, systemd
  <2> QED
    BY <1>2, <1>4, <2>1, RestFails DEF Killed, Fails, Rest
<1> QED
  BY <1>2, <1>3, <1>4, RestBegin, RestAround, RestBoot DEF Next

LEMMA Inductive == Spec => []IInv
<1>1. Init => IInv
  BY TypeInit, RestInit DEF IInv
<1>2. IInv /\ [Next]_vars => IInv'
  BY InvNext
<1> QED
  BY <1>1, <1>2, PTL DEF Spec

-----------------------------------------------------------------------------
\* As long as no two Applies overlap, Status calls no lab active that the daemon
\* does not run, whatever failed before; but to a user without a drop-in whose
\* default lab is not root's (systemdDaemonController.Status).
THEOREM StatusIsTrue == Spec => []StatusTruth
<1>1. IInv => StatusTruth
  BY DEF IInv, Rest, Units, Process, StatusTruth, OnDisk, Configured, Misread
<1> QED
  BY <1>1, Inductive, PTL

\* As long as no two Applies overlap, the lab of an Apply that returned nil on a
\* true status runs until the next Apply, across crashes and reboots
\* (systemdDaemonController.Apply).
THEOREM WhatIsAppliedRuns == Spec => []AppliedRuns
<1>1. IInv => AppliedRuns
  BY DEF IInv, Rest, Kept, AppliedRuns
<1> QED
  BY <1>1, Inductive, PTL

\* Such an Apply leaves nothing of any other lab but what could not be known
\* any more (destroyPreviousLab before writeDropIn).
THEOREM OthersAreGone == Spec => []NothingLeft
<1>1. IInv => NothingLeft
  BY DEF IInv, Rest, Kept, Forgotten, NothingLeft
<1> QED
  BY <1>1, Inductive, PTL
=============================================================================
