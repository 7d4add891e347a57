--------------------------- MODULE LabEditsProofs ---------------------------
(***************************************************************************)
(* Proofs about LabSession, for whatever an edit does to the lab and        *)
(* whatever Validate and Normalize are, as long as a normalised lab is not  *)
(* changed by normalising it again; then about LabEdits and what asks for   *)
(* its edits: whatever is typed and chosen, and whenever another handler,   *)
(* editor or crash comes in between, the lab is changed by transactions of  *)
(* LabSession only.  Then about the labs themselves: every edit makes a lab *)
(* of a lab, and Normalize changes nothing that it has normalised, so that  *)
(* the assumption of the first part holds of the program.  Last about what  *)
(* a lab says: an edit changes what it names and nothing else, one lemma    *)
(* for each edit (those named ...Only).                                     *)
(***************************************************************************)
EXTENDS ConnectMode, TLAPS, WellFoundedInduction, FiniteSetTheorems

\* Where a transaction, or a save outside one, is under way.
Busy == {"save", "write", "rename", "reload"}

\* Sound is not inductive: what the session falls back on must be sound too,
\* the snapshot in a transaction and the lab itself outside one.
Fallback ==
  /\ snap # NoLab => Sane(snap)
  /\ phase \in Busy /\ snap = NoLab => Sane(cur)
SoundInv == Sound /\ Fallback

LEMMA SoundInit == SessionInit => SoundInv
BY DEF SessionInit, SoundInv, Sound, Fallback, Readable, Sane, Busy

LEMMA SoundStep == SoundInv /\ [SessionNext]_sessionVars => SoundInv'
<1> SUFFICES ASSUME SoundInv, [SessionNext]_sessionVars PROVE SoundInv'
  OBVIOUS
<1> USE DEF SoundInv, Sound, Fallback, Busy
<1>1. CASE Begin
  BY <1>1 DEF Begin, Sane
<1>2. CASE SaveAgain
  BY <1>2 DEF SaveAgain, Sane
<1>3. CASE CreateTemp \/ WriteTemp \/ Rename
  BY <1>3 DEF CreateTemp, WriteTemp, Rename, Sane
<1>4. CASE SaveFails
  <2>1. Sane(AfterFailedSave)
    BY <1>4 DEF SaveFails, AfterFailedSave, Readable
  <2> QED  BY <1>4, <2>1 DEF SaveFails, Sane
<1>5. CASE Reload
  BY <1>5 DEF Reload, Readable, Sane
<1>6. CASE ReloadFails
  BY <1>6 DEF ReloadFails, Sane
<1>7. CASE Finish \/ HandEdit
  BY <1>7 DEF Finish, HandEdit, Sane
<1>8. CASE Crash
  BY <1>8 DEF Crash
<1>9. CASE Open
  BY <1>9 DEF Open, Readable, Sane
<1>10. CASE UNCHANGED sessionVars
  BY <1>10 DEF sessionVars, Sane
<1> QED
  BY <1>1, <1>2, <1>3, <1>4, <1>5, <1>6, <1>7, <1>8, <1>9, <1>10 DEF SessionNext, Save

\* Between edits the session holds a lab that Validate accepts, wherever a save
\* failed and whatever another program did to the file (session.go, transaction.go).
THEOREM SessionSound == SessionSpec => []Sound
<1>1. SoundInv => Sound
  BY DEF SoundInv
<1> QED  BY SoundInit, SoundStep, <1>1, PTL DEF SessionSpec

-----------------------------------------------------------------------------
(* The file can be read at every moment of a save. *)

\* What is written may be read back: it was normalised and found valid before
\* the temporary file was made.
Written ==
  /\ phase \in {"write", "rename"} => Sane(Normal(cur))
  /\ phase = "rename" => temp = Normal(cur)
ReadsInv == FileReads /\ Written

LEMMA ReadsInit == SessionInit => ReadsInv
BY DEF SessionInit, ReadsInv, FileReads, Written

LEMMA ReadsStep ==
  ASSUME Sane(Normal(cur)) /\ phase # "down" => Normal(Normal(cur)) = Normal(cur) /\ Normal(cur) # Torn,
         ReadsInv, [SessionNext]_sessionVars
  PROVE  ReadsInv'
<1> USE DEF ReadsInv, FileReads, Written
<1>1. CASE Begin \/ SaveAgain \/ SaveFails \/ Reload \/ ReloadFails \/ Finish \/ Crash \/ Open
  <2>1. file' = file /\ phase' \notin {"write", "rename"}
    BY <1>1 DEF Begin, SaveAgain, SaveFails, Reload, ReloadFails, Finish, Crash, Open
  <2> QED  BY <2>1 DEF Readable, Sane
<1>2. CASE CreateTemp \/ WriteTemp
  BY <1>2 DEF CreateTemp, WriteTemp, Readable, Sane
<1>3. CASE Rename
  <2>1. temp = Normal(cur) /\ Sane(Normal(cur)) /\ file' = temp /\ phase' = "reload"
    BY <1>3 DEF Rename
  <2>2. Normal(Normal(cur)) = Normal(cur) /\ Normal(cur) # Torn
    BY <1>3, <2>1 DEF Rename
  <2>3. Readable(Normal(cur))
    BY <2>1, <2>2 DEF Readable
  <2> QED  BY <2>1, <2>3 DEF Readable, Sane
<1>4. CASE HandEdit
  BY <1>4 DEF HandEdit, Sane
<1>5. CASE UNCHANGED sessionVars
  BY <1>5 DEF sessionVars, Readable, Sane
<1> QED
  BY <1>1, <1>2, <1>3, <1>4, <1>5 DEF SessionNext, Save

\* At every moment of a save the lab file can be read, by the daemon too,
\* unless another program spoilt it (SaveFile writes beside it and renames).
THEOREM SessionFileReads ==
  ASSUME \A l : Sane(Normal(l)) => Normal(Normal(l)) = Normal(l) /\ Normal(l) # Torn
  PROVE  SessionSpec => []FileReads
<1>1. ReadsInv /\ [SessionNext]_sessionVars => ReadsInv'
  BY ReadsStep
<1>2. ReadsInv => FileReads
  BY DEF ReadsInv
<1> QED  BY ReadsInit, <1>1, <1>2, PTL DEF SessionSpec

-----------------------------------------------------------------------------
(* An edit is done whole or not at all. *)

\* Until the rename the file is the one the edit began with, and the snapshot
\* is the lab that it began with.
Remembers ==
  /\ was = [file |-> was.file, cur |-> was.cur]
  /\ phase \in {"save", "write", "rename"} => was.file = file
  /\ phase \in Busy /\ snap # NoLab => was.cur = snap

LEMMA RemembersInit == SessionInit => Remembers
BY DEF SessionInit, Remembers, Busy

LEMMA RemembersStep == Remembers /\ [SessionNext]_sessionVars => Remembers'
<1> SUFFICES ASSUME Remembers, [SessionNext]_sessionVars PROVE Remembers'
  OBVIOUS
<1> USE DEF Remembers, Busy
<1>1. CASE Begin \/ SaveAgain \/ Finish \/ Crash \/ Open
  BY <1>1 DEF Begin, SaveAgain, Finish, Crash, Open
<1>2. CASE Save
  BY <1>2 DEF Save, CreateTemp, WriteTemp, Rename, SaveFails, Reload, ReloadFails
<1>3. CASE HandEdit
  BY <1>3 DEF HandEdit
<1>4. CASE UNCHANGED sessionVars
  BY <1>4 DEF sessionVars
<1> QED  BY <1>1, <1>2, <1>3, <1>4 DEF SessionNext

\* An edit that fails takes back everything, and one that succeeds is what the
\* file holds (beginLabMutation, Commit and Rollback).
THEOREM SessionAllOrNothing == SessionSpec => AllOrNothing
<1> DEFINE Whole ==
      phase # "done" /\ phase' = "done" =>
        /\ result' = "ok" => cur' = Normal(file')
        /\ result' = "refused" => file' = was.file /\ (snap # NoLab => cur' = was.cur)
        /\ result' = "unread" /\ snap # NoLab => cur' = was.cur
<1>1. Remembers /\ [SessionNext]_sessionVars => [Whole]_sessionVars
  <2> SUFFICES ASSUME Remembers, SessionNext, phase # "done", phase' = "done" PROVE Whole
    BY DEF sessionVars
  <2>1. CASE SaveFails
    BY <2>1 DEF SaveFails, AfterFailedSave, Remembers, Busy
  <2>2. CASE Reload
    BY <2>2 DEF Reload
  <2>3. CASE ReloadFails
    BY <2>3 DEF ReloadFails, Remembers, Busy
  <2> QED
    BY <2>1, <2>2, <2>3
       DEF SessionNext, Save, Begin, SaveAgain, CreateTemp, WriteTemp, Rename, Finish, Crash, Open, HandEdit
<1> QED  BY RemembersInit, RemembersStep, <1>1, PTL DEF SessionSpec, AllOrNothing

-----------------------------------------------------------------------------
(* Every edit is a transaction. *)

\* One edit begins.
Edits == Begin /\ events' = events + 1

\* Each handler is one transaction (beginLabMutation is the only way to the lab).
LEMMA WorkloadEdits ==
  ASSUME NEW kind, NEW ref, NEW new, NEW path, NEW sw, NEW ext, NEW mac, NEW state, NEW c, NEW on
  PROVE  /\ CreateWorkload(kind, ref, path, sw, ext, mac) => Edits
         /\ CreateDHCP(ref, sw) => Edits
         /\ UpdateWorkload(kind, ref, new, path, sw, ext, mac) => Edits
         /\ DeleteWorkload(kind, ref) => Edits
         /\ SetDesired(kind, ref, state) => Edits
         /\ SetCapability(ref, c, on) => Edits
<1>1. CreateWorkload(kind, ref, path, sw, ext, mac) => Edits
  BY DEF CreateWorkload, Apply, Edits
<1>2. CreateDHCP(ref, sw) => Edits
  BY DEF CreateDHCP, Apply, Edits
<1>3. UpdateWorkload(kind, ref, new, path, sw, ext, mac) => Edits
  BY DEF UpdateWorkload, Apply, Edits
<1>4. DeleteWorkload(kind, ref) => Edits
  BY DEF DeleteWorkload, Apply, Edits
<1>5. SetDesired(kind, ref, state) => Edits
  BY DEF SetDesired, Apply, Edits
<1>6. SetCapability(ref, c, on) => Edits
  BY DEF SetCapability, Apply, Edits
<1> QED  BY <1>1, <1>2, <1>3, <1>4, <1>5, <1>6

LEMMA NetworkEdits ==
  ASSUME NEW ref, NEW new, NEW mode, NEW ext
  PROVE  /\ CreateSwitch(ref, mode, ext) => Edits
         /\ UpdateSwitch(ref, new, mode, ext) => Edits
         /\ SwitchDisconnectExternal(ref, ext) => Edits
         /\ SwitchDelete(ref) => Edits
         /\ CreateExternal(ref, mode) => Edits
         /\ UpdateExternal(ref, new, mode) => Edits
         /\ ExternalDelete(ref) => Edits
<1>1. CreateSwitch(ref, mode, ext) => Edits
  BY DEF CreateSwitch, Apply, Edits
<1>2. UpdateSwitch(ref, new, mode, ext) => Edits
  BY DEF UpdateSwitch, Apply, Edits
<1>3. SwitchDisconnectExternal(ref, ext) => Edits
  BY DEF SwitchDisconnectExternal, Apply, Edits
<1>4. SwitchDelete(ref) => Edits
  BY DEF SwitchDelete, Apply, Edits
<1>5. CreateExternal(ref, mode) => Edits
  BY DEF CreateExternal, Apply, Edits
<1>6. UpdateExternal(ref, new, mode) => Edits
  BY DEF UpdateExternal, Apply, Edits
<1>7. ExternalDelete(ref) => Edits
  BY DEF ExternalDelete, Apply, Edits
<1> QED  BY <1>1, <1>2, <1>3, <1>4, <1>5, <1>6, <1>7

LEMMA InterfaceEdits ==
  ASSUME NEW kind, NEW ref, NEW i, NEW to, NEW toKind, NEW j, NEW mac
  PROVE  /\ AddNIC(kind, ref, mac) => Edits
         /\ ConnectNIC(kind, ref, i, to, toKind, mac) => Edits
         /\ DeleteNIC(kind, ref, i) => Edits
         /\ ConnectDirectNIC(kind, ref, i, toKind, to, j) => Edits
         /\ ConnectDirectFirst(kind, ref, i, toKind, to) => Edits
         /\ DisconnectNIC(kind, ref, i) => Edits
<1>1. AddNIC(kind, ref, mac) => Edits
  BY DEF AddNIC, Apply, Edits
<1>2. ConnectNIC(kind, ref, i, to, toKind, mac) => Edits
  BY DEF ConnectNIC, Apply, Edits
<1>3. DeleteNIC(kind, ref, i) => Edits
  BY DEF DeleteNIC, Apply, Edits
<1>4. ConnectDirectNIC(kind, ref, i, toKind, to, j) => Edits
  BY DEF ConnectDirectNIC, Apply, Edits
<1>5. ConnectDirectFirst(kind, ref, i, toKind, to) => Edits
  BY DEF ConnectDirectFirst, Apply, Edits
<1>6. DisconnectNIC(kind, ref, i) => Edits
  BY DEF DisconnectNIC, Apply, Edits
<1> QED  BY <1>1, <1>2, <1>3, <1>4, <1>5, <1>6

\* What a command or a menu asks for is one of those edits.
LEMMA CommandsEdit == ExecuteCommand \/ ChooseItem => Edits
<1>1. ExecuteVMCommand => Edits
  BY WorkloadEdits, InterfaceEdits
     DEF ExecuteVMCommand, VMCreate, VMSet, CreateVM, UpdateVM, VMDesiredState, VMDelete, AddVMNIC, ConnectVMNIC, DeleteVMNIC
<1>2. ExecuteContainerCommand => Edits
  BY WorkloadEdits, InterfaceEdits
     DEF ExecuteContainerCommand, ContainerCreate, ContainerSet, CreateContainer, UpdateContainer,
         ContainerDesiredState, ContainerDelete, AddContainerNIC, ConnectContainerNIC, DeleteContainerNIC
<1>3. ExecuteAddCommand => Edits
  BY WorkloadEdits DEF ExecuteAddCommand
<1>4. ExecuteSwitchCommand \/ ExecuteExternalCommand => Edits
  BY NetworkEdits DEF ExecuteSwitchCommand, ExecuteExternalCommand
<1>5. ExecuteLinkCommand => Edits
  BY InterfaceEdits DEF ExecuteLinkCommand, ExecuteLinkAddCommand, ExecuteLinkDeleteCommand
<1>6. ChooseItem => Edits
  BY WorkloadEdits, NetworkEdits DEF ChooseItem, TakeUplink, TogglePermission, SaveActiveMove, Apply, Edits
<1> QED  BY <1>1, <1>2, <1>3, <1>4, <1>5, <1>6 DEF ExecuteCommand

\* A choice of the connect mode is one edit or none.
LEMMA ConnectsEdit == Connects => Edits \/ UNCHANGED sessionVars
<1>1. ASSUME NEW kind, NEW id, NEW i, StartConnectNICIndex(kind, id, i) PROVE Edits \/ UNCHANGED sessionVars
  BY <1>1, InterfaceEdits DEF StartConnectNICIndex, vars
<1>2. ASSUME NEW kind, NEW id, StartConnectEndpoint(kind, id) PROVE UNCHANGED sessionVars
  BY <1>2 DEF StartConnectEndpoint, vars
<1>3. ASSUME NEW n, ConnectSelectedEndpoint(n) PROVE Edits \/ UNCHANGED sessionVars
  BY <1>3, InterfaceEdits, NetworkEdits DEF ConnectSelectedEndpoint, EndsWith, ConnectSwitchExternal, vars
<1>4. ASSUME NEW f, Joins(f) PROVE Edits \/ UNCHANGED sessionVars
  BY <1>4, InterfaceEdits DEF Joins, EndsWith, vars
<1>5. ConnectSelectedTargetNIC \/ JoinNewNIC => Edits \/ UNCHANGED sessionVars
  BY <1>4 DEF ConnectSelectedTargetNIC, JoinNewNIC, vars
<1>6. NewNIC => Edits
  BY InterfaceEdits DEF NewNIC
<1>7. Escape \/ OpenPalette => UNCHANGED sessionVars
  BY DEF Escape, OpenPalette, vars
<1> QED  BY <1>1, <1>2, <1>3, <1>5, <1>6, <1>7 DEF Connects

\* Commands, menus and the connect mode implement the session: none of them
\* reaches the lab but by a transaction, so SessionSound, SessionFileReads and
\* SessionAllOrNothing hold of every edit, of any number, on any lab.
THEOREM EditsSession == ModeSpec => SessionSpec
<1>1. ModeInit => SessionInit
  BY DEF ModeInit, Init
<1>2. [ModeNext]_allVars => [SessionNext]_sessionVars
  <2> SUFFICES ASSUME [ModeNext]_allVars PROVE [SessionNext]_sessionVars
    OBVIOUS
  <2>1. CASE Connects
    BY <2>1, ConnectsEdit DEF SessionNext, Edits
  <2>2. CASE OtherEdit
    BY <2>2, CommandsEdit DEF OtherEdit, Edit, Edits, SessionNext
  <2>3. CASE Answered \/ Mishaps \/ Saving
    BY <2>3 DEF Answered, Mishaps, Mishap, Saving, SessionNext, Save
  <2>4. CASE UNCHANGED allVars
    BY <2>4 DEF allVars, vars
  <2> QED  BY <2>1, <2>2, <2>3, <2>4 DEF ModeNext
<1> QED  BY <1>1, <1>2, PTL DEF ModeSpec, SessionSpec

\* Induction on the numbers, for a set of them.
LEMMA LeastOf ==
  ASSUME NEW T, T \subseteq Nat, T # {}
  PROVE  \E x \in T : \A y \in T : ~(y < x)
<1>1. \E x \in T : \A y \in T : ~(<<y, x>> \in OpToRel(<, Nat))
  BY WFMin, NatLessThanWellFounded
<1> QED  BY <1>1 DEF OpToRel

LEMMA SetInduction ==
  ASSUME NEW S, 0 \in S, \A n \in Nat : n \in S => n + 1 \in S
  PROVE  \A n \in Nat : n \in S
<1>1. CASE Nat \ S # {}
  <2>1. PICK x \in Nat \ S : \A y \in Nat \ S : ~(y < x)
    BY <1>1, LeastOf
  <2>2. x # 0 /\ x - 1 \in Nat /\ x - 1 \in S
    BY <2>1
  <2> QED  BY <2>2, <2>1
<1> QED  BY <1>1

\* A sequence, of whatever it holds.
IsSeq(s) == s \in Seq({s[i] : i \in DOMAIN s})

LEMMA SeqIs ==
  ASSUME NEW s, IsSeq(s)
  PROVE  Len(s) \in Nat /\ DOMAIN s = 1..Len(s) /\ s = [i \in 1..Len(s) |-> s[i]]
BY DEF IsSeq

LEMMA IsSeqOf == ASSUME NEW X, NEW s \in Seq(X) PROVE IsSeq(s)
BY DEF IsSeq

LEMMA IsSeqFcn == ASSUME NEW n \in Nat, NEW s, DOMAIN s = 1..n, s = [i \in 1..n |-> s[i]] PROVE IsSeq(s) /\ Len(s) = n
<1> DEFINE X == {s[i] : i \in DOMAIN s}
<1>1. s \in [1..n -> X]
  OBVIOUS
<1> QED BY <1>1 DEF IsSeq

LEMMA SameFcn ==
  ASSUME NEW f, NEW g, DOMAIN f = DOMAIN g, f = [i \in DOMAIN f |-> f[i]], g = [i \in DOMAIN g |-> g[i]],
         \A i \in DOMAIN f : f[i] = g[i]
  PROVE  f = g
<1>1. [i \in DOMAIN f |-> f[i]] = [i \in DOMAIN f |-> g[i]]
  OBVIOUS
<1>2. [i \in DOMAIN f |-> g[i]] = [i \in DOMAIN g |-> g[i]]
  OBVIOUS
<1> QED BY <1>1, <1>2

\* How Picked goes on from one place to the next.
PickStep(f, i, s, at) == IF i = 0 THEN <<>> ELSE IF i \in at THEN Append(f[i - 1], s[i]) ELSE f[i - 1]
Picks(f, n, s, at) == f = [i \in 0..n |-> PickStep(f, i, s, at)]

LEMMA PickedUpTo ==
  ASSUME NEW s, NEW at, Len(s) \in Nat
  PROVE  \E f : Picks(f, Len(s), s, at) /\ Picked(s, at) = f[Len(s)]
<1> DEFINE S == {n \in Nat : \E f : Picks(f, n, s, at)}
<1>1. 0 \in S
  <2> DEFINE f == [i \in 0..0 |-> <<>>]
  <2>1. f = [i \in 0..0 |-> PickStep(f, i, s, at)]
    BY DEF PickStep
  <2> HIDE DEF f
  <2> QED  BY <2>1 DEF Picks
<1>2. ASSUME NEW n \in Nat, n \in S PROVE n + 1 \in S
  <2>1. PICK f : f = [i \in 0..n |-> PickStep(f, i, s, at)]
    BY <1>2 DEF Picks
  <2> DEFINE g == [i \in 0..(n + 1) |-> IF i <= n THEN f[i] ELSE IF i \in at THEN Append(f[n], s[i]) ELSE f[n]]
  <2>2. ASSUME NEW i \in 0..(n + 1) PROVE g[i] = PickStep(g, i, s, at)
    <3>1. CASE i = n + 1
      BY <3>1 DEF PickStep
    <3>2. CASE i <= n
      <4>1. g[i] = f[i] /\ f[i] = PickStep(f, i, s, at)
        BY <2>1, <3>2
      <4>2. i # 0 => g[i - 1] = f[i - 1]
        BY <3>2
      <4> QED  BY <4>1, <4>2 DEF PickStep
    <3> QED  BY <3>1, <3>2
  <2>3. g = [i \in 0..(n + 1) |-> PickStep(g, i, s, at)]
    <3> DEFINE h == [i \in 0..(n + 1) |-> PickStep(g, i, s, at)]
    <3>1. DOMAIN g = DOMAIN h /\ g = [i \in DOMAIN g |-> g[i]] /\ h = [i \in DOMAIN h |-> h[i]]
      OBVIOUS
    <3>2. \A i \in DOMAIN g : g[i] = h[i]
      BY <2>2
    <3>3. g = h
      <4> HIDE DEF g, h
      <4> QED  BY <3>1, <3>2, SameFcn
    <3> QED  BY <3>3 DEF h
  <2>4. Picks(g, n + 1, s, at)
    <3> HIDE DEF g
    <3> QED  BY <2>3 DEF Picks
  <2> HIDE DEF g
  <2> QED  BY <2>4
<1>3. Len(s) \in S
  <2> HIDE DEF S
  <2> QED BY <1>1, <1>2, SetInduction
<1>4. PICK f : f = [i \in 0..Len(s) |-> PickStep(f, i, s, at)]
  BY <1>3 DEF Picks
<1> DEFINE u == CHOOSE g : g = [i \in 0..Len(s) |-> PickStep(g, i, s, at)]
<1>5. u = [i \in 0..Len(s) |-> PickStep(u, i, s, at)]
  BY <1>4
<1>6. Picked(s, at) = u[Len(s)]
  BY DEF Picked, PickStep
<1> HIDE DEF u
<1> QED  BY <1>5, <1>6 DEF Picks

LEMMA AppendIs ==
  ASSUME NEW n \in Nat, NEW q, DOMAIN q = 1..n, q = [k \in 1..n |-> q[k]], NEW e
  PROVE  Append(q, e) = [k \in 1..(n + 1) |-> IF k <= n THEN q[k] ELSE e]
<1> DEFINE X == {q[k] : k \in DOMAIN q} \union {e}
<1>1. q \in [1..n -> X] /\ e \in X
  OBVIOUS
<1> HIDE DEF X
<1>2. q \in Seq(X) /\ Len(q) = n
  BY <1>1
<1> QED  BY <1>1, <1>2

\* The places that Picked takes, up to one, in their order.
PicksAt(q, s, at, n, h) ==
  /\ n \in Nat /\ h \in [1..n -> at]
  /\ q = [k \in 1..n |-> s[h[k]]]
  /\ \A j, k \in 1..n : j < k => h[j] < h[k]
  /\ \A i \in at : \E k \in 1..n : h[k] = i

LEMMA PickNext ==
  ASSUME NEW s, NEW at, NEW i \in Nat, i + 1 \notin at, at \subseteq 1..i, NEW n, NEW h, NEW q, PicksAt(q, s, at, n, h)
  PROVE  \E m, g : PicksAt(Append(q, s[i + 1]), s, at \union {i + 1}, m, g)
<1> DEFINE g == [k \in 1..(n + 1) |-> IF k <= n THEN h[k] ELSE i + 1]
<1>1. n \in Nat /\ h \in [1..n -> at] /\ DOMAIN q = 1..n /\ q = [k \in 1..n |-> q[k]]
  BY DEF PicksAt
<1>2. g \in [1..(n + 1) -> at \union {i + 1}]
  BY <1>1
<1>3. \A k \in 1..n : g[k] = h[k] /\ g[k] \in 1..i
  BY <1>1
<1>4. g[n + 1] = i + 1
  BY <1>1
<1>5. Append(q, s[i + 1]) = [k \in 1..(n + 1) |-> s[g[k]]]
  <2>1. Append(q, s[i + 1]) = [k \in 1..(n + 1) |-> IF k <= n THEN q[k] ELSE s[i + 1]]
    BY <1>1, AppendIs
  <2>2. \A k \in 1..(n + 1) : (IF k <= n THEN q[k] ELSE s[i + 1]) = s[g[k]]
    <3>1. \A k \in 1..n : q[k] = s[h[k]]
      BY <1>1 DEF PicksAt
    <3> QED  BY <1>1, <1>3, <1>4, <3>1
  <2> HIDE DEF g
  <2> QED  BY <2>1, <2>2
<1> HIDE DEF g
<1>6. ASSUME NEW j \in 1..(n + 1), NEW k \in 1..(n + 1), j < k PROVE g[j] < g[k]
  <2>1. j \in 1..n /\ (k \in 1..n \/ k = n + 1)
    BY <1>1, <1>6
  <2>2. CASE k \in 1..n
    BY <1>3, <1>6, <2>1, <2>2 DEF PicksAt
  <2>3. CASE k = n + 1
    BY <1>3, <1>4, <2>1, <2>3
  <2> QED  BY <2>1, <2>2, <2>3
<1>7. ASSUME NEW j \in at \union {i + 1} PROVE \E k \in 1..(n + 1) : g[k] = j
  <2>1. CASE j \in at
    <3>1. PICK k \in 1..n : h[k] = j
      BY <2>1 DEF PicksAt
    <3> QED  BY <1>1, <1>3, <3>1
  <2>2. CASE j = i + 1
    BY <1>1, <1>4, <2>2
  <2> QED  BY <2>1, <2>2
<1>8. n + 1 \in Nat
  BY <1>1
<1>9. PicksAt(Append(q, s[i + 1]), s, at \union {i + 1}, n + 1, g)
  BY <1>2, <1>5, <1>6, <1>7, <1>8 DEF PicksAt
<1> QED  BY <1>9

PicksUpTo(f, s, at, i) == \E n, h : PicksAt(f[i], s, at \intersect 1..i, n, h)

LEMMA PickedIs ==
  ASSUME NEW s, IsSeq(s), NEW at, at \subseteq DOMAIN s
  PROVE  \E n, h : PicksAt(Picked(s, at), s, at, n, h)
<1>1. Len(s) \in Nat /\ DOMAIN s = 1..Len(s)
  BY SeqIs
<1>2. PICK f : Picks(f, Len(s), s, at) /\ Picked(s, at) = f[Len(s)]
  BY <1>1, PickedUpTo
<1> DEFINE S == {i \in Nat : i <= Len(s) => PicksUpTo(f, s, at, i)}
<1>3. \A i \in 0..Len(s) : f[i] = PickStep(f, i, s, at)
  BY <1>2 DEF Picks
<1>4. 0 \in S
  <2>1. f[0] = <<>>
    BY <1>1, <1>3 DEF PickStep
  <2> DEFINE h == [k \in 1..0 |-> 0]
  <2>2. PicksAt(f[0], s, at \intersect 1..0, 0, h)
    BY <2>1 DEF PicksAt
  <2> HIDE DEF h
  <2> QED  BY <2>2 DEF PicksUpTo
<1>5. ASSUME NEW i \in Nat, i \in S PROVE i + 1 \in S
  <2> SUFFICES ASSUME i + 1 <= Len(s) PROVE PicksUpTo(f, s, at, i + 1)
    OBVIOUS
  <2>1. PICK n, h : PicksAt(f[i], s, at \intersect 1..i, n, h)
    <3>1. PicksUpTo(f, s, at, i)
      BY <1>1, <1>5
    <3> QED  BY <3>1 DEF PicksUpTo
  <2>2. f[i + 1] = IF i + 1 \in at THEN Append(f[i], s[i + 1]) ELSE f[i]
    <3>1. i + 1 \in 0..Len(s) /\ i + 1 # 0 /\ (i + 1) - 1 = i
      BY <1>1
    <3> QED  BY <1>3, <3>1 DEF PickStep
  <2>3. CASE i + 1 \in at
    <3>1. at \intersect 1..(i + 1) = (at \intersect 1..i) \union {i + 1}
      BY <1>1, <2>3
    <3>2. i + 1 \notin at \intersect 1..i /\ at \intersect 1..i \subseteq 1..i
      OBVIOUS
    <3>3. \E m, g : PicksAt(Append(f[i], s[i + 1]), s, (at \intersect 1..i) \union {i + 1}, m, g)
      BY <2>1, <3>2, PickNext
    <3> QED  BY <2>2, <2>3, <3>1, <3>3 DEF PicksUpTo
  <2>4. CASE i + 1 \notin at
    <3>1. at \intersect 1..(i + 1) = at \intersect 1..i
      BY <1>1, <2>4
    <3> QED  BY <2>1, <2>2, <2>4, <3>1 DEF PicksUpTo
  <2> QED  BY <2>3, <2>4
<1>6. Len(s) \in S
  <2> HIDE DEF S
  <2> QED  BY <1>1, <1>4, <1>5, SetInduction
<1>7. at \intersect 1..Len(s) = at
  BY <1>1
<1>8. PicksUpTo(f, s, at, Len(s))
  BY <1>1, <1>6
<1> QED  BY <1>2, <1>7, <1>8 DEF PicksUpTo

LEMMA AmongIs ==
  ASSUME NEW s, IsSeq(s), NEW S
  PROVE  /\ IsSeq(Among(s, S))
         /\ \A x : x \in ToSet(Among(s, S)) <=> x \in ToSet(s) /\ x \in S
<1> DEFINE at == {i \in DOMAIN s : s[i] \in S}
<1>1. PICK n, h : PicksAt(Picked(s, at), s, at, n, h)
  BY PickedIs
<1>2. Among(s, S) = Picked(s, at)
  BY DEF Among
<1> DEFINE q == Picked(s, at)
<1> HIDE DEF q
<1>3. n \in Nat /\ h \in [1..n -> at] /\ q = [k \in 1..n |-> s[h[k]]] /\ \A i \in at : \E k \in 1..n : h[k] = i
  BY <1>1 DEF PicksAt, q
<1>4. DOMAIN q = 1..n /\ (\A k \in 1..n : q[k] = s[h[k]] /\ h[k] \in at) /\ q = [k \in 1..n |-> q[k]]
  BY <1>3
<1>5. IsSeq(q)
  BY <1>3, <1>4, IsSeqFcn
<1>6. ASSUME NEW x PROVE x \in ToSet(q) <=> x \in ToSet(s) /\ x \in S
  BY <1>3, <1>4 DEF ToSet
<1> QED  BY <1>2, <1>5, <1>6 DEF q

\* No member twice.
Once(s) == \A i, j \in DOMAIN s : s[i] = s[j] => i = j

LEMMA FirstPlace ==
  ASSUME NEW s, IsSeq(s), NEW i \in DOMAIN s
  PROVE  \E k \in DOMAIN s : s[k] = s[i] /\ \A j \in 1..(k - 1) : s[j] # s[k]
<1>1. Len(s) \in Nat /\ DOMAIN s = 1..Len(s)
  BY SeqIs
<1> DEFINE T == {k \in DOMAIN s : s[k] = s[i]}
<1>2. PICK k \in T : \A j \in T : ~(j < k)
  <2>1. T \subseteq Nat /\ T # {}
    BY <1>1
  <2> HIDE DEF T
  <2> QED  BY <2>1, LeastOf
<1>3. ASSUME NEW j \in 1..(k - 1) PROVE s[j] # s[k]
  BY <1>1, <1>2, <1>3
<1> QED  BY <1>2, <1>3

LEMMA DistinctIs ==
  ASSUME NEW s, IsSeq(s)
  PROVE  /\ IsSeq(Distinct(s)) /\ Once(Distinct(s))
         /\ \A x : x \in ToSet(Distinct(s)) <=> x \in ToSet(s)
<1> DEFINE at == {i \in DOMAIN s : \A j \in 1..(i - 1) : s[j] # s[i]}
<1>1. PICK n, h : PicksAt(Picked(s, at), s, at, n, h)
  BY PickedIs
<1>2. Distinct(s) = Picked(s, at)
  BY DEF Distinct
<1> DEFINE q == Picked(s, at)
<1> HIDE DEF q
<1>3. n \in Nat /\ h \in [1..n -> at] /\ q = [k \in 1..n |-> s[h[k]]] /\ \A i \in at : \E k \in 1..n : h[k] = i
  BY <1>1 DEF PicksAt, q
<1>4. DOMAIN q = 1..n /\ (\A k \in 1..n : q[k] = s[h[k]] /\ h[k] \in at) /\ q = [k \in 1..n |-> q[k]]
  BY <1>3
<1>5. IsSeq(q)
  BY <1>3, <1>4, IsSeqFcn
<1>6. ASSUME NEW x PROVE x \in ToSet(q) <=> x \in ToSet(s)
  <2>1. ASSUME NEW i \in DOMAIN s PROVE \E k \in 1..n : q[k] = s[i]
    <3>1. PICK k \in at : s[k] = s[i]
      BY FirstPlace
    <3> QED  BY <1>3, <1>4, <3>1
  <2> QED  BY <1>4, <2>1 DEF ToSet
<1>7. ASSUME NEW j \in 1..n, NEW k \in 1..n, j < k PROVE q[j] # q[k]
  <2>1. h[j] < h[k] /\ h[j] \in DOMAIN s /\ h[k] \in DOMAIN s /\ h[k] \in at
    BY <1>1, <1>3, <1>7 DEF PicksAt
  <2>2. Len(s) \in Nat /\ DOMAIN s = 1..Len(s)
    BY SeqIs
  <2>3. h[j] \in 1..(h[k] - 1)
    BY <2>1, <2>2
  <2> QED  BY <1>4, <2>1, <2>3
<1>8. Once(q)
  BY <1>3, <1>4, <1>7 DEF Once
<1> QED  BY <1>2, <1>5, <1>6, <1>8 DEF q

LEMMA PickedAll ==
  ASSUME NEW s, IsSeq(s)
  PROVE  Picked(s, DOMAIN s) = s
<1>1. Len(s) \in Nat /\ DOMAIN s = 1..Len(s) /\ s = [i \in 1..Len(s) |-> s[i]]
  BY SeqIs
<1>2. PICK f : Picks(f, Len(s), s, DOMAIN s) /\ Picked(s, DOMAIN s) = f[Len(s)]
  BY <1>1, PickedUpTo
<1>3. \A i \in 0..Len(s) : f[i] = PickStep(f, i, s, DOMAIN s)
  BY <1>2 DEF Picks
<1> DEFINE S == {i \in Nat : i <= Len(s) => f[i] = [k \in 1..i |-> s[k]]}
<1>4. 0 \in S
  <2>1. f[0] = <<>>
    BY <1>1, <1>3 DEF PickStep
  <2> QED  BY <2>1
<1>5. ASSUME NEW i \in Nat, i \in S PROVE i + 1 \in S
  <2> SUFFICES ASSUME i + 1 <= Len(s) PROVE f[i + 1] = [k \in 1..(i + 1) |-> s[k]]
    OBVIOUS
  <2> DEFINE q == [k \in 1..i |-> s[k]]
  <2>1. f[i] = q
    BY <1>1, <1>5
  <2>2. f[i + 1] = Append(f[i], s[i + 1])
    <3>1. i + 1 \in 0..Len(s) /\ i + 1 # 0 /\ (i + 1) - 1 = i /\ i + 1 \in DOMAIN s
      BY <1>1
    <3> QED  BY <1>3, <3>1 DEF PickStep
  <2>3. DOMAIN q = 1..i /\ q = [k \in 1..i |-> q[k]] /\ \A k \in 1..i : q[k] = s[k]
    OBVIOUS
  <2> HIDE DEF q
  <2>4. Append(q, s[i + 1]) = [k \in 1..(i + 1) |-> IF k <= i THEN q[k] ELSE s[i + 1]]
    BY <2>3, AppendIs
  <2>5. \A k \in 1..(i + 1) : (IF k <= i THEN q[k] ELSE s[i + 1]) = s[k]
    BY <2>3
  <2> QED  BY <2>1, <2>2, <2>4, <2>5
<1>6. Len(s) \in S
  <2> HIDE DEF S
  <2> QED  BY <1>1, <1>4, <1>5, SetInduction
<1> QED  BY <1>1, <1>2, <1>6

LEMMA DistinctOnce ==
  ASSUME NEW s, IsSeq(s), Once(s)
  PROVE  Distinct(s) = s
<1>1. Len(s) \in Nat /\ DOMAIN s = 1..Len(s)
  BY SeqIs
<1>2. {i \in DOMAIN s : \A j \in 1..(i - 1) : s[j] # s[i]} = DOMAIN s
  BY <1>1 DEF Once
<1> QED  BY <1>2, PickedAll DEF Distinct

-----------------------------------------------------------------------------
(* What an edit makes of a lab is a lab. *)

\* A lab as it is read from a file, as far as Normalize and the edits go by it.
IsNode(n) ==
  /\ n = [id |-> n.id, name |-> n.name, kind |-> n.kind, mode |-> n.mode, uplinks |-> n.uplinks, legacy |-> n.legacy,
          nics |-> n.nics, dhcp |-> n.dhcp, desired |-> n.desired, caps |-> n.caps, disk |-> n.disk]
  /\ IsSeq(n.uplinks)
AreNodes(nodes) == IsSeq(nodes) /\ \A i \in DOMAIN nodes : IsNode(nodes[i])
LabLike(l) ==
  l = [nodes |-> l.nodes, links |-> l.links, placed |-> l.placed, drawn |-> l.drawn, disks |-> l.disks]
IsLab(l) == LabLike(l) /\ AreNodes(l.nodes)

\* Nodes and labs that are changed in some of their parts.
LEMMA Named == ASSUME NEW n, IsNode(n), NEW x PROVE IsNode([n EXCEPT !.name = x])
BY DEF IsNode

LEMMA NodeChanged ==
  ASSUME NEW n, IsNode(n), NEW x, NEW y
  PROVE  /\ IsNode([n EXCEPT !.id = x, !.name = y]) /\ IsNode([n EXCEPT !.name = x])
         /\ IsNode([n EXCEPT !.disk = x, !.nics = y]) /\ IsNode([n EXCEPT !.nics = x])
         /\ IsNode([n EXCEPT !.desired = x]) /\ IsNode([n EXCEPT !.caps = x])
         /\ IsNode([n EXCEPT !.mode = x])
<1>1. IsSeq(n.uplinks)
  BY DEF IsNode
<1>2. n = [id |-> n.id, name |-> n.name, kind |-> n.kind, mode |-> n.mode, uplinks |-> n.uplinks, legacy |-> n.legacy,
          nics |-> n.nics, dhcp |-> n.dhcp, desired |-> n.desired, caps |-> n.caps, disk |-> n.disk]
  BY DEF IsNode
<1> HIDE DEF IsSeq
<1>3. IsNode([n EXCEPT !.id = x, !.name = y])
  <2>1. [n EXCEPT !.id = x, !.name = y] = [[n EXCEPT !.id = x] EXCEPT !.name = y]
    BY <1>2
  <2>2. IsNode([n EXCEPT !.id = x])
    BY <1>1, <1>2 DEF IsNode
  <2> QED  BY <2>1, <2>2, Named
<1>4. IsNode([n EXCEPT !.name = x])
  BY <1>1, <1>2 DEF IsNode
<1>5. IsNode([n EXCEPT !.disk = x, !.nics = y])
  <2>1. [n EXCEPT !.disk = x, !.nics = y] = [[n EXCEPT !.disk = x] EXCEPT !.nics = y]
    BY <1>2
  <2>2. IsNode([n EXCEPT !.disk = x])
    BY <1>1, <1>2 DEF IsNode
  <2>3. ASSUME NEW m, IsNode(m) PROVE IsNode([m EXCEPT !.nics = y])
    BY <2>3 DEF IsNode
  <2> QED  BY <2>1, <2>2, <2>3
<1>6. IsNode([n EXCEPT !.nics = x])
  BY <1>1, <1>2 DEF IsNode
<1>7. IsNode([n EXCEPT !.desired = x])
  BY <1>1, <1>2 DEF IsNode
<1>8. IsNode([n EXCEPT !.caps = x])
  BY <1>1, <1>2 DEF IsNode
<1>9. IsNode([n EXCEPT !.mode = x])
  BY <1>1, <1>2 DEF IsNode
<1> QED  BY <1>3, <1>4, <1>5, <1>6, <1>7, <1>8, <1>9

LEMMA NodeMade ==
  ASSUME NEW n, IsNode(n), NEW x, NEW y, NEW z
  PROVE  /\ IsNode([n EXCEPT !.nics = x, !.dhcp = y, !.desired = z])
         /\ IsSeq(y) => IsNode([n EXCEPT !.mode = x, !.uplinks = y])
         /\ IsSeq(y) => IsNode([n EXCEPT !.mode = x, !.uplinks = y, !.legacy = z])
         /\ IsSeq(y) => IsNode([n EXCEPT !.uplinks = y, !.legacy = z, !.mode = x])
<1> DEFINE a == [n EXCEPT !.nics = x]
           b == [a EXCEPT !.dhcp = y]
           c == [n EXCEPT !.mode = x]
           d == [c EXCEPT !.uplinks = y]
           e == [n EXCEPT !.uplinks = y]
           f == [e EXCEPT !.legacy = z]
<1>1. IsNode(a) /\ IsNode(c)
  BY NodeChanged
<1>2. ASSUME NEW m, IsNode(m)
      PROVE  /\ IsNode([m EXCEPT !.dhcp = y]) /\ IsNode([m EXCEPT !.desired = z]) /\ IsNode([m EXCEPT !.legacy = z])
             /\ IsNode([m EXCEPT !.mode = x])
             /\ IsSeq(y) => IsNode([m EXCEPT !.uplinks = y])
  <2> HIDE DEF IsSeq
  <2>1. IsNode([m EXCEPT !.dhcp = y])
    BY <1>2 DEF IsNode
  <2>2. IsNode([m EXCEPT !.desired = z])
    BY <1>2 DEF IsNode
  <2>3. IsNode([m EXCEPT !.legacy = z])
    BY <1>2 DEF IsNode
  <2>4. IsNode([m EXCEPT !.mode = x])
    BY <1>2 DEF IsNode
  <2>5. IsSeq(y) => IsNode([m EXCEPT !.uplinks = y])
    BY <1>2 DEF IsNode
  <2> QED  BY <2>1, <2>2, <2>3, <2>4, <2>5
<1>3. IsNode([n EXCEPT !.nics = x, !.dhcp = y, !.desired = z])
  <2>1. [n EXCEPT !.nics = x, !.dhcp = y, !.desired = z] = [b EXCEPT !.desired = z]
    OBVIOUS
  <2>2. IsNode(b)
    <3> HIDE DEF a
    <3> QED  BY <1>1, <1>2
  <2> HIDE DEF b
  <2> QED  BY <1>2, <2>1, <2>2
<1>4. IsSeq(y) => IsNode(d) /\ IsNode(e) /\ IsNode(f)
  <2>1. IsSeq(y) => IsNode(d) /\ IsNode(e)
    <3> HIDE DEF c
    <3> QED  BY <1>1, <1>2
  <2> HIDE DEF e
  <2> QED  BY <1>2, <2>1
<1>5. IsSeq(y) => IsNode([n EXCEPT !.mode = x, !.uplinks = y])
  <2>1. [n EXCEPT !.mode = x, !.uplinks = y] = d
    OBVIOUS
  <2> QED  BY <1>4, <2>1
<1>6. IsSeq(y) => IsNode([n EXCEPT !.mode = x, !.uplinks = y, !.legacy = z])
  <2>1. [n EXCEPT !.mode = x, !.uplinks = y, !.legacy = z] = [d EXCEPT !.legacy = z]
    OBVIOUS
  <2> HIDE DEF d
  <2> QED  BY <1>2, <1>4, <2>1
<1>7. IsSeq(y) => IsNode([n EXCEPT !.uplinks = y, !.legacy = z, !.mode = x])
  <2>1. [n EXCEPT !.uplinks = y, !.legacy = z, !.mode = x] = [f EXCEPT !.mode = x]
    OBVIOUS
  <2> HIDE DEF f
  <2> QED  BY <1>2, <1>4, <2>1
<1> QED  BY <1>3, <1>5, <1>6, <1>7

LEMMA NodesMapped ==
  ASSUME NEW nodes, AreNodes(nodes), NEW new, DOMAIN new = DOMAIN nodes, new = [i \in DOMAIN new |-> new[i]],
         \A i \in DOMAIN nodes : IsNode(nodes[i]) => IsNode(new[i])
  PROVE  AreNodes(new)
<1>1. Len(nodes) \in Nat /\ DOMAIN nodes = 1..Len(nodes)
  BY SeqIs DEF AreNodes
<1>2. IsSeq(new)
  BY <1>1, IsSeqFcn
<1> QED  BY <1>2 DEF AreNodes

LEMMA NodesAmong ==
  ASSUME NEW nodes, AreNodes(nodes), NEW S
  PROVE  AreNodes(Among(nodes, S))
<1>1. IsSeq(Among(nodes, S)) /\ \A x \in ToSet(Among(nodes, S)) : x \in ToSet(nodes)
  BY AmongIs DEF AreNodes
<1> QED  BY <1>1 DEF AreNodes, ToSet

LEMMA NodesAppend ==
  ASSUME NEW nodes, AreNodes(nodes), NEW n, IsNode(n)
  PROVE  AreNodes(Append(nodes, n))
<1>1. Len(nodes) \in Nat /\ DOMAIN nodes = 1..Len(nodes) /\ nodes = [i \in 1..Len(nodes) |-> nodes[i]]
  BY SeqIs DEF AreNodes
<1> DEFINE new == [i \in 1..(Len(nodes) + 1) |-> IF i <= Len(nodes) THEN nodes[i] ELSE n]
<1>2. Append(nodes, n) = new
  BY <1>1, AppendIs
<1>3. IsSeq(new)
  BY <1>1, IsSeqFcn
<1>4. \A i \in DOMAIN new : IsNode(new[i])
  BY <1>1 DEF AreNodes
<1> HIDE DEF new
<1> QED  BY <1>2, <1>3, <1>4 DEF AreNodes

LEMMA NodeIsNode == ASSUME NEW id, NEW kind PROVE IsNode(Node(id, kind))
<1>1. IsSeq(<<>>)
  BY DEF IsSeq
<1> QED  BY <1>1 DEF Node, IsNode

LEMMA AddedLab ==
  ASSUME NEW l, IsLab(l), NEW n, IsNode(n)
  PROVE  IsLab(Added(l, n))
<1> DEFINE nodes == Append(l.nodes, n)
           placed == l.placed \union {n.id}
<1>1. Added(l, n) = [l EXCEPT !.nodes = nodes, !.placed = placed]
  BY DEF Added
<1>2. AreNodes(nodes)
  BY NodesAppend DEF IsLab
<1> HIDE DEF nodes, placed
<1> QED  BY <1>1, <1>2 DEF IsLab, LabLike

LEMMA DroppedLab ==
  ASSUME NEW l, IsLab(l), NEW kind, NEW id
  PROVE  IsLab(Dropped(l, kind, id))
<1> DEFINE S == {n \in ToSet(l.nodes) : n.kind # kind \/ n.id # id}
           drawn == {link \in l.drawn : [kind |-> kind, id |-> id] \notin Ends(link)}
<1>1. Dropped(l, kind, id) = [l EXCEPT !.nodes = Among(l.nodes, S), !.placed = l.placed \ {id}, !.drawn = drawn]
  BY DEF Dropped, IsLab, LabLike
<1> HIDE DEF S, drawn
<1>2. LabLike(Dropped(l, kind, id)) /\ Dropped(l, kind, id).nodes = Among(l.nodes, S)
  BY <1>1 DEF IsLab, LabLike
<1>3. AreNodes(Among(l.nodes, S))
  BY NodesAmong DEF IsLab
<1> QED  BY <1>2, <1>3 DEF IsLab

LEMMA LinklessLab ==
  ASSUME NEW l, IsLab(l), NEW kind, NEW id, NEW e
  PROVE  IsLab(WithoutNodeLinks(l, kind, id)) /\ IsLab(WithoutEndLinks(l, e))
<1> DEFINE some == Among(l.links, {link \in ToSet(l.links) : \A f \in Ends(link) : ~(f.kind = kind /\ f.id = id)})
           others == Among(l.links, {link \in ToSet(l.links) : \A f \in Ends(link) : ~(f = e)})
<1>1. WithoutNodeLinks(l, kind, id) = [l EXCEPT !.links = some]
  BY DEF WithoutNodeLinks, WithoutLinksOf
<1>2. WithoutEndLinks(l, e) = [l EXCEPT !.links = others]
  BY DEF WithoutEndLinks, WithoutLinksOf
<1> HIDE DEF some, others
<1> QED  BY <1>1, <1>2 DEF IsLab, LabLike

\* The helpers that change nodes where they are.
LEMMA MappedLab ==
  ASSUME NEW l, IsLab(l), NEW m, NEW nodes, m = [l EXCEPT !.nodes = nodes],
         DOMAIN nodes = DOMAIN l.nodes, nodes = [i \in DOMAIN nodes |-> nodes[i]],
         \A i \in DOMAIN l.nodes : IsNode(l.nodes[i]) => IsNode(nodes[i])
  PROVE  IsLab(m)
<1>1. AreNodes(nodes)
  BY NodesMapped DEF IsLab
<1> QED  BY <1>1 DEF IsLab, LabLike

LEMMA RewrittenIsNode ==
  ASSUME NEW n, IsNode(n), NEW kind, NEW old, NEW new
  PROVE  IsNode(RewrittenNode(n, kind, old, new))
<1>1. CASE kind = "switch"
  <2> DEFINE nics == [i \in DOMAIN n.nics |-> [n.nics[i] EXCEPT !.sw = Subst(n.nics[i].sw, old, new)]]
  <2>1. RewrittenNode(n, kind, old, new) = [n EXCEPT !.nics = nics]
    BY <1>1 DEF RewrittenNode, OnNICs
  <2> HIDE DEF nics
  <2> QED  BY <2>1 DEF IsNode
<1>2. CASE kind = "external"
  <2> DEFINE nics == [i \in DOMAIN n.nics |-> [n.nics[i] EXCEPT !.ext = Subst(n.nics[i].ext, old, new)]]
             m == [n EXCEPT !.nics = nics]
             uplinks == [i \in DOMAIN n.uplinks |-> Subst(n.uplinks[i], old, new)]
             legacy == Subst(n.legacy, old, new)
  <2>1. IsNode(m) /\ m.uplinks = n.uplinks /\ m.legacy = n.legacy
    <3> HIDE DEF nics
    <3> QED  BY DEF IsNode
  <2>2. RewrittenNode(n, kind, old, new) = [m EXCEPT !.uplinks = uplinks, !.legacy = legacy]
    <3>1. OnNICs(n, LAMBDA nic : [nic EXCEPT !.ext = Subst(@, old, new)]) = m
      BY DEF OnNICs
    <3> HIDE DEF m
    <3> QED  BY <1>2, <2>1, <3>1 DEF RewrittenNode
  <2>3. IsSeq(uplinks)
    <3>1. Len(n.uplinks) \in Nat /\ DOMAIN n.uplinks = 1..Len(n.uplinks)
      BY SeqIs DEF IsNode
    <3> QED  BY <3>1, IsSeqFcn
  <2> HIDE DEF m, uplinks, legacy
  <2> QED  BY <2>1, <2>2, <2>3 DEF IsNode
<1>3. CASE kind \notin {"switch", "external"}
  BY <1>3 DEF RewrittenNode
<1> QED  BY <1>1, <1>2, <1>3

LEMMA RewrittenLab ==
  ASSUME NEW l, IsLab(l), NEW kind, NEW old, NEW new
  PROVE  IsLab(RewriteReferences(l, kind, old, new))
<1> DEFINE nodes == [i \in DOMAIN l.nodes |-> RewrittenNode(l.nodes[i], kind, old, new)]
           placed == {Subst(id, old, new) : id \in l.placed}
           drawn == {RewrittenLink(link, kind, old, new) : link \in l.drawn}
           links == [i \in DOMAIN l.links |-> RewrittenLink(l.links[i], kind, old, new)]
           disks == {[d EXCEPT !.at = RewrittenEnd(d.at, kind, old, new)] : d \in l.disks}
<1>1. RewriteReferences(l, kind, old, new) =
        [l EXCEPT !.nodes = nodes, !.placed = placed, !.drawn = drawn, !.links = links, !.disks = disks]
  BY DEF RewriteReferences
<1>2. AreNodes(nodes)
  <2>1. \A i \in DOMAIN l.nodes : IsNode(l.nodes[i]) => IsNode(nodes[i])
    BY RewrittenIsNode
  <2>2. DOMAIN nodes = DOMAIN l.nodes /\ nodes = [i \in DOMAIN nodes |-> nodes[i]]
    OBVIOUS
  <2> HIDE DEF nodes
  <2> QED  BY <2>1, <2>2, NodesMapped DEF IsLab
<1> HIDE DEF nodes, placed, drawn, links, disks
<1> QED  BY <1>1, <1>2 DEF IsLab, LabLike

LEMMA RenamedLab ==
  ASSUME NEW l, IsLab(l), NEW kind, NEW old, NEW new
  PROVE  IsLab(Renamed(l, kind, old, new))
<1>1. CASE new = None
  BY <1>1 DEF Renamed
<1>2. CASE new # None /\ old = new
  <2> DEFINE nodes == [i \in DOMAIN l.nodes |->
                         IF l.nodes[i].kind = kind /\ l.nodes[i].id = old
                         THEN [l.nodes[i] EXCEPT !.name = IF l.nodes[i].name = old THEN None ELSE l.nodes[i].name] ELSE l.nodes[i]]
  <2>1. Renamed(l, kind, old, new) = [l EXCEPT !.nodes = nodes]
    BY <1>2 DEF Renamed, RenameNode, OnNode, OnNodes
  <2>2. \A i \in DOMAIN l.nodes : IsNode(l.nodes[i]) => IsNode(nodes[i])
    BY NodeChanged
  <2>3. DOMAIN nodes = DOMAIN l.nodes /\ nodes = [i \in DOMAIN nodes |-> nodes[i]]
    OBVIOUS
  <2> HIDE DEF nodes
  <2> QED  BY <2>1, <2>2, <2>3, MappedLab
<1>3. CASE new # None /\ old # new
  <2> DEFINE nodes == [i \in DOMAIN l.nodes |->
                         IF l.nodes[i].kind = kind /\ l.nodes[i].id = old
                         THEN [l.nodes[i] EXCEPT !.id = new, !.name = None] ELSE l.nodes[i]]
             m == [l EXCEPT !.nodes = nodes]
             r == RewriteReferences(m, kind, old, new)
  <2>1. Renamed(l, kind, old, new) = r
    BY <1>3 DEF Renamed, RenameNode, OnNode, OnNodes
  <2>2. IsLab(m)
    <3>1. \A i \in DOMAIN l.nodes : IsNode(l.nodes[i]) => IsNode(nodes[i])
      BY NodeChanged
    <3>2. DOMAIN nodes = DOMAIN l.nodes /\ nodes = [i \in DOMAIN nodes |-> nodes[i]]
      OBVIOUS
    <3> HIDE DEF nodes
    <3> QED  BY <3>1, <3>2, MappedLab
  <2>4. IsLab(r)
    <3> HIDE DEF m
    <3> QED  BY <2>2, RewrittenLab
  <2> QED  BY <2>1, <2>4
<1> QED  BY <1>1, <1>2, <1>3

-----------------------------------------------------------------------------
(* Edit by edit: what it leaves is a lab. *)

LEMMA ResolveId ==
  ASSUME NEW l, NEW ref, NEW kind, Resolve(l, ref, {kind}) # None
  PROVE  /\ NodeOf(l, kind, Resolve(l, ref, {kind})) \in ToSet(l.nodes)
         /\ NodeOf(l, kind, Resolve(l, ref, {kind})).kind = kind
         /\ NodeOf(l, kind, Resolve(l, ref, {kind})).id = Resolve(l, ref, {kind})
<1> DEFINE of(field) == {n \in ToSet(l.nodes) : n.kind \in {kind} /\ n[field] = ref}
           found == IF of("id") # {} THEN of("id") ELSE of("name")
<1>1. Resolve(l, ref, {kind}) = IF Cardinality(found) = 1 THEN (CHOOSE n \in found : TRUE).id ELSE None
  BY DEF Resolve
<1>2. Cardinality(found) = 1
  BY <1>1
<1>3. found # {}
  <2> HIDE DEF found
  <2> QED  BY <1>2, FS_EmptySet
<1>4. \A n \in found : n \in ToSet(l.nodes) /\ n.kind = kind
  OBVIOUS
<1> HIDE DEF found
<1>5. PICK n \in found : Resolve(l, ref, {kind}) = n.id
  BY <1>1, <1>2, <1>3
<1>6. n \in ToSet(l.nodes) /\ n.kind = kind /\ n.id = Resolve(l, ref, {kind})
  BY <1>4, <1>5
<1> QED  BY <1>6 DEF NodeOf

LEMMA NodeInLab == ASSUME NEW l, IsLab(l), NEW n \in ToSet(l.nodes) PROVE IsNode(n)
BY DEF IsLab, AreNodes, ToSet

LEMMA UplinksSeq ==
  ASSUME NEW n, IsNode(n)
  PROVE  IsSeq(SwitchUplinks(n)) /\ Once(SwitchUplinks(n))
<1> DEFINE s == n.uplinks \o (IF n.legacy = None THEN <<>> ELSE <<n.legacy>>)
<1>1. IsSeq(s)
  <2> DEFINE X == {n.uplinks[i] : i \in DOMAIN n.uplinks} \union {n.legacy}
  <2>1. n.uplinks \in Seq(X)
    BY DEF IsNode, IsSeq
  <2>2. (IF n.legacy = None THEN <<>> ELSE <<n.legacy>>) \in Seq(X)
    <3>1. n.legacy \in X
      OBVIOUS
    <3> HIDE DEF X
    <3>2. <<>> \in Seq(X) /\ <<n.legacy>> \in Seq(X)
      BY <3>1
    <3> QED  BY <3>2
  <2>3. s \in Seq(X)
    <3> HIDE DEF X
    <3> QED  BY <2>1, <2>2
  <2> HIDE DEF s, X
  <2> QED  BY <2>3, IsSeqOf
<1> HIDE DEF s
<1>2. IsSeq(Distinct(s)) /\ Once(Distinct(s))
  BY <1>1, DistinctIs
<1> QED  BY <1>2 DEF SwitchUplinks, s

LEMMA WithUplinksIsNode ==
  ASSUME NEW n, IsNode(n), NEW uplinks, IsSeq(uplinks)
  PROVE  IsNode(WithUplinks(n, uplinks))
<1> DEFINE mode == IF uplinks = <<>> /\ n.mode = "macnat-bridge" THEN "bridge" ELSE n.mode
<1>1. WithUplinks(n, uplinks) = [n EXCEPT !.uplinks = uplinks, !.legacy = None, !.mode = mode]
  BY DEF WithUplinks
<1> HIDE DEF mode, IsSeq
<1> QED  BY <1>1 DEF IsNode

LEMMA UnpluggedLab ==
  ASSUME NEW l, IsLab(l), NEW field, NEW id
  PROVE  IsLab(Unplugged(l, field, id))
<1> DEFINE nics(n) == [i \in DOMAIN n.nics |-> [n.nics[i] EXCEPT ![field] = Subst(n.nics[i][field], id, None)]]
           nodes == [i \in DOMAIN l.nodes |-> [l.nodes[i] EXCEPT !.nics = nics(l.nodes[i])]]
<1>1. Unplugged(l, field, id) = [l EXCEPT !.nodes = nodes]
  BY DEF Unplugged, OnNodes, OnNICs
<1>2. ASSUME NEW n, IsNode(n), NEW x PROVE IsNode([n EXCEPT !.nics = x])
  BY <1>2 DEF IsNode
<1>3. \A i \in DOMAIN l.nodes : IsNode(l.nodes[i]) => IsNode(nodes[i])
  BY <1>2
<1>4. DOMAIN nodes = DOMAIN l.nodes /\ nodes = [i \in DOMAIN nodes |-> nodes[i]]
  OBVIOUS
<1> HIDE DEF nodes
<1> QED  BY <1>1, <1>3, <1>4, MappedLab

LEMMA CreateLab ==
  ASSUME IsLab(cur), NEW kind, NEW id, NEW path, NEW sw, NEW ext, NEW mac, NEW mode
  PROVE  /\ CreateWorkload(kind, id, path, sw, ext, mac) => IsLab(cur')
         /\ CreateDHCP(id, sw) => IsLab(cur')
         /\ CreateSwitch(id, mode, ext) => IsLab(cur')
         /\ CreateExternal(id, mode) => IsLab(cur')
<1>1. IsNode(Node(id, kind)) /\ IsNode(Node(id, "container")) /\ IsNode(Node(id, "switch")) /\ IsNode(Node(id, "external"))
  BY NodeIsNode
<1>2. ASSUME CreateWorkload(kind, id, path, sw, ext, mac) PROVE IsLab(cur')
  <2>1. PICK nics : cur' = Added(cur, [Node(id, kind) EXCEPT !.disk = path, !.nics = nics])
    BY <1>2 DEF CreateWorkload, Apply
  <2>2. IsNode([Node(id, kind) EXCEPT !.disk = path, !.nics = nics])
    BY <1>1, NodeChanged
  <2> QED  BY <2>1, <2>2, AddedLab
<1>3. ASSUME CreateDHCP(id, sw) PROVE IsLab(cur')
  <2>1. PICK nics : cur' = Added(cur, [Node(id, "container") EXCEPT !.nics = nics, !.dhcp = TRUE, !.desired = "running"])
    BY <1>3 DEF CreateDHCP, Apply
  <2>2. IsNode([Node(id, "container") EXCEPT !.nics = nics, !.dhcp = TRUE, !.desired = "running"])
    BY <1>1, NodeMade
  <2> QED  BY <2>1, <2>2, AddedLab
<1>4. ASSUME CreateSwitch(id, mode, ext) PROVE IsLab(cur')
  <2> DEFINE uplinks == IF ext = None THEN <<>> ELSE <<Asked(ext, "external")>>
  <2>1. cur' = Added(cur, [Node(id, "switch") EXCEPT !.mode = mode, !.uplinks = uplinks])
    BY <1>4 DEF CreateSwitch, Apply
  <2>2. IsSeq(uplinks)
    <3>1. ASSUME NEW x PROVE IsSeq(<<x>>)
      BY DEF IsSeq
    <3>2. IsSeq(<<>>)
      BY DEF IsSeq
    <3> QED  BY <3>1, <3>2
  <2> HIDE DEF uplinks, IsSeq
  <2>3. IsNode([Node(id, "switch") EXCEPT !.mode = mode, !.uplinks = uplinks])
    BY <1>1, <2>2, NodeMade
  <2> QED  BY <2>1, <2>3, AddedLab
<1>5. ASSUME CreateExternal(id, mode) PROVE IsLab(cur')
  <2>1. cur' = Added(cur, [Node(id, "external") EXCEPT !.mode = mode])
    BY <1>5 DEF CreateExternal, Apply
  <2>2. IsNode([Node(id, "external") EXCEPT !.mode = mode])
    BY <1>1 DEF IsNode
  <2> QED  BY <2>1, <2>2, AddedLab
<1> QED  BY <1>2, <1>3, <1>4, <1>5

LEMMA UpdateWorkloadLab ==
  ASSUME IsLab(cur), NEW kind, NEW ref, NEW new, NEW path, NEW swRef, NEW extRef, NEW mac,
         UpdateWorkload(kind, ref, new, path, swRef, extRef, mac)
  PROVE  IsLab(cur')
<1> DEFINE id == Resolve(cur, ref, {kind})
           sw == Asked(swRef, "switch")
           ext == Asked(extRef, "external")
           to == IF new = None THEN id ELSE new
           netted == sw # None \/ ext # None
           l1 == Renamed(cur, kind, id, new)
           l2 == IF netted THEN WithoutNodeLinks(l1, kind, to) ELSE l1
           set(n) == [n EXCEPT !.disk = IF path = None THEN @ ELSE path, !.nics = WithNetwork(@, sw, ext, mac)]
<1>1. cur' = OnNode(l2, kind, to, set)
  BY DEF UpdateWorkload, Apply
<1>2. IsLab(l2)
  <2>1. IsLab(l1)
    BY RenamedLab
  <2> HIDE DEF l1
  <2> QED  BY <2>1, LinklessLab
<1> HIDE DEF l1, l2, sw, ext, to
<1> DEFINE nodes == [i \in DOMAIN l2.nodes |->
                       IF l2.nodes[i].kind = kind /\ l2.nodes[i].id = to THEN set(l2.nodes[i]) ELSE l2.nodes[i]]
<1>3. cur' = [l2 EXCEPT !.nodes = nodes]
  BY <1>1 DEF OnNode, OnNodes
<1>4. ASSUME NEW n, IsNode(n) PROVE IsNode(set(n))
  <2> DEFINE nics == WithNetwork(n.nics, sw, ext, mac)
             disk == IF path = None THEN n.disk ELSE path
             m == [n EXCEPT !.disk = disk]
  <2>1. set(n) = [m EXCEPT !.nics = nics]
    OBVIOUS
  <2>2. IsNode(m)
    <3> HIDE DEF disk
    <3> QED  BY <1>4 DEF IsNode
  <2> HIDE DEF set, m, nics
  <2> QED  BY <2>1, <2>2 DEF IsNode
<1> HIDE DEF set
<1>5. \A i \in DOMAIN l2.nodes : IsNode(l2.nodes[i]) => IsNode(nodes[i])
  BY <1>4
<1>6. DOMAIN nodes = DOMAIN l2.nodes /\ nodes = [i \in DOMAIN nodes |-> nodes[i]]
  OBVIOUS
<1> HIDE DEF nodes
<1> QED  BY <1>2, <1>3, <1>5, <1>6, MappedLab

LEMMA DeleteWorkloadLab ==
  ASSUME IsLab(cur), NEW kind, NEW ref, DeleteWorkload(kind, ref)
  PROVE  IsLab(cur')
<1> DEFINE id == Resolve(cur, ref, {kind})
           l == WithoutNodeLinks(Dropped(cur, kind, id), kind, id)
           disks == DetachedFrom(l.disks, [kind |-> kind, id |-> id])
<1>1. cur' = [l EXCEPT !.disks = disks]
  BY DEF DeleteWorkload, Apply
<1>2. IsLab(l)
  BY DroppedLab, LinklessLab
<1> HIDE DEF l, disks
<1> QED  BY <1>1, <1>2 DEF IsLab, LabLike

LEMMA SetWorkloadLab ==
  ASSUME IsLab(cur), NEW kind, NEW ref, NEW state, NEW c, NEW on
  PROVE  /\ SetDesired(kind, ref, state) => IsLab(cur')
         /\ SetCapability(ref, c, on) => IsLab(cur')
<1>1. ASSUME SetDesired(kind, ref, state) PROVE IsLab(cur')
  <2> DEFINE id == Resolve(cur, ref, {kind})
             nodes == [i \in DOMAIN cur.nodes |->
                         IF cur.nodes[i].kind = kind /\ cur.nodes[i].id = id
                         THEN [cur.nodes[i] EXCEPT !.desired = state] ELSE cur.nodes[i]]
  <2>1. cur' = [cur EXCEPT !.nodes = nodes]
    BY <1>1 DEF SetDesired, Apply, OnNode, OnNodes
  <2>2. ASSUME NEW n, IsNode(n) PROVE IsNode([n EXCEPT !.desired = state])
    BY <2>2 DEF IsNode
  <2>3. \A i \in DOMAIN cur.nodes : IsNode(cur.nodes[i]) => IsNode(nodes[i])
    BY <2>2
  <2>4. DOMAIN nodes = DOMAIN cur.nodes /\ nodes = [i \in DOMAIN nodes |-> nodes[i]]
    OBVIOUS
  <2> HIDE DEF nodes
  <2> QED  BY <2>1, <2>3, <2>4, MappedLab
<1>2. ASSUME SetCapability(ref, c, on) PROVE IsLab(cur')
  <2> DEFINE id == Resolve(cur, ref, {"container"})
             nodes == [i \in DOMAIN cur.nodes |->
                         IF cur.nodes[i].kind = "container" /\ cur.nodes[i].id = id THEN WithCap(cur.nodes[i], c, on) ELSE cur.nodes[i]]
  <2>1. cur' = [cur EXCEPT !.nodes = nodes]
    BY <1>2 DEF SetCapability, Apply, OnNode, OnNodes
  <2>2. ASSUME NEW n, IsNode(n) PROVE IsNode(WithCap(n, c, on))
    <3> DEFINE caps == [add  |-> (n.caps.add \ {c}) \union (IF on /\ c \notin DefaultCaps THEN {c} ELSE {}),
                        drop |-> (n.caps.drop \ {c}) \union (IF ~on /\ c \in DefaultCaps THEN {c} ELSE {})]
    <3>1. WithCap(n, c, on) = [n EXCEPT !.caps = caps]
      BY DEF WithCap
    <3> HIDE DEF caps
    <3> QED  BY <2>2, <3>1 DEF IsNode
  <2>3. \A i \in DOMAIN cur.nodes : IsNode(cur.nodes[i]) => IsNode(nodes[i])
    BY <2>2
  <2>4. DOMAIN nodes = DOMAIN cur.nodes /\ nodes = [i \in DOMAIN nodes |-> nodes[i]]
    OBVIOUS
  <2> HIDE DEF nodes
  <2> QED  BY <2>1, <2>3, <2>4, MappedLab
<1> QED  BY <1>1, <1>2

LEMMA UpdateSwitchLab ==
  ASSUME IsLab(cur), NEW ref, Resolve(cur, ref, {"switch"}) # None, NEW new, NEW mode, NEW extRef,
         UpdateSwitch(ref, new, mode, extRef)
  PROVE  IsLab(cur')
<1> DEFINE id == Resolve(cur, ref, {"switch"})
           n == NodeOf(cur, "switch", id)
           uplinks == IF extRef = None THEN SwitchUplinks(n)
                      ELSE Distinct(Append(SwitchUplinks(n), Asked(extRef, "external")))
           to == IF new = None THEN id ELSE new
           m == IF mode = None THEN n.mode ELSE mode
           l == Renamed(cur, "switch", id, new)
           set(s) == [s EXCEPT !.mode = m, !.uplinks = IF extRef = None THEN @ ELSE uplinks,
                               !.legacy = IF extRef = None THEN @ ELSE None]
           nodes == [i \in DOMAIN l.nodes |->
                       IF l.nodes[i].kind = "switch" /\ l.nodes[i].id = to THEN set(l.nodes[i]) ELSE l.nodes[i]]
<1>1. cur' = [l EXCEPT !.nodes = nodes]
  BY DEF UpdateSwitch, Apply, OnNode, OnNodes
<1>2. IsLab(l)
  BY RenamedLab
<1>3. IsSeq(uplinks)
  <2>1. IsNode(n)
    BY ResolveId, NodeInLab
  <2>2. IsSeq(SwitchUplinks(n))
    <3> HIDE DEF n
    <3> QED  BY <2>1, UplinksSeq
  <2>3. IsSeq(Append(SwitchUplinks(n), Asked(extRef, "external")))
    <3> DEFINE s == SwitchUplinks(n)
               x == Asked(extRef, "external")
               X == {s[i] : i \in DOMAIN s} \union {x}
    <3>1. s \in Seq(X) /\ x \in X
      BY <2>2 DEF IsSeq
    <3> HIDE DEF s, x, X
    <3>2. Append(s, x) \in Seq(X)
      BY <3>1
    <3>3. IsSeq(Append(s, x))
      BY <3>2, IsSeqOf
    <3> QED  BY <3>3 DEF s, x
  <2> HIDE DEF n
  <2> QED  BY <2>2, <2>3, DistinctIs
<1> HIDE DEF uplinks, m, l, id, to
<1>4. ASSUME NEW s, IsNode(s) PROVE IsNode(set(s))
  <2> DEFINE ups == IF extRef = None THEN s.uplinks ELSE uplinks
             old == IF extRef = None THEN s.legacy ELSE None
             a == [s EXCEPT !.mode = m]
             b == [a EXCEPT !.uplinks = ups]
  <2>1. set(s) = [b EXCEPT !.legacy = old]
    OBVIOUS
  <2>2. IsNode(b)
    <3>1. IsSeq(ups)
      BY <1>3, <1>4 DEF IsNode
    <3>2. IsNode(a)
      BY <1>4 DEF IsNode
    <3> HIDE DEF a, ups
    <3> QED  BY <3>1, <3>2 DEF IsNode
  <2> HIDE DEF set, b, old
  <2> QED  BY <2>1, <2>2 DEF IsNode
<1> HIDE DEF set
<1>5. \A i \in DOMAIN l.nodes : IsNode(l.nodes[i]) => IsNode(nodes[i])
  BY <1>4
<1>6. DOMAIN nodes = DOMAIN l.nodes /\ nodes = [i \in DOMAIN nodes |-> nodes[i]]
  OBVIOUS
<1> HIDE DEF nodes
<1> QED  BY <1>1, <1>2, <1>5, <1>6, MappedLab

LEMMA SwitchLab ==
  ASSUME IsLab(cur), NEW ref, Resolve(cur, ref, {"switch"}) # None, NEW extRef
  PROVE  /\ SwitchDisconnectExternal(ref, extRef) => IsLab(cur')
         /\ SwitchDelete(ref) => IsLab(cur')
<1>1. ASSUME SwitchDisconnectExternal(ref, extRef) PROVE IsLab(cur')
  <2> DEFINE id == Resolve(cur, ref, {"switch"})
             uplinks == SwitchUplinks(NodeOf(cur, "switch", id))
             ext == Asked(extRef, "external")
             gone == IF extRef = None THEN ToSet(uplinks) ELSE {ext}
             left == Among(uplinks, ToSet(uplinks) \ gone)
             nodes == [i \in DOMAIN cur.nodes |->
                         IF cur.nodes[i].kind = "switch" /\ cur.nodes[i].id = id
                         THEN WithUplinks(cur.nodes[i], left) ELSE cur.nodes[i]]
  <2>1. cur' = [cur EXCEPT !.nodes = nodes]
    BY <1>1 DEF SwitchDisconnectExternal, Apply, OnNode, OnNodes
  <2>2. IsSeq(left)
    <3>1. IsSeq(uplinks)
      <4> DEFINE n == NodeOf(cur, "switch", id)
      <4>1. IsNode(n)
        BY ResolveId, NodeInLab
      <4> HIDE DEF n
      <4> QED  BY <4>1, UplinksSeq DEF n
    <3> HIDE DEF uplinks, gone
    <3> QED  BY <3>1, AmongIs
  <2> HIDE DEF left
  <2>3. \A i \in DOMAIN cur.nodes : IsNode(cur.nodes[i]) => IsNode(nodes[i])
    BY <2>2, WithUplinksIsNode
  <2>4. DOMAIN nodes = DOMAIN cur.nodes /\ nodes = [i \in DOMAIN nodes |-> nodes[i]]
    OBVIOUS
  <2> HIDE DEF nodes
  <2> QED  BY <2>1, <2>3, <2>4, MappedLab
<1>2. ASSUME SwitchDelete(ref) PROVE IsLab(cur')
  <2> DEFINE id == Resolve(cur, ref, {"switch"})
             l == Dropped(cur, "switch", id)
  <2>1. cur' = Unplugged(l, "sw", id)
    BY <1>2 DEF SwitchDelete, Apply
  <2>2. IsLab(l)
    BY DroppedLab
  <2> HIDE DEF l
  <2> QED  BY <2>1, <2>2, UnpluggedLab
<1> QED  BY <1>1, <1>2

LEMMA ExternalLab ==
  ASSUME IsLab(cur), NEW ref, NEW new, NEW mode
  PROVE  /\ UpdateExternal(ref, new, mode) => IsLab(cur')
         /\ ExternalDelete(ref) => IsLab(cur')
<1> DEFINE id == Resolve(cur, ref, {"external"})
<1>1. ASSUME UpdateExternal(ref, new, mode) PROVE IsLab(cur')
  <2> DEFINE to == IF new = None THEN id ELSE new
             l == Renamed(cur, "external", id, new)
             modeOf(n) == IF mode = None THEN n.mode ELSE mode
             set(n) == [n EXCEPT !.mode = modeOf(n)]
             nodes == [i \in DOMAIN l.nodes |->
                         IF l.nodes[i].kind = "external" /\ l.nodes[i].id = to THEN set(l.nodes[i]) ELSE l.nodes[i]]
  <2>1. cur' = [l EXCEPT !.nodes = nodes]
    BY <1>1 DEF UpdateExternal, Apply, OnNode, OnNodes
  <2>2. IsLab(l)
    BY RenamedLab
  <2>3. ASSUME NEW n, IsNode(n) PROVE IsNode(set(n))
    <3> HIDE DEF modeOf
    <3> QED  BY <2>3 DEF IsNode
  <2> HIDE DEF l, to, set
  <2>4. \A i \in DOMAIN l.nodes : IsNode(l.nodes[i]) => IsNode(nodes[i])
    BY <2>3
  <2>5. DOMAIN nodes = DOMAIN l.nodes /\ nodes = [i \in DOMAIN nodes |-> nodes[i]]
    OBVIOUS
  <2> HIDE DEF nodes
  <2> QED  BY <2>1, <2>2, <2>4, <2>5, MappedLab
<1>2. ASSUME ExternalDelete(ref) PROVE IsLab(cur')
  <2> DEFINE l == Unplugged(Dropped(cur, "external", id), "ext", id)
             has(n) == n.kind = "switch" /\ id \in ToSet(SwitchUplinks(n))
             left(n) == Among(SwitchUplinks(n), ToSet(SwitchUplinks(n)) \ {id})
             nodes == [i \in DOMAIN l.nodes |-> IF has(l.nodes[i]) THEN WithUplinks(l.nodes[i], left(l.nodes[i])) ELSE l.nodes[i]]
  <2>1. cur' = [l EXCEPT !.nodes = nodes]
    BY <1>2 DEF ExternalDelete, Apply, OnNodes
  <2>2. IsLab(l)
    BY DroppedLab, UnpluggedLab
  <2>3. ASSUME NEW n, IsNode(n) PROVE IsNode(WithUplinks(n, left(n)))
    <3>1. IsSeq(left(n))
      <4> DEFINE s == SwitchUplinks(n)
      <4>1. IsSeq(s)
        BY <2>3, UplinksSeq
      <4> HIDE DEF s
      <4>2. IsSeq(Among(s, ToSet(s) \ {id}))
        BY <4>1, AmongIs
      <4> QED  BY <4>2 DEF s
    <3> HIDE DEF left
    <3> QED  BY <2>3, <3>1, WithUplinksIsNode
  <2> HIDE DEF l, has, left
  <2>4. \A i \in DOMAIN l.nodes : IsNode(l.nodes[i]) => IsNode(nodes[i])
    BY <2>3
  <2>5. DOMAIN nodes = DOMAIN l.nodes /\ nodes = [i \in DOMAIN nodes |-> nodes[i]]
    OBVIOUS
  <2> HIDE DEF nodes
  <2> QED  BY <2>1, <2>2, <2>4, <2>5, MappedLab
<1> QED  BY <1>1, <1>2

\* The interfaces of one node set to what a request makes of them.
SetNICs(l, m, kind, id) ==
  \E nics : m = [l EXCEPT !.nodes = [i \in DOMAIN l.nodes |->
                   IF l.nodes[i].kind = kind /\ l.nodes[i].id = id
                   THEN [l.nodes[i] EXCEPT !.nics = nics[i]] ELSE l.nodes[i]]]

LEMMA SetNICsLab ==
  ASSUME NEW l, IsLab(l), NEW m, NEW kind, NEW id, SetNICs(l, m, kind, id)
  PROVE  IsLab(m)
<1>1. PICK nics : m = [l EXCEPT !.nodes = [i \in DOMAIN l.nodes |->
                         IF l.nodes[i].kind = kind /\ l.nodes[i].id = id
                         THEN [l.nodes[i] EXCEPT !.nics = nics[i]] ELSE l.nodes[i]]]
  BY DEF SetNICs
<1> DEFINE nodes == [i \in DOMAIN l.nodes |->
                       IF l.nodes[i].kind = kind /\ l.nodes[i].id = id
                       THEN [l.nodes[i] EXCEPT !.nics = nics[i]] ELSE l.nodes[i]]
<1>2. ASSUME NEW n, IsNode(n), NEW x PROVE IsNode([n EXCEPT !.nics = x])
  BY <1>2 DEF IsNode
<1>3. \A i \in DOMAIN l.nodes : IsNode(l.nodes[i]) => IsNode(nodes[i])
  BY <1>2
<1>4. DOMAIN nodes = DOMAIN l.nodes /\ nodes = [i \in DOMAIN nodes |-> nodes[i]]
  OBVIOUS
<1> HIDE DEF nodes
<1> QED  BY <1>1, <1>3, <1>4, MappedLab DEF nodes

LEMMA UnwiredLab ==
  ASSUME NEW l, IsLab(l), NEW e
  PROVE  IsLab(Unwired(l, e))
<1> DEFINE m == WithoutEndLinks(l, e)
           nics == [i \in DOMAIN m.nodes |-> [m.nodes[i].nics EXCEPT ![e.nic] = NIC(None, None, m.nodes[i].nics[e.nic].mac)]]
<1>1. IsLab(m)
  BY LinklessLab
<1>2. Unwired(l, e) = OnNode(m, e.kind, e.id, LAMBDA n : [n EXCEPT !.nics[e.nic] = NIC(None, None, @.mac)])
  BY DEF Unwired
<1> HIDE DEF m
<1>3. Unwired(l, e) = [m EXCEPT !.nodes = [i \in DOMAIN m.nodes |->
                   IF m.nodes[i].kind = e.kind /\ m.nodes[i].id = e.id
                   THEN [m.nodes[i] EXCEPT !.nics = nics[i]] ELSE m.nodes[i]]]
  BY <1>2 DEF OnNode, OnNodes
<1> HIDE DEF nics
<1>4. SetNICs(m, Unwired(l, e), e.kind, e.id)
  BY <1>3 DEF SetNICs
<1> QED  BY <1>1, <1>4, SetNICsLab

LEMMA JoinedLab ==
  ASSUME NEW l, IsLab(l), NEW e, NEW f
  PROVE  IsLab(Joined(l, e, f))
<1> DEFINE links == Append(l.links, [from |-> e, to |-> f])
<1>1. Joined(l, e, f) = [l EXCEPT !.links = links]
  BY DEF Joined
<1> HIDE DEF links
<1> QED  BY <1>1 DEF IsLab, LabLike

LEMMA InterfaceLab ==
  ASSUME IsLab(cur), NEW kind, NEW ref, NEW i, NEW to, NEW toKind, NEW j, NEW mac
  PROVE  /\ AddNIC(kind, ref, mac) => IsLab(cur')
         /\ ConnectNIC(kind, ref, i, to, toKind, mac) => IsLab(cur')
         /\ DeleteNIC(kind, ref, i) => IsLab(cur')
         /\ ConnectDirectNIC(kind, ref, i, toKind, to, j) => IsLab(cur')
         /\ ConnectDirectFirst(kind, ref, i, toKind, to) => IsLab(cur')
         /\ DisconnectNIC(kind, ref, i) => IsLab(cur')
<1> DEFINE id == Resolve(cur, ref, {kind})
           kept == WithoutEndLinks(cur, Endpoint(kind, id, i))
<1>1. IsLab(kept)
  BY LinklessLab
<1>2. ASSUME AddNIC(kind, ref, mac) PROVE IsLab(cur')
  <2> DEFINE nics == [k \in DOMAIN cur.nodes |-> Append(cur.nodes[k].nics, NIC(None, None, mac))]
  <2>1. cur' = [cur EXCEPT !.nodes = [k \in DOMAIN cur.nodes |->
                   IF cur.nodes[k].kind = kind /\ cur.nodes[k].id = id
                   THEN [cur.nodes[k] EXCEPT !.nics = nics[k]] ELSE cur.nodes[k]]]
    BY <1>2 DEF AddNIC, Apply, OnNode, OnNodes
  <2> HIDE DEF nics
  <2>2. SetNICs(cur, cur', kind, id)
    BY <2>1 DEF SetNICs
  <2> QED  BY <2>2, SetNICsLab
<1>3. ASSUME ConnectNIC(kind, ref, i, to, toKind, mac) PROVE IsLab(cur')
  <2> DEFINE sw == IF "switch" \in toKind THEN Resolve(cur, to, {"switch"}) ELSE None
             ext == IF sw = None /\ "external" \in toKind THEN Resolve(cur, to, {"external"}) ELSE None
             nics == [k \in DOMAIN kept.nodes |-> [kept.nodes[k].nics EXCEPT
                        ![i] = NIC(sw, ext, IF mac = None THEN kept.nodes[k].nics[i].mac ELSE mac)]]
  <2>1. cur' = OnNode(kept, kind, id, LAMBDA n : [n EXCEPT !.nics[i] = NIC(sw, ext, IF mac = None THEN @.mac ELSE mac)])
    BY <1>3 DEF ConnectNIC, Apply
  <2> HIDE DEF kept, sw, ext
  <2>2. cur' = [kept EXCEPT !.nodes = [k \in DOMAIN kept.nodes |->
                   IF kept.nodes[k].kind = kind /\ kept.nodes[k].id = id
                   THEN [kept.nodes[k] EXCEPT !.nics = nics[k]] ELSE kept.nodes[k]]]
    BY <2>1 DEF OnNode, OnNodes
  <2> HIDE DEF nics
  <2>3. SetNICs(kept, cur', kind, id)
    BY <2>2 DEF SetNICs
  <2> QED  BY <1>1, <2>3, SetNICsLab
<1>4. ASSUME DeleteNIC(kind, ref, i) PROVE IsLab(cur')
  <2> DEFINE l == OnNode(kept, kind, id, LAMBDA n : [n EXCEPT !.nics = RemoveAt(@, i)])
             nics == [k \in DOMAIN kept.nodes |-> RemoveAt(kept.nodes[k].nics, i)]
             links == [k \in DOMAIN l.links |-> [from |-> Reindexed(l.links[k].from, kind, id, i),
                                                 to   |-> Reindexed(l.links[k].to, kind, id, i)]]
  <2>1. cur' = [l EXCEPT !.links = links]
    BY <1>4 DEF DeleteNIC, Apply
  <2>2. IsLab(l)
    <3> HIDE DEF kept
    <3>1. l = [kept EXCEPT !.nodes = [k \in DOMAIN kept.nodes |->
                   IF kept.nodes[k].kind = kind /\ kept.nodes[k].id = id
                   THEN [kept.nodes[k] EXCEPT !.nics = nics[k]] ELSE kept.nodes[k]]]
      BY DEF OnNode, OnNodes
    <3> HIDE DEF nics, l
    <3>2. SetNICs(kept, l, kind, id)
      BY <3>1 DEF SetNICs
    <3> QED  BY <1>1, <3>2, SetNICsLab
  <2> HIDE DEF l, links
  <2> QED  BY <2>1, <2>2 DEF IsLab, LabLike
<1> DEFINE e == Endpoint(kind, id, i)
<1>5. ASSUME ConnectDirectNIC(kind, ref, i, toKind, to, j) PROVE IsLab(cur')
  <2> DEFINE f == Endpoint(toKind, Resolve(cur, to, {toKind}), j)
             l == Unwired(cur, e)
             m == Unwired(l, f)
  <2>1. cur' = Joined(m, e, f)
    BY <1>5 DEF ConnectDirectNIC, Apply
  <2>2. IsLab(l)
    BY UnwiredLab
  <2>3. IsLab(m)
    <3> HIDE DEF l, f
    <3> QED  BY <2>2, UnwiredLab
  <2> HIDE DEF m, e, f
  <2> QED  BY <2>1, <2>3, JoinedLab
<1>6. ASSUME ConnectDirectFirst(kind, ref, i, toKind, to) PROVE IsLab(cur')
  <2> DEFINE t == Resolve(cur, to, {toKind})
             idle == {f \in {Endpoint(toKind, t, k) : k \in DOMAIN NodeOf(cur, toKind, t).nics} \ {e} : Idle(f)}
             first == CHOOSE f \in idle : \A g \in idle : f.nic <= g.nic
  <2>1. cur' = Joined(cur, e, first)
    BY <1>6 DEF ConnectDirectFirst, Apply
  <2> HIDE DEF e, first
  <2> QED  BY <2>1, JoinedLab
<1>7. ASSUME DisconnectNIC(kind, ref, i) PROVE IsLab(cur')
  <2>1. cur' = Unwired(cur, e)
    BY <1>7 DEF DisconnectNIC, Apply
  <2> HIDE DEF e
  <2> QED  BY <2>1, UnwiredLab
<1> QED  BY <1>2, <1>3, <1>4, <1>5, <1>6, <1>7

\* What a command or a menu asks for.
LEMMA CommandsLab ==
  ASSUME IsLab(cur), ExecuteCommand \/ ChooseItem
  PROVE  IsLab(cur')
<1>1. ASSUME NEW kind, NEW ref, NEW new, NEW path, NEW sw, NEW ext, NEW mac
      PROVE  /\ CreateWorkload(kind, ref, path, sw, ext, mac) => IsLab(cur')
             /\ UpdateWorkload(kind, ref, new, path, sw, ext, mac) => IsLab(cur')
             /\ DeleteWorkload(kind, ref) => IsLab(cur')
  BY CreateLab, UpdateWorkloadLab, DeleteWorkloadLab
<1>2. CASE ExecuteVMCommand
  BY <1>1, <1>2, SetWorkloadLab, InterfaceLab
     DEF ExecuteVMCommand, VMCreate, VMSet, CreateVM, UpdateVM, VMDesiredState, VMDelete, AddVMNIC, ConnectVMNIC, DeleteVMNIC
<1>3. CASE ExecuteContainerCommand
  BY <1>1, <1>3, SetWorkloadLab, InterfaceLab
     DEF ExecuteContainerCommand, ContainerCreate, ContainerSet, CreateContainer, UpdateContainer,
         ContainerDesiredState, ContainerDelete, AddContainerNIC, ConnectContainerNIC, DeleteContainerNIC
<1>4. CASE ExecuteAddCommand
  BY <1>4, CreateLab DEF ExecuteAddCommand
<1>5. CASE ExecuteSwitchCommand
  BY <1>5, CreateLab, UpdateSwitchLab, SwitchLab DEF ExecuteSwitchCommand, Known
<1>6. CASE ExecuteExternalCommand
  BY <1>6, CreateLab, ExternalLab DEF ExecuteExternalCommand
<1>7. CASE ExecuteLinkCommand
  BY <1>7, InterfaceLab DEF ExecuteLinkCommand, ExecuteLinkAddCommand, ExecuteLinkDeleteCommand
<1>8. ASSUME NEW id, SaveActiveMove(id) PROVE IsLab(cur')
  <2> DEFINE placed == cur.placed \union {id}
  <2>1. cur' = [cur EXCEPT !.placed = placed]
    BY <1>8 DEF SaveActiveMove, Apply
  <2> HIDE DEF placed
  <2> QED  BY <2>1 DEF IsLab, LabLike
<1>9. CASE ChooseItem
  BY <1>8, <1>9, SwitchLab, SetWorkloadLab DEF ChooseItem, TakeUplink, TogglePermission, Known
<1> QED  BY <1>2, <1>3, <1>4, <1>5, <1>6, <1>7, <1>9 DEF ExecuteCommand

\* What the connect mode asks for.
LEMMA ConnectsLab ==
  ASSUME IsLab(cur), Connects
  PROVE  IsLab(cur') \/ UNCHANGED vars
<1>1. ASSUME NEW kind, NEW id, NEW i, StartConnectNICIndex(kind, id, i) PROVE IsLab(cur') \/ UNCHANGED vars
  BY <1>1, InterfaceLab DEF StartConnectNICIndex
<1>2. ASSUME NEW kind, NEW id, StartConnectEndpoint(kind, id) PROVE UNCHANGED vars
  BY <1>2 DEF StartConnectEndpoint
<1>3. ASSUME NEW sw, NEW ext, ConnectSwitchExternal(sw, ext) PROVE IsLab(cur') \/ UNCHANGED vars
  BY <1>3, UpdateSwitchLab DEF ConnectSwitchExternal, EndsWith
<1>4. ASSUME NEW n, ConnectSelectedEndpoint(n) PROVE IsLab(cur') \/ UNCHANGED vars
  BY <1>3, <1>4, InterfaceLab DEF ConnectSelectedEndpoint, EndsWith
<1>5. ASSUME NEW f, Joins(f) PROVE IsLab(cur') \/ UNCHANGED vars
  BY <1>5, InterfaceLab DEF Joins, EndsWith
<1>6. CASE ConnectSelectedTargetNIC \/ JoinNewNIC
  BY <1>5, <1>6 DEF ConnectSelectedTargetNIC, JoinNewNIC
<1>7. CASE NewNIC
  BY <1>7, InterfaceLab DEF NewNIC
<1>8. CASE Escape \/ OpenPalette
  BY <1>8 DEF Escape, OpenPalette
<1> QED  BY <1>1, <1>2, <1>4, <1>6, <1>7, <1>8 DEF Connects

-----------------------------------------------------------------------------
(* Normalize: a lab stays one, and a second time changes nothing. *)

NormalName(n) == IF n.name = n.id THEN None ELSE n.name
NormalMode(n) ==
  IF n.mode # None THEN n.mode
  ELSE IF n.kind = "switch" THEN "bridge" ELSE IF n.kind = "external" THEN "direct" ELSE n.mode
NormalDesired(n) == IF n.kind = "container" /\ n.dhcp /\ n.desired = None THEN "running" ELSE n.desired
NormalUplinks(n) == IF n.kind = "switch" THEN SwitchUplinks(n) ELSE n.uplinks
NormalLegacy(n) == IF n.kind = "switch" THEN None ELSE n.legacy

LEMMA NormalizedIs ==
  ASSUME NEW n, IsNode(n)
  PROVE  NormalizedNode(n) =
           [id |-> n.id, name |-> NormalName(n), kind |-> n.kind, mode |-> NormalMode(n), uplinks |-> NormalUplinks(n),
            legacy |-> NormalLegacy(n), nics |-> n.nics, dhcp |-> n.dhcp, desired |-> NormalDesired(n), caps |-> n.caps,
            disk |-> n.disk]
<1>1. n = [id |-> n.id, name |-> n.name, kind |-> n.kind, mode |-> n.mode, uplinks |-> n.uplinks, legacy |-> n.legacy,
          nics |-> n.nics, dhcp |-> n.dhcp, desired |-> n.desired, caps |-> n.caps, disk |-> n.disk]
  BY DEF IsNode
<1> DEFINE name == NormalName(n)
           m == [id |-> n.id, name |-> name, kind |-> n.kind, mode |-> n.mode, uplinks |-> n.uplinks, legacy |-> n.legacy,
                 nics |-> n.nics, dhcp |-> n.dhcp, desired |-> n.desired, caps |-> n.caps, disk |-> n.disk]
<1>2. [n EXCEPT !.name = IF @ = n.id THEN None ELSE @] = m
  <2>1. [n EXCEPT !.name = IF @ = n.id THEN None ELSE @] = [n EXCEPT !.name = name]
    BY DEF NormalName
  <2> HIDE DEF name
  <2> QED  BY <1>1, <2>1
<1>3. m.mode = n.mode /\ m.desired = n.desired
  OBVIOUS
<1> HIDE DEF name, m
<1>4. CASE n.kind = "switch"
  <2> DEFINE uplinks == SwitchUplinks(n)
             mode == NormalMode(n)
  <2>1. NormalizedNode(n) = [m EXCEPT !.uplinks = uplinks, !.legacy = None, !.mode = mode]
    BY <1>2, <1>3, <1>4 DEF NormalizedNode, NormalMode
  <2>2. NormalDesired(n) = n.desired /\ NormalUplinks(n) = uplinks /\ NormalLegacy(n) = None
    BY <1>4 DEF NormalDesired, NormalUplinks, NormalLegacy
  <2> HIDE DEF uplinks, mode
  <2>3. NormalizedNode(n) =
          [id |-> n.id, name |-> name, kind |-> n.kind, mode |-> mode, uplinks |-> uplinks, legacy |-> None,
           nics |-> n.nics, dhcp |-> n.dhcp, desired |-> n.desired, caps |-> n.caps, disk |-> n.disk]
    BY <2>1 DEF m
  <2> QED  BY <2>2, <2>3 DEF name, mode
<1>5. CASE n.kind = "external"
  <2> DEFINE mode == NormalMode(n)
  <2>1. NormalizedNode(n) = [m EXCEPT !.mode = mode]
    BY <1>2, <1>3, <1>5 DEF NormalizedNode, NormalMode
  <2>2. NormalDesired(n) = n.desired /\ NormalUplinks(n) = n.uplinks /\ NormalLegacy(n) = n.legacy
    BY <1>5 DEF NormalDesired, NormalUplinks, NormalLegacy
  <2> HIDE DEF mode
  <2>3. NormalizedNode(n) =
          [id |-> n.id, name |-> name, kind |-> n.kind, mode |-> mode, uplinks |-> n.uplinks, legacy |-> n.legacy,
           nics |-> n.nics, dhcp |-> n.dhcp, desired |-> n.desired, caps |-> n.caps, disk |-> n.disk]
    BY <2>1 DEF m
  <2> QED  BY <2>2, <2>3 DEF name, mode
<1>6. CASE n.kind \notin {"switch", "external"}
  <2> DEFINE desired == NormalDesired(n)
  <2>1. NormalMode(n) = n.mode /\ NormalUplinks(n) = n.uplinks /\ NormalLegacy(n) = n.legacy
    BY <1>6 DEF NormalMode, NormalUplinks, NormalLegacy
  <2>2. CASE n.kind = "container" /\ n.dhcp
    <3>1. NormalizedNode(n) = [m EXCEPT !.desired = desired]
      BY <1>2, <1>3, <1>6, <2>2 DEF NormalizedNode, NormalDesired
    <3> HIDE DEF desired
    <3>2. NormalizedNode(n) =
            [id |-> n.id, name |-> name, kind |-> n.kind, mode |-> n.mode, uplinks |-> n.uplinks, legacy |-> n.legacy,
             nics |-> n.nics, dhcp |-> n.dhcp, desired |-> desired, caps |-> n.caps, disk |-> n.disk]
      BY <3>1 DEF m
    <3> QED  BY <2>1, <3>2 DEF name, desired
  <2>3. CASE ~(n.kind = "container" /\ n.dhcp)
    <3>1. NormalizedNode(n) = m
      BY <1>2, <1>6, <2>3 DEF NormalizedNode
    <3>2. NormalDesired(n) = n.desired
      BY <2>3 DEF NormalDesired
    <3> QED  BY <2>1, <3>1, <3>2 DEF m, name
  <2> QED  BY <2>2, <2>3
<1> QED  BY <1>4, <1>5, <1>6

LEMMA AgainUplinks ==
  ASSUME NEW n, IsNode(n), n.legacy = None, Once(n.uplinks)
  PROVE  SwitchUplinks(n) = n.uplinks
<1>1. n.uplinks \o <<>> = n.uplinks
  BY DEF IsNode, IsSeq
<1>2. SwitchUplinks(n) = Distinct(n.uplinks)
  BY <1>1 DEF SwitchUplinks
<1> QED  BY <1>2, DistinctOnce DEF IsNode

LEMMA NormalizedAgain ==
  ASSUME NEW n, IsNode(n)
  PROVE  IsNode(NormalizedNode(n)) /\ NormalizedNode(NormalizedNode(n)) = NormalizedNode(n)
<1> DEFINE m == NormalizedNode(n)
<1>1. m = [id |-> n.id, name |-> NormalName(n), kind |-> n.kind, mode |-> NormalMode(n), uplinks |-> NormalUplinks(n),
           legacy |-> NormalLegacy(n), nics |-> n.nics, dhcp |-> n.dhcp, desired |-> NormalDesired(n), caps |-> n.caps,
           disk |-> n.disk]
  BY NormalizedIs
<1>2. IsSeq(NormalUplinks(n)) /\ (n.kind = "switch" => Once(NormalUplinks(n)))
  BY UplinksSeq DEF NormalUplinks, IsNode
<1> HIDE DEF m
<1>3. /\ m.id = n.id /\ m.name = NormalName(n) /\ m.kind = n.kind /\ m.mode = NormalMode(n) /\ m.uplinks = NormalUplinks(n)
      /\ m.legacy = NormalLegacy(n) /\ m.nics = n.nics /\ m.dhcp = n.dhcp /\ m.desired = NormalDesired(n)
      /\ m.caps = n.caps /\ m.disk = n.disk
  BY <1>1
<1>4. IsNode(m)
  BY <1>1, <1>2, <1>3 DEF IsNode
<1>5. NormalName(m) = m.name
  BY <1>3 DEF NormalName
<1>6. NormalMode(m) = m.mode
  BY <1>3 DEF NormalMode
<1>7. NormalDesired(m) = m.desired
  BY <1>3 DEF NormalDesired
<1>8. NormalLegacy(m) = m.legacy
  BY <1>3 DEF NormalLegacy
<1>9. NormalUplinks(m) = m.uplinks
  <2>1. CASE n.kind = "switch"
    <3>1. m.legacy = None /\ Once(m.uplinks)
      BY <1>2, <1>3, <2>1 DEF NormalLegacy
    <3> QED  BY <1>3, <1>4, <2>1, <3>1, AgainUplinks DEF NormalUplinks
  <2>2. CASE n.kind # "switch"
    BY <1>3, <2>2 DEF NormalUplinks
  <2> QED  BY <2>1, <2>2
<1>10. NormalizedNode(m) =
         [id |-> m.id, name |-> m.name, kind |-> m.kind, mode |-> m.mode, uplinks |-> m.uplinks, legacy |-> m.legacy,
          nics |-> m.nics, dhcp |-> m.dhcp, desired |-> m.desired, caps |-> m.caps, disk |-> m.disk]
  BY <1>4, <1>5, <1>6, <1>7, <1>8, <1>9, NormalizedIs
<1>11. m = [id |-> m.id, name |-> m.name, kind |-> m.kind, mode |-> m.mode, uplinks |-> m.uplinks, legacy |-> m.legacy,
            nics |-> m.nics, dhcp |-> m.dhcp, desired |-> m.desired, caps |-> m.caps, disk |-> m.disk]
  BY <1>4 DEF IsNode
<1> QED  BY <1>4, <1>10, <1>11 DEF m

\* A normalised lab is not changed by normalising it again, so what was saved
\* is what is read back (NormalizeDetailed).
LEMMA NormalizeAgain ==
  ASSUME NEW l, IsLab(l)
  PROVE  IsLab(Normalize(l)) /\ Normalize(Normalize(l)) = Normalize(l)
<1> DEFINE nodes == [i \in DOMAIN l.nodes |-> NormalizedNode(l.nodes[i])]
           m == Normalize(l)
           again == [i \in DOMAIN m.nodes |-> NormalizedNode(m.nodes[i])]
<1>1. m = [l EXCEPT !.nodes = nodes] /\ Normalize(m) = [m EXCEPT !.nodes = again]
  BY DEF Normalize
<1>2. \A i \in DOMAIN l.nodes : IsNode(l.nodes[i])
  BY DEF IsLab, AreNodes
<1>3. \A i \in DOMAIN l.nodes : IsNode(nodes[i]) /\ NormalizedNode(nodes[i]) = nodes[i]
  BY <1>2, NormalizedAgain
<1>4. DOMAIN nodes = DOMAIN l.nodes /\ nodes = [i \in DOMAIN nodes |-> nodes[i]]
  OBVIOUS
<1>5. DOMAIN again = DOMAIN m.nodes /\ again = [i \in DOMAIN again |-> again[i]] /\ \A i \in DOMAIN m.nodes : again[i] = NormalizedNode(m.nodes[i])
  OBVIOUS
<1> HIDE DEF nodes, m, again
<1>6. IsLab(m)
  BY <1>1, <1>3, <1>4, MappedLab
<1>7. m.nodes = nodes
  BY <1>1 DEF IsLab, LabLike
<1>8. again = nodes
  BY <1>3, <1>4, <1>5, <1>7, SameFcn
<1>9. [m EXCEPT !.nodes = again] = m
  BY <1>6, <1>7, <1>8 DEF IsLab, LabLike
<1> QED  BY <1>1, <1>6, <1>9 DEF m

-----------------------------------------------------------------------------
(* The lab of the session and the lab in the file are labs. *)

\* The session works with Normalize, and other programs leave labs in the
\* file, or something that cannot be read.
OurRules == \A l : IsLab(l) => Normal(l) = Normalize(l)
OurLabs == ~IsLab(NoLab) /\ ~IsLab(Torn) /\ \A l \in HandLabs : l = Torn \/ IsLab(l)

LabsInv ==
  /\ IF phase = "down" THEN cur = NoLab ELSE IsLab(cur)
  /\ snap # NoLab => IsLab(snap)
  /\ phase = "rename" => IsLab(temp)
  /\ file = Torn \/ IsLab(file)

LEMMA NormalLab == ASSUME OurRules, NEW l, IsLab(l) PROVE IsLab(Normal(l))
BY NormalizeAgain DEF OurRules

LEMMA ReadLab == ASSUME OurRules, LabsInv, Readable(file) PROVE IsLab(Normal(file))
BY NormalLab DEF LabsInv, Readable

LEMMA LabsInit == ASSUME OurRules, OurLabs, SessionInit PROVE LabsInv
<1>1. IsLab(file) /\ IsLab(Normal(file))
  BY NormalLab DEF SessionInit, Readable, OurLabs
<1> QED  BY <1>1 DEF SessionInit, LabsInv

LEMMA LabsStep ==
  ASSUME OurRules, OurLabs, LabsInv,
         (Begin /\ IsLab(cur')) \/ Save \/ Finish \/ Crash \/ Open \/ HandEdit \/ UNCHANGED sessionVars
  PROVE  LabsInv'
<1> USE DEF LabsInv
<1>1. CASE Begin /\ IsLab(cur')
  BY <1>1 DEF Begin
<1>2. CASE CreateTemp
  BY <1>2 DEF CreateTemp
<1>3. CASE WriteTemp
  BY <1>3, NormalLab DEF WriteTemp
<1>4. CASE Rename
  BY <1>4 DEF Rename
<1>5. CASE SaveFails
  BY <1>5, ReadLab DEF SaveFails, AfterFailedSave
<1>6. CASE Reload
  BY <1>6, ReadLab DEF Reload
<1>7. CASE ReloadFails
  BY <1>7 DEF ReloadFails
<1>8. CASE Finish
  BY <1>8 DEF Finish
<1>9. CASE Crash
  BY <1>9 DEF Crash
<1>10. CASE Open
  BY <1>10, ReadLab DEF Open
<1>11. CASE HandEdit
  BY <1>11 DEF HandEdit, OurLabs
<1>12. CASE UNCHANGED sessionVars
  BY <1>12 DEF sessionVars
<1> QED  BY <1>1, <1>2, <1>3, <1>4, <1>5, <1>6, <1>7, <1>8, <1>9, <1>10, <1>11, <1>12 DEF Save

\* A step of the program, as the session sees it.
LEMMA ModeSteps ==
  ASSUME LabsInv, [ModeNext]_allVars
  PROVE  (Begin /\ IsLab(cur')) \/ Save \/ Finish \/ Crash \/ Open \/ HandEdit \/ UNCHANGED sessionVars
<1>1. phase = "idle" => IsLab(cur)
  BY DEF LabsInv
<1>2. CASE Connects
  <2>1. CASE Begin
    BY <1>1, <1>2, <2>1, ConnectsLab DEF Begin, vars
  <2>2. CASE UNCHANGED sessionVars
    BY <2>2
  <2> QED  BY <1>2, <2>1, <2>2, ConnectsEdit DEF Edits
<1>3. CASE OtherEdit
  BY <1>1, <1>3, CommandsEdit, CommandsLab DEF OtherEdit, Edit, Edits
<1>4. CASE Answered \/ Mishaps \/ Saving
  BY <1>4 DEF Answered, Mishaps, Mishap, Saving, Save
<1>5. CASE UNCHANGED allVars
  BY <1>5 DEF allVars, vars
<1> QED  BY <1>2, <1>3, <1>4, <1>5 DEF ModeNext

-----------------------------------------------------------------------------
(* Types, the bound on edits, and the stages of the connect mode. *)

\* What the mode goes on to bounds what it may still ask for: two edits with
\* which it ends.
ModeStages ==
  /\ connect = [stage |-> connect.stage, source |-> connect.source, target |-> connect.target]
  /\ connect.stage \in {"off", "choose", "target"}
  /\ connect.stage = "off" => connect = Off
  /\ (connect.stage = "target") = (connect.target # Nobody)
  /\ connect.stage = "target" => connect.target.kind \in Workload
  /\ events \in Nat /\ events <= MaxEvents + 2
  /\ connect.stage # "off" => events <= MaxEvents + 1
  /\ then.do = "choose" => connect.stage # "target" /\ events <= MaxEvents
  /\ then.do = "join" => connect.stage = "target" /\ events <= MaxEvents + 1

SessionTypes ==
  /\ phase \in {"idle", "save", "write", "rename", "reload", "done", "down"}
  /\ result \in {"ok", "refused", "unread"}
  /\ temp # NoLab => phase \in {"write", "rename"}

LEMMA SessionTypesStep ==
  ASSUME SessionTypes, [SessionNext]_sessionVars
  PROVE  SessionTypes'
<1> USE DEF SessionTypes
<1>1. CASE Begin \/ SaveAgain \/ Finish
  BY <1>1 DEF Begin, SaveAgain, Finish
<1>2. CASE CreateTemp \/ WriteTemp \/ Rename
  BY <1>2 DEF CreateTemp, WriteTemp, Rename
<1>3. CASE SaveFails \/ Reload \/ ReloadFails
  BY <1>3 DEF SaveFails, Reload, ReloadFails
<1>4. CASE Crash \/ Open \/ HandEdit
  BY <1>4 DEF Crash, Open, HandEdit
<1>5. CASE UNCHANGED sessionVars
  BY <1>5 DEF sessionVars
<1> QED  BY <1>1, <1>2, <1>3, <1>4, <1>5 DEF SessionNext, Save

LEMMA StagesInit == ModeInit => ModeStages
BY LabCommandsAssumption DEF LabCommandsAssumption, ModeInit, Init, ModeStages, Off, Nobody, Nothing

\* The mode that is ended, begun, and left as it is.
LEMMA StagesCleared ==
  ASSUME ClearConnectMode, events' \in Nat, events' <= MaxEvents + 2
  PROVE  ModeStages'
BY DEF ClearConnectMode, ModeStages, Off, Nobody, Nothing

LEMMA StagesChosen ==
  ASSUME NEW l, NEW source, connect' = Choosing(l, source), then' = Nothing, events' \in Nat, events' <= MaxEvents
  PROVE  ModeStages'
<1>1. connect' = [stage |-> "choose", source |-> source, target |-> Nobody] \/ connect' = Off
  BY DEF Choosing, Off
<1>2. Off = [stage |-> "off", source |-> Off.source, target |-> Nobody]
  BY DEF Off
<1>3. then'.do = "nothing"
  BY DEF Nothing
<1>4. MaxEvents \in Nat
  BY LabCommandsAssumption DEF LabCommandsAssumption
<1>5. CASE connect' = Off
  BY <1>2, <1>3, <1>4, <1>5 DEF ModeStages
<1>6. CASE connect' = [stage |-> "choose", source |-> source, target |-> Nobody]
  BY <1>3, <1>4, <1>6 DEF ModeStages
<1> QED  BY <1>1, <1>5, <1>6

LEMMA StagesKept ==
  ASSUME ModeStages, connect' = connect, then' \in {then, Nothing},
         events' = events \/ (events < MaxEvents /\ events' = events + 1)
  PROVE  ModeStages'
<1>1. events' \in Nat /\ (events' <= events \/ events' <= MaxEvents)
  BY LabCommandsAssumption DEF LabCommandsAssumption, ModeStages
<1>2. then'.do = "nothing" \/ then' = then
  BY DEF Nothing
<1> QED  BY <1>1, <1>2, LabCommandsAssumption DEF LabCommandsAssumption, ModeStages

\* A request that ends the mode.
LEMMA StagesEnd ==
  ASSUME ModeStages, events <= MaxEvents + 1, ClearConnectMode, events' = events \/ events' = events + 1
  PROVE  ModeStages'
<1>1. events' \in Nat /\ events' <= MaxEvents + 2
  BY LabCommandsAssumption DEF LabCommandsAssumption, ModeStages
<1> QED  BY <1>1, StagesCleared

LEMMA StagesConnects ==
  ASSUME ModeStages, Connects
  PROVE  ModeStages'
<1>1. ASSUME NEW kind, NEW id, NEW i, StartConnectNICIndex(kind, id, i) PROVE ModeStages'
  <2>1. events \in Nat /\ events < MaxEvents /\ connect.stage # "target"
    BY <1>1 DEF StartConnectNICIndex, MayStart, ModeStages
  <2>2. CASE Managed(kind, id)
    <3>1. connect' = Choosing(cur, Endpoint(kind, id, i)) /\ then' = Nothing /\ events' = events
      BY <1>1, <2>2 DEF StartConnectNICIndex, MayStart, AtKeys, vars
    <3> QED  BY <2>1, <3>1, StagesChosen, LabCommandsAssumption DEF LabCommandsAssumption
  <2>3. CASE ~Managed(kind, id)
    <3>1. /\ events' = events + 1 /\ connect' = connect
          /\ then' = [do |-> "choose", source |-> Endpoint(kind, id, i)]
      BY <1>1, <2>3, InterfaceEdits DEF StartConnectNICIndex, Edits
    <3>2. then'.do = "choose" /\ events' \in Nat /\ events' <= MaxEvents
      BY <2>1, <3>1, LabCommandsAssumption DEF LabCommandsAssumption
    <3> QED  BY <2>1, <3>1, <3>2, LabCommandsAssumption DEF LabCommandsAssumption, ModeStages
  <2> QED  BY <2>2, <2>3
<1>2. ASSUME NEW kind, NEW id, StartConnectEndpoint(kind, id) PROVE ModeStages'
  <2>1. connect' = Choosing(cur, Endpoint(kind, id, 0)) /\ then' = Nothing /\ events' = events /\ events < MaxEvents
    BY <1>2 DEF StartConnectEndpoint, MayStart, AtKeys, vars
  <2> QED  BY <2>1, StagesChosen, LabCommandsAssumption DEF LabCommandsAssumption, ModeStages
<1>3. ASSUME NEW sw, NEW ext, ConnectSwitchExternal(sw, ext) PROVE ClearConnectMode /\ (events' = events \/ events' = events + 1)
  BY <1>3, NetworkEdits DEF ConnectSwitchExternal, EndsWith, Edits, vars
<1>4. ASSUME NEW f, Joins(f) PROVE ClearConnectMode /\ (events' = events \/ events' = events + 1)
  BY <1>4, InterfaceEdits DEF Joins, EndsWith, Edits, vars
<1>5. ASSUME NEW n \in NodesOf(cur), ConnectSelectedEndpoint(n) PROVE ModeStages'
  <2>1. connect.stage = "choose" /\ events \in Nat /\ events <= MaxEvents + 1 /\ then = Nothing
    BY <1>5 DEF ConnectSelectedEndpoint, AtKeys, ModeStages
  <2>2. CASE EndsWith(There(Source), ConnectNIC(Source.kind, Source.id, Source.nic, n.id, {n.kind}, None))
    <3>1. ClearConnectMode /\ (events' = events \/ events' = events + 1)
      BY <2>2, InterfaceEdits DEF EndsWith, Edits, vars
    <3> QED  BY <2>1, <3>1, StagesEnd
  <2>3. CASE ConnectSwitchExternal(Source.id, n.id) \/ ConnectSwitchExternal(n.id, Source.id)
    BY <1>3, <2>1, <2>3, StagesEnd
  <2>4. CASE n.kind \in Workload /\ connect' = [connect EXCEPT !.stage = "target", !.target = n] /\ UNCHANGED <<vars, then>>
    <3>1. n # Nobody
      BY <2>4, LabRulesAssumption DEF LabRulesAssumption, Nobody, AllKinds
    <3>2. connect' = [stage |-> "target", source |-> connect.source, target |-> n]
      BY <2>4 DEF ModeStages
    <3>3. then'.do = "nothing" /\ events' = events
      BY <2>1, <2>4 DEF Nothing, vars
    <3>4. connect'.stage = "target" /\ connect'.source = connect.source /\ connect'.target = n
      BY <3>2
    <3>5. events \in Nat /\ events <= MaxEvents + 1 /\ n.kind \in Workload
      BY <2>1, <2>4
    <3> QED  BY <3>1, <3>2, <3>3, <3>4, <3>5, LabCommandsAssumption DEF LabCommandsAssumption, ModeStages
  <2> QED  BY <1>5, <2>2, <2>3, <2>4 DEF ConnectSelectedEndpoint
<1>6. CASE ConnectSelectedTargetNIC
  <2>1. events <= MaxEvents + 1
    BY <1>6 DEF ConnectSelectedTargetNIC, AtTarget, ModeStages
  <2> QED  BY <1>4, <1>6, <2>1, StagesEnd DEF ConnectSelectedTargetNIC
<1>7. CASE JoinNewNIC
  <2>1. then.do = "join" /\ events <= MaxEvents + 1
    BY <1>7 DEF JoinNewNIC, ModeStages
  <2>2. CASE then' = Nothing /\ UNCHANGED <<vars, connect>>
    BY <2>2, StagesKept DEF vars
  <2> QED  BY <1>4, <1>7, <2>1, <2>2, StagesEnd DEF JoinNewNIC
<1>8. CASE NewNIC
  <2>1. connect.stage = "target" /\ events \in Nat /\ events <= MaxEvents /\ connect' = connect
    BY <1>8 DEF NewNIC, AtTarget, ModeStages
  <2>2. events' = events + 1 /\ then'.do = "join"
    BY <1>8, InterfaceEdits DEF NewNIC, Edits
  <2> QED  BY <2>1, <2>2, LabCommandsAssumption DEF LabCommandsAssumption, ModeStages
<1>9. CASE Escape
  <2>1. connect.stage # "off" /\ ClearConnectMode /\ events' = events
    BY <1>9 DEF Escape, vars
  <2> QED  BY <2>1, StagesEnd DEF ModeStages
<1>10. CASE OpenPalette
  <2>1. connect' = [stage |-> "choose", source |-> connect.source, target |-> Nobody] /\ events' = events /\ then'.do = "nothing"
    BY <1>10 DEF OpenPalette, AtKeys, ModeStages, vars, Nothing
  <2>2. connect.stage = "target"
    BY <1>10 DEF OpenPalette
  <2> QED  BY <2>1, <2>2 DEF ModeStages
<1> QED  BY <1>1, <1>2, <1>5, <1>6, <1>7, <1>8, <1>9, <1>10 DEF Connects

LEMMA StagesStep ==
  ASSUME ModeStages, [ModeNext]_allVars
  PROVE  ModeStages'
<1>1. CASE Connects
  BY <1>1, StagesConnects
<1>2. CASE OtherEdit
  <2>1. events < MaxEvents /\ events' = events + 1 /\ connect' = connect /\ then' = then
    BY <1>2, CommandsEdit DEF OtherEdit, Edit, Edits, Stays, modeVars
  <2> QED  BY <2>1, StagesKept
<1>3. CASE Answered
  <2>1. events' = events
    BY <1>3 DEF Answered
  <2>2. CASE then.do = "choose" /\ result = "ok"
    <3>1. connect' = Choosing(cur, then.source) /\ then' = Nothing
      BY <1>3, <2>2 DEF Answered
    <3>2. events' \in Nat /\ events' <= MaxEvents
      BY <2>1, <2>2 DEF ModeStages
    <3> QED  BY <3>1, <3>2, StagesChosen
  <2>3. CASE ~(then.do = "choose" /\ result = "ok")
    <3>1. connect' = connect /\ then' \in {then, Nothing}
      BY <1>3, <2>3 DEF Answered
    <3> QED  BY <2>1, <3>1, StagesKept
  <2> QED  BY <2>2, <2>3
<1>4. CASE Mishaps
  <2>1. events < MaxEvents /\ events' = events + 1
    BY <1>4 DEF Mishaps, Mishap
  <2>2. CASE ClearConnectMode
    <3>1. events' \in Nat /\ events' <= MaxEvents + 2
      BY <2>1, LabCommandsAssumption DEF LabCommandsAssumption, ModeStages
    <3> QED  BY <2>2, <3>1, StagesCleared
  <2>3. CASE Stays
    BY <2>1, <2>3, StagesKept DEF Stays, modeVars
  <2> QED  BY <1>4, <2>2, <2>3 DEF Mishaps
<1>5. CASE Saving /\ Stays
  BY <1>5, StagesKept DEF Saving, Stays, modeVars
<1>6. CASE UNCHANGED allVars
  BY <1>6, StagesKept DEF allVars, vars, modeVars
<1> QED  BY <1>1, <1>2, <1>3, <1>4, <1>5, <1>6 DEF ModeNext

LEMMA LabsHold == ASSUME OurRules, OurLabs PROVE ModeSpec => []LabsInv
<1>1. ModeInit => LabsInv
  BY LabsInit DEF ModeInit, Init
<1>2. LabsInv /\ [ModeNext]_allVars => LabsInv'
  BY ModeSteps, LabsStep
<1> QED  BY <1>1, <1>2, PTL DEF ModeSpec

\* The session, the mode and what its handlers go on to stay what they are: no
\* process means no lab, a temporary file is there during a save only, a mode
\* that is off remembers no source, and a target is chosen exactly while the
\* menu of its interfaces is open, whatever is edited, undone or killed in
\* between (session.go, transaction.go, connect.go).
THEOREM ModeTypes ==
  ASSUME OurRules, OurLabs
  PROVE  ModeSpec => []ModeTypeOK
<1>1. ModeInit => SessionTypes /\ ModeStages
  BY StagesInit DEF ModeInit, Init, SessionInit, SessionTypes
<1>2. SessionTypes /\ ModeStages /\ [SessionNext]_sessionVars /\ [ModeNext]_allVars => SessionTypes' /\ ModeStages'
  BY SessionTypesStep, StagesStep
<1>3. LabsInv /\ SessionTypes /\ ModeStages => ModeTypeOK
  BY DEF LabsInv, SessionTypes, ModeStages, ModeTypeOK, TypeOK, OurLabs
<1> QED  BY <1>1, <1>2, <1>3, LabsHold, EditsSession, PTL DEF ModeSpec, SessionSpec

\* At every moment of the save of any edit the lab file can be read, unless
\* another program spoilt it: what an edit leaves is a lab, and normalising it
\* again when it is read back changes nothing (SaveFile, LoadFile, Normalize).
THEOREM EditsRead ==
  ASSUME OurRules, OurLabs
  PROVE  ModeSpec => []FileReads
<1>1. ASSUME LabsInv PROVE Sane(Normal(cur)) /\ phase # "down" => Normal(Normal(cur)) = Normal(cur) /\ Normal(cur) # Torn
  <2> SUFFICES ASSUME phase # "down" PROVE Normal(Normal(cur)) = Normal(cur) /\ Normal(cur) # Torn
    OBVIOUS
  <2>1. IsLab(cur) /\ Normal(cur) = Normalize(cur)
    BY <1>1 DEF LabsInv, OurRules
  <2>2. IsLab(Normal(cur)) /\ Normalize(Normal(cur)) = Normal(cur)
    BY <2>1, NormalizeAgain
  <2> QED  BY <2>2 DEF OurRules, OurLabs
<1>2. LabsInv /\ ReadsInv /\ [SessionNext]_sessionVars => ReadsInv'
  BY <1>1, ReadsStep
<1>3. ReadsInv => FileReads
  BY DEF ReadsInv
<1> QED  BY ReadsInit, <1>2, <1>3, LabsHold, EditsSession, PTL DEF SessionSpec

-----------------------------------------------------------------------------
(* What an edit shows of a lab: the parts of Facts, compared one by one. *)

\* Two sets of facts that say the same of what is not named.
Agree(A, B, named) == \A f : Shown(f, named) => (f \in A <=> f \in B)
Silent(A, named) == \A f \in A : ~Shown(f, named)

LEMMA AboutAgree ==
  ASSUME NEW l, NEW m, NEW named,
         Agree(LayoutFacts(l), LayoutFacts(m), named),
         Agree(AllNodeFacts(ToSet(l.nodes)), AllNodeFacts(ToSet(m.nodes)), named),
         Agree(AllLinkFacts(l), AllLinkFacts(m), named)
  PROVE  About(l, named) = About(m, named)
<1>1. \A f : f \in Facts(l) <=> f \in LayoutFacts(l) \/ f \in AllNodeFacts(ToSet(l.nodes)) \/ f \in AllLinkFacts(l)
  BY DEF Facts
<1>2. \A f : f \in Facts(m) <=> f \in LayoutFacts(m) \/ f \in AllNodeFacts(ToSet(m.nodes)) \/ f \in AllLinkFacts(m)
  BY DEF Facts
<1>3. \A f : f \in About(l, named) <=> f \in Facts(l) /\ Shown(f, named)
  BY DEF About
<1>4. \A f : f \in About(m, named) <=> f \in Facts(m) /\ Shown(f, named)
  BY DEF About
<1>5. \A f : f \in About(l, named) <=> f \in About(m, named)
  BY <1>1, <1>2, <1>3, <1>4 DEF Agree
<1> QED  BY <1>5

LEMMA NodesAgree ==
  ASSUME NEW S, NEW T, NEW named,
         \A n \in S : Silent(NodeFacts(n), named) \/ \E k \in T : Agree(NodeFacts(n), NodeFacts(k), named),
         \A k \in T : Silent(NodeFacts(k), named) \/ \E n \in S : Agree(NodeFacts(n), NodeFacts(k), named)
  PROVE  Agree(AllNodeFacts(S), AllNodeFacts(T), named)
BY DEF Agree, Silent, AllNodeFacts

\* The one node of a lab that changes.
LEMMA SwappedAgree ==
  ASSUME NEW S, NEW n \in S, NEW k, NEW named, Agree(NodeFacts(n), NodeFacts(k), named)
  PROVE  Agree(AllNodeFacts(S), AllNodeFacts((S \ {n}) \union {k}), named)
<1>1. \A x : Agree(NodeFacts(x), NodeFacts(x), named)
  BY DEF Agree
<1> HIDE DEF Agree
<1>2. \A x \in S : \E y \in (S \ {n}) \union {k} : Agree(NodeFacts(x), NodeFacts(y), named)
  BY <1>1
<1>3. \A y \in (S \ {n}) \union {k} : \E x \in S : Agree(NodeFacts(x), NodeFacts(y), named)
  BY <1>1
<1> QED  BY <1>2, <1>3, NodesAgree

\* A node whose name, and the names of whose interfaces, are named.
LEMMA InterfaceSilent ==
  ASSUME NEW n, NEW i, NEW named, NameOfNIC(n, i) \in named
  PROVE  Silent(NICFacts(n, i), named)
BY DEF Silent, NICFacts, Shown

LEMMA OwnSilent ==
  ASSUME NEW n, NEW named, NodeName(n.id) \in named
  PROVE  Silent(OwnFacts(n), named)
BY DEF Silent, OwnFacts, Shown

LEMMA NodeSilent ==
  ASSUME NEW n, NEW named, NodeName(n.id) \in named,
         \A i \in DOMAIN n.nics : NameOfNIC(n, i) \in named
  PROVE  Silent(NodeFacts(n), named)
<1>1. Silent(OwnFacts(n), named) /\ \A i \in DOMAIN n.nics : Silent(NICFacts(n, i), named)
  BY OwnSilent, InterfaceSilent
<1> QED  BY <1>1 DEF Silent, NodeFacts

\* What a node says of itself and what its interfaces say.
LEMMA NodeAgree ==
  ASSUME NEW n, NEW k, NEW named, Agree(OwnFacts(n), OwnFacts(k), named),
         \A i \in DOMAIN n.nics : Silent(NICFacts(n, i), named) \/ \E j \in DOMAIN k.nics : Agree(NICFacts(n, i), NICFacts(k, j), named),
         \A j \in DOMAIN k.nics : Silent(NICFacts(k, j), named) \/ \E i \in DOMAIN n.nics : Agree(NICFacts(n, i), NICFacts(k, j), named)
  PROVE  Agree(NodeFacts(n), NodeFacts(k), named)
BY DEF Agree, Silent, NodeFacts

LEMMA SameInterfaces ==
  ASSUME NEW n, NEW k, NEW named, Agree(OwnFacts(n), OwnFacts(k), named), k.id = n.id, k.nics = n.nics
  PROVE  Agree(NodeFacts(n), NodeFacts(k), named)
<1>1. \A i : NICFacts(n, i) = NICFacts(k, i)
  BY DEF NICFacts, NameOfNIC
<1>2. \A i : Agree(NICFacts(n, i), NICFacts(k, i), named)
  BY <1>1 DEF Agree
<1> QED  BY <1>2, NodeAgree

\* A mode, a state, a path, an uplink or a capability that changes is named
\* before and after.
LEMMA OwnAgree ==
  ASSUME NEW n, NEW k, NEW named, k.id = n.id, k.kind = n.kind,
         n.mode = k.mode \/ {Word(n.mode), Word(k.mode)} \subseteq named,
         DesiredState(n) = DesiredState(k) \/ {Word(DesiredState(n)), Word(DesiredState(k))} \subseteq named,
         n.disk = k.disk \/ \A path \in {n.disk, k.disk} : path = None \/ Word(path) \in named,
         \A u : NodeName(u) \in named \/ (u \in ToSet(n.uplinks) <=> u \in ToSet(k.uplinks)),
         \A c : Word(c) \in named \/ (c \in Effective(n) <=> c \in Effective(k))
  PROVE  Agree(OwnFacts(n), OwnFacts(k), named)
<1> SUFFICES ASSUME NEW f, Shown(f, named) PROVE f \in OwnFacts(n) <=> f \in OwnFacts(k)
  BY DEF Agree
<1> DEFINE node == NodeName(n.id)
<1>0. ASSUME NEW p, f = <<"path", node, Word(p)>> PROVE p # None
  <2>1. f[3] = Word(p) /\ Word(p)[2] = p
    BY <1>0 DEF Word
  <2> QED  BY <2>1 DEF Shown
<1>1. \A m, d, p : /\ f = <<"mode", node, Word(m)>> => Word(m) \notin named
                   /\ f = <<"desired", node, Word(d)>> => Word(d) \notin named
                   /\ f = <<"path", node, Word(p)>> => Word(p) \notin named /\ p # None
  BY <1>0 DEF Shown
<1>2. \A u, c : /\ f = <<"uplink", node, NodeName(u)>> => NodeName(u) \notin named
                /\ f = <<"cap", node, Word(c)>> => Word(c) \notin named
  BY DEF Shown
<1>3. f = <<"mode", node, Word(n.mode)>> <=> f = <<"mode", node, Word(k.mode)>>
  BY <1>1
<1>4. f = <<"desired", node, Word(DesiredState(n))>> <=> f = <<"desired", node, Word(DesiredState(k))>>
  BY <1>1
<1>5. f = <<"path", node, Word(n.disk)>> <=> f = <<"path", node, Word(k.disk)>>
  BY <1>1
<1>6. f \in {<<"uplink", node, NodeName(u)>> : u \in ToSet(n.uplinks)} <=> f \in {<<"uplink", node, NodeName(u)>> : u \in ToSet(k.uplinks)}
  BY <1>2
<1>7. f \in {<<"cap", node, Word(c)>> : c \in Effective(n)} <=> f \in {<<"cap", node, Word(c)>> : c \in Effective(k)}
  BY <1>2
<1> QED  BY <1>3, <1>4, <1>5, <1>6, <1>7 DEF OwnFacts

-----------------------------------------------------------------------------
(* Labs whose nodes are told apart by their ids and whose links have ends. *)

IsNIC(nic) == nic = NIC(nic.sw, nic.ext, nic.mac)
IsEnd(e) == e = Endpoint(e.kind, e.id, e.nic)
IsLink(link) == link = [from |-> link.from, to |-> link.to] /\ IsEnd(link.from) /\ IsEnd(link.to)
IsPlace(at) == at = [kind |-> at.kind, id |-> at.id]
IsDrawn(link) == link = [from |-> link.from, to |-> link.to] /\ IsPlace(link.from) /\ IsPlace(link.to)
IsDisk(d) == d = Disk(d.id, d.path, d.at) /\ IsPlace(d.at)

WholeNode(n) ==
  /\ IsNode(n) /\ IsSeq(n.nics) /\ n.caps = [add |-> n.caps.add, drop |-> n.caps.drop]
  /\ \A i \in DOMAIN n.nics : IsNIC(n.nics[i])
  /\ n.kind \notin Workload => n.nics = <<>>
  /\ n.kind # "switch" => n.uplinks = <<>>

WholeParts(l) ==
  /\ IsSeq(l.links) /\ \A link \in ToSet(l.links) : IsLink(link)
  /\ \A link \in l.drawn : IsDrawn(link)
  /\ \A d \in l.disks : IsDisk(d)
WholeNodes(S) == \A n \in S : WholeNode(n)

\* A lab as it is read from a file, in all its parts.
WholeLab(l) == IsLab(l) /\ WholeNodes(ToSet(l.nodes)) /\ WholeParts(l)

Single(S) == \A m, n \in S : m.id = n.id => m = n
Ended(S, e) == e.kind \in Workload /\ \E n \in S : n.kind = e.kind /\ n.id = e.id /\ e.nic \in DOMAIN n.nics
Firm(l) ==
  /\ Single(ToSet(l.nodes)) /\ \A n \in ToSet(l.nodes) : n.id # None
  /\ \A link \in ToSet(l.links) : Ended(ToSet(l.nodes), link.from) /\ Ended(ToSet(l.nodes), link.to)

LEMMA NodeFound ==
  ASSUME NEW l, Single(ToSet(l.nodes)), NEW n \in ToSet(l.nodes)
  PROVE  NodeOf(l, n.kind, n.id) = n
BY DEF Single, NodeOf


LEMMA LinksAgree ==
  ASSUME NEW l, NEW m, NEW named,
         \A link \in ToSet(l.links) :
           \/ NameOfEnd(l, link.from) \in named \/ NameOfEnd(l, link.to) \in named
           \/ \E other \in ToSet(m.links) : /\ NameOfEnd(m, other.from) = NameOfEnd(l, link.from)
                                            /\ NameOfEnd(m, other.to) = NameOfEnd(l, link.to),
         \A other \in ToSet(m.links) :
           \/ NameOfEnd(m, other.from) \in named \/ NameOfEnd(m, other.to) \in named
           \/ \E link \in ToSet(l.links) : /\ NameOfEnd(m, other.from) = NameOfEnd(l, link.from)
                                           /\ NameOfEnd(m, other.to) = NameOfEnd(l, link.to)
  PROVE  Agree(AllLinkFacts(l), AllLinkFacts(m), named)
<1> SUFFICES ASSUME NEW f, Shown(f, named) PROVE f \in AllLinkFacts(l) <=> f \in AllLinkFacts(m)
  BY DEF Agree
<1>1. ASSUME NEW link \in ToSet(l.links), f \in LinkFacts(l, link) PROVE f \in AllLinkFacts(m)
  <2>1. NameOfEnd(l, link.from) \notin named /\ NameOfEnd(l, link.to) \notin named
    BY <1>1 DEF LinkFacts, Shown
  <2>2. PICK other \in ToSet(m.links) : /\ NameOfEnd(m, other.from) = NameOfEnd(l, link.from)
                                        /\ NameOfEnd(m, other.to) = NameOfEnd(l, link.to)
    BY <2>1
  <2>3. f \in LinkFacts(m, other)
    BY <1>1, <2>2 DEF LinkFacts
  <2> QED  BY <2>3 DEF AllLinkFacts
<1>2. ASSUME NEW other \in ToSet(m.links), f \in LinkFacts(m, other) PROVE f \in AllLinkFacts(l)
  <2>1. NameOfEnd(m, other.from) \notin named /\ NameOfEnd(m, other.to) \notin named
    BY <1>2 DEF LinkFacts, Shown
  <2>2. PICK link \in ToSet(l.links) : /\ NameOfEnd(m, other.from) = NameOfEnd(l, link.from)
                                       /\ NameOfEnd(m, other.to) = NameOfEnd(l, link.to)
    BY <2>1
  <2>3. f \in LinkFacts(l, link)
    BY <1>2, <2>2 DEF LinkFacts
  <2> QED  BY <2>3 DEF AllLinkFacts
<1> QED  BY <1>1, <1>2 DEF AllLinkFacts

\* An end of a link, where its node is.
LEMMA EndName ==
  ASSUME NEW l, Single(ToSet(l.nodes)), NEW n \in ToSet(l.nodes), NEW e, e.kind = n.kind, e.id = n.id
  PROVE  NameOfEnd(l, e) = NameOfNIC(n, e.nic)
BY NodeFound DEF NameOfEnd

\* One node is another one, under the same name.
Swapped(S, n, k) == (S \ {n}) \union {k}

LEMMA SwappedSingle ==
  ASSUME NEW S, Single(S), NEW n \in S, NEW k, k.id = n.id
  PROVE  Single(Swapped(S, n, k)) /\ \A x \in S \ {n} : x.id # n.id
BY DEF Single, Swapped

LEMMA SwapLinks ==
  ASSUME NEW l, NEW m, NEW named, Firm(l), NEW n \in ToSet(l.nodes), NEW k, k.id = n.id, k.kind = n.kind,
         ToSet(m.nodes) = Swapped(ToSet(l.nodes), n, k),
         ToSet(m.links) \subseteq ToSet(l.links),
         \A link \in ToSet(l.links) : NameOfEnd(l, link.from) \in named \/ NameOfEnd(l, link.to) \in named \/ link \in ToSet(m.links),
         \A i \in DOMAIN n.nics : NameOfNIC(n, i) = NameOfNIC(k, i) \/ {NameOfNIC(n, i), NameOfNIC(k, i)} \subseteq named
  PROVE  Agree(AllLinkFacts(l), AllLinkFacts(m), named)
<1>1. Single(ToSet(l.nodes)) /\ Single(ToSet(m.nodes)) /\ \A x \in ToSet(l.nodes) \ {n} : x.id # n.id
  BY SwappedSingle DEF Firm
<1>2. ASSUME NEW e, Ended(ToSet(l.nodes), e)
      PROVE  NameOfEnd(l, e) = NameOfEnd(m, e) \/ {NameOfEnd(l, e), NameOfEnd(m, e)} \subseteq named
  <2>1. PICK x \in ToSet(l.nodes) : x.kind = e.kind /\ x.id = e.id /\ e.nic \in DOMAIN x.nics
    BY <1>2 DEF Ended
  <2>2. NameOfEnd(l, e) = NameOfNIC(x, e.nic)
    BY <1>1, <2>1, EndName
  <2>3. CASE x = n
    <3>1. k \in ToSet(m.nodes) /\ k.kind = e.kind /\ k.id = e.id
      BY <2>1, <2>3 DEF Swapped
    <3>2. NameOfEnd(m, e) = NameOfNIC(k, e.nic)
      BY <1>1, <3>1, EndName
    <3> QED  BY <2>1, <2>2, <2>3, <3>2
  <2>4. CASE x # n
    <3>1. x \in ToSet(m.nodes)
      BY <2>4 DEF Swapped
    <3>2. NameOfEnd(m, e) = NameOfNIC(x, e.nic)
      BY <1>1, <2>1, <3>1, EndName
    <3> QED  BY <2>2, <3>2
  <2> QED  BY <2>3, <2>4
<1>3. \A link \in ToSet(l.links) : Ended(ToSet(l.nodes), link.from) /\ Ended(ToSet(l.nodes), link.to)
  BY DEF Firm
<1>4. \A link \in ToSet(l.links) :
        \/ NameOfEnd(l, link.from) \in named \/ NameOfEnd(l, link.to) \in named
        \/ \E other \in ToSet(m.links) : /\ NameOfEnd(m, other.from) = NameOfEnd(l, link.from)
                                         /\ NameOfEnd(m, other.to) = NameOfEnd(l, link.to)
  BY <1>2, <1>3
<1>5. \A other \in ToSet(m.links) :
        \/ NameOfEnd(m, other.from) \in named \/ NameOfEnd(m, other.to) \in named
        \/ \E link \in ToSet(l.links) : /\ NameOfEnd(m, other.from) = NameOfEnd(l, link.from)
                                        /\ NameOfEnd(m, other.to) = NameOfEnd(l, link.to)
  BY <1>2, <1>3
<1> QED  BY <1>4, <1>5, LinksAgree

LEMMA SwapAbout ==
  ASSUME NEW l, NEW m, NEW named, Firm(l), NEW n \in ToSet(l.nodes), NEW k, k.id = n.id, k.kind = n.kind,
         ToSet(m.nodes) = Swapped(ToSet(l.nodes), n, k),
         ToSet(m.links) \subseteq ToSet(l.links),
         \A link \in ToSet(l.links) : NameOfEnd(l, link.from) \in named \/ NameOfEnd(l, link.to) \in named \/ link \in ToSet(m.links),
         \A i \in DOMAIN n.nics : NameOfNIC(n, i) = NameOfNIC(k, i) \/ {NameOfNIC(n, i), NameOfNIC(k, i)} \subseteq named,
         Agree(NodeFacts(n), NodeFacts(k), named), m.placed = l.placed, m.drawn = l.drawn, m.disks = l.disks
  PROVE  About(l, named) = About(m, named)
<1>1. Agree(AllLinkFacts(l), AllLinkFacts(m), named)
  BY SwapLinks
<1>2. Agree(AllNodeFacts(ToSet(l.nodes)), AllNodeFacts(ToSet(m.nodes)), named)
  BY SwappedAgree DEF Swapped
<1>3. Agree(LayoutFacts(l), LayoutFacts(m), named)
  BY DEF Agree, LayoutFacts
<1> QED  BY <1>1, <1>2, <1>3, AboutAgree

\* A node that is changed where it is, and the links that are taken away.
LEMMA SwapNodes ==
  ASSUME NEW nodes, NEW new, DOMAIN new = DOMAIN nodes, Single(ToSet(nodes)), NEW n \in ToSet(nodes), NEW k,
         \A i \in DOMAIN nodes : new[i] = IF nodes[i].kind = n.kind /\ nodes[i].id = n.id THEN k ELSE nodes[i]
  PROVE  ToSet(new) = Swapped(ToSet(nodes), n, k)
<1>1. \A i \in DOMAIN nodes : new[i] = IF nodes[i] = n THEN k ELSE nodes[i]
  BY DEF Single, ToSet
<1> QED  BY <1>1 DEF Swapped, ToSet

Alters(nodes, new, n, k) ==
  /\ DOMAIN new = DOMAIN nodes /\ new = [i \in DOMAIN new |-> new[i]]
  /\ \A i \in DOMAIN nodes : new[i] = IF nodes[i].kind = n.kind /\ nodes[i].id = n.id THEN k ELSE nodes[i]

\* A whole lab that is another one with one node changed.
SwapsNode(l, m, n, k) ==
  /\ WholeLab(m) /\ ToSet(m.nodes) = Swapped(ToSet(l.nodes), n, k)
  /\ m.links = l.links /\ m.placed = l.placed /\ m.drawn = l.drawn /\ m.disks = l.disks

LEMMA SwapWhole ==
  ASSUME NEW l, WholeLab(l), Single(ToSet(l.nodes)), NEW n \in ToSet(l.nodes), NEW k, WholeNode(k),
         NEW nodes, Alters(l.nodes, nodes, n, k), NEW m, m = [l EXCEPT !.nodes = nodes]
  PROVE  SwapsNode(l, m, n, k)
<1>1. ToSet(nodes) = Swapped(ToSet(l.nodes), n, k)
  BY SwapNodes DEF Alters
<1>2. \A i \in DOMAIN l.nodes : IsNode(l.nodes[i]) => IsNode(nodes[i])
  BY DEF WholeNode, Alters
<1>3. IsLab(m)
  BY <1>2, MappedLab DEF WholeLab, Alters
<1>4. m.nodes = nodes /\ m.links = l.links /\ m.placed = l.placed /\ m.drawn = l.drawn /\ m.disks = l.disks
  BY DEF WholeLab, IsLab, LabLike
<1>5. WholeNodes(ToSet(m.nodes)) /\ WholeParts(m)
  BY <1>1, <1>4 DEF WholeLab, WholeNodes, WholeParts, Swapped
<1> QED  BY <1>1, <1>3, <1>4, <1>5 DEF WholeLab, SwapsNode

LEMMA LinksOnly ==
  ASSUME NEW l, WholeLab(l), NEW links, IsSeq(links), \A link \in ToSet(links) : IsLink(link), NEW m, m = [l EXCEPT !.links = links]
  PROVE  /\ WholeLab(m) /\ m.links = links
         /\ m.nodes = l.nodes /\ m.placed = l.placed /\ m.drawn = l.drawn /\ m.disks = l.disks
<1>1. IsLab(m) /\ m.links = links /\ m.nodes = l.nodes /\ m.placed = l.placed /\ m.drawn = l.drawn /\ m.disks = l.disks
  BY DEF WholeLab, IsLab, LabLike
<1> QED  BY <1>1 DEF WholeLab, WholeParts

LEMMA WithoutLinks ==
  ASSUME NEW l, WholeLab(l), NEW e, NEW kind, NEW id
  PROVE  /\ WholeLab(WithoutEndLinks(l, e)) /\ WithoutEndLinks(l, e).nodes = l.nodes
         /\ ToSet(WithoutEndLinks(l, e).links) = {link \in ToSet(l.links) : link.from # e /\ link.to # e}
         /\ WithoutEndLinks(l, e).placed = l.placed /\ WithoutEndLinks(l, e).drawn = l.drawn
         /\ WithoutEndLinks(l, e).disks = l.disks
         /\ WholeLab(WithoutNodeLinks(l, kind, id)) /\ WithoutNodeLinks(l, kind, id).nodes = l.nodes
         /\ ToSet(WithoutNodeLinks(l, kind, id).links) =
              {link \in ToSet(l.links) : ~(link.from.kind = kind /\ link.from.id = id) /\ ~(link.to.kind = kind /\ link.to.id = id)}
         /\ WithoutNodeLinks(l, kind, id).placed = l.placed /\ WithoutNodeLinks(l, kind, id).drawn = l.drawn
         /\ WithoutNodeLinks(l, kind, id).disks = l.disks
<1> DEFINE some == {link \in ToSet(l.links) : \A f \in Ends(link) : ~(f.kind = kind /\ f.id = id)}
           others == {link \in ToSet(l.links) : \A f \in Ends(link) : ~(f = e)}
<1>1. WithoutNodeLinks(l, kind, id) = [l EXCEPT !.links = Among(l.links, some)]
  BY DEF WithoutNodeLinks, WithoutLinksOf
<1>2. WithoutEndLinks(l, e) = [l EXCEPT !.links = Among(l.links, others)]
  BY DEF WithoutEndLinks, WithoutLinksOf
<1>3. some = {link \in ToSet(l.links) : ~(link.from.kind = kind /\ link.from.id = id) /\ ~(link.to.kind = kind /\ link.to.id = id)}
  BY DEF Ends
<1>4. others = {link \in ToSet(l.links) : link.from # e /\ link.to # e}
  BY DEF Ends
<1>5. some \subseteq ToSet(l.links) /\ others \subseteq ToSet(l.links)
  OBVIOUS
<1> HIDE DEF some, others
<1>6. IsSeq(Among(l.links, some)) /\ ToSet(Among(l.links, some)) = some
  BY <1>5, AmongIs DEF WholeLab, WholeParts
<1>7. IsSeq(Among(l.links, others)) /\ ToSet(Among(l.links, others)) = others
  BY <1>5, AmongIs DEF WholeLab, WholeParts
<1>8. \A link \in ToSet(l.links) : IsLink(link)
  BY DEF WholeLab, WholeParts
<1>9. /\ WholeLab(WithoutNodeLinks(l, kind, id)) /\ WithoutNodeLinks(l, kind, id).nodes = l.nodes
      /\ WithoutNodeLinks(l, kind, id).links = Among(l.links, some)
      /\ WithoutNodeLinks(l, kind, id).placed = l.placed /\ WithoutNodeLinks(l, kind, id).drawn = l.drawn
      /\ WithoutNodeLinks(l, kind, id).disks = l.disks
  BY <1>1, <1>5, <1>6, <1>8, LinksOnly
<1>10. /\ WholeLab(WithoutEndLinks(l, e)) /\ WithoutEndLinks(l, e).nodes = l.nodes
       /\ WithoutEndLinks(l, e).links = Among(l.links, others)
       /\ WithoutEndLinks(l, e).placed = l.placed /\ WithoutEndLinks(l, e).drawn = l.drawn
       /\ WithoutEndLinks(l, e).disks = l.disks
  BY <1>2, <1>5, <1>7, <1>8, LinksOnly
<1> QED  BY <1>3, <1>4, <1>6, <1>7, <1>9, <1>10

\* An edit that renames nothing.
LEMMA FactsAre ==
  ASSUME NEW l, NEW f \in Facts(l)
  PROVE  f = <<f[1], f[2], f[3]>>
<1>1. CASE f \in AllNodeFacts(ToSet(l.nodes))
  <2>1. PICK n \in ToSet(l.nodes) : f \in NodeFacts(n)
    BY <1>1 DEF AllNodeFacts
  <2>2. ASSUME NEW i, f \in NICFacts(n, i) PROVE f = <<f[1], f[2], f[3]>>
    BY <2>2 DEF NICFacts
  <2>3. f \in OwnFacts(n) => f = <<f[1], f[2], f[3]>>
    BY DEF OwnFacts
  <2> QED  BY <2>1, <2>2, <2>3 DEF NodeFacts
<1>2. CASE f \in AllLinkFacts(l)
  BY <1>2 DEF AllLinkFacts, LinkFacts
<1>3. CASE f \in LayoutFacts(l)
  BY <1>3 DEF LayoutFacts
<1> QED  BY <1>1, <1>2, <1>3 DEF Facts

LEMMA CarriedNowhere ==
  ASSUME NEW l, NEW named, NEW a
  PROVE  {Carried(f, a, a) : f \in About(l, named)} = About(l, named)
<1>1. ASSUME NEW f \in About(l, named) PROVE Carried(f, a, a) = f
  <2>1. f = <<f[1], f[2], f[3]>>
    BY FactsAre DEF About
  <2>2. Carried(f, a, a) = <<f[1], f[2], f[3]>>
    BY DEF Carried, Subst
  <2> QED  BY <2>1, <2>2
<1> QED  BY <1>1

-----------------------------------------------------------------------------
(* Edit by edit: what it leaves is a whole lab that differs only in what the *)
(* edit names.                                                               *)

\* What names refer to: the nodes that an interface, an uplink, a drawn link
\* or a disk leads to.
Present(S, kind, id) == \E n \in S : n.kind = kind /\ n.id = id
Closed(l) ==
  LET S == ToSet(l.nodes)
  IN  /\ \A n \in S : /\ \A i \in DOMAIN n.nics : /\ n.nics[i].sw # None => Present(S, "switch", n.nics[i].sw)
                                                  /\ n.nics[i].ext # None => Present(S, "external", n.nics[i].ext)
                      /\ \A u \in ToSet(n.uplinks) : Present(S, "external", u)
      /\ \A link \in l.drawn : Present(S, link.from.kind, link.from.id) /\ Present(S, link.to.kind, link.to.id)
      /\ \A d \in l.disks : d.at = Nowhere \/ Present(S, d.at.kind, d.at.id)

\* A lab that the session holds between edits.
Ready(l) ==
  /\ WholeLab(l) /\ Firm(l) /\ Closed(l)
  /\ \A n \in ToSet(l.nodes) : n.kind = "switch" => n.legacy = None

EditsOnly ==
  /\ WholeLab(cur')
  /\ {Carried(f, op'.from, op'.to) : f \in About(cur, op'.names)} = About(cur', op'.names)

LEMMA OnlyOne ==
  ASSUME NEW nodes, Single(ToSet(nodes)), NEW n \in ToSet(nodes), NEW i \in DOMAIN nodes, nodes[i].id = n.id
  PROVE  nodes[i] = n
BY DEF Single, ToSet

LEMMA PlainEdit ==
  ASSUME NEW named, NEW a, op' = Op(named, a, a), WholeLab(cur'), About(cur, named) = About(cur', named)
  PROVE  EditsOnly
BY CarriedNowhere DEF EditsOnly, Op

\* One node that keeps its interfaces.
LEMMA OneNode ==
  ASSUME NEW l, Firm(l), NEW n \in ToSet(l.nodes), NEW k, k.id = n.id, k.kind = n.kind, k.nics = n.nics,
         NEW m, SwapsNode(l, m, n, k), NEW named, Agree(OwnFacts(n), OwnFacts(k), named)
  PROVE  About(l, named) = About(m, named)
<1>1. Agree(NodeFacts(n), NodeFacts(k), named)
  BY SameInterfaces
<1>2. \A i : NameOfNIC(n, i) = NameOfNIC(k, i)
  BY DEF NameOfNIC
<1> QED  BY <1>1, <1>2, SwapAbout DEF SwapsNode

LEMMA ReadyNode ==
  ASSUME NEW l, Ready(l), NEW n \in ToSet(l.nodes)
  PROVE  WholeNode(n) /\ IsNode(n) /\ WholeLab(l) /\ Single(ToSet(l.nodes)) /\ Firm(l)
BY DEF Ready, Firm, WholeLab, WholeNodes, WholeNode

LEMMA SetDesiredOnly ==
  ASSUME Ready(cur), NEW kind, NEW ref, Resolve(cur, ref, {kind}) # None, NEW state \in {"running", "stopped"},
         SetDesired(kind, ref, state)
  PROVE  EditsOnly
<1> DEFINE id == Resolve(cur, ref, {kind})
           n == NodeOf(cur, kind, id)
           k == [n EXCEPT !.desired = state]
           nodes == [i \in DOMAIN cur.nodes |->
                       IF cur.nodes[i].kind = kind /\ cur.nodes[i].id = id
                       THEN [cur.nodes[i] EXCEPT !.desired = state] ELSE cur.nodes[i]]
           named == Words({state, DesiredState(n)})
<1>1. cur' = [cur EXCEPT !.nodes = nodes] /\ op' = Op(named, None, None)
  BY DEF SetDesired, Apply, OnNode, OnNodes, Names
<1>2. n \in ToSet(cur.nodes) /\ n.kind = kind /\ n.id = id
  BY ResolveId
<1>3. WholeNode(n) /\ IsNode(n) /\ WholeLab(cur) /\ Single(ToSet(cur.nodes)) /\ Firm(cur)
  BY <1>2, ReadyNode
<1> HIDE DEF n, id
<1>4. IsNode(k)
  BY <1>3, NodeChanged
<1>5. /\ k.id = n.id /\ k.kind = n.kind /\ k.mode = n.mode /\ k.uplinks = n.uplinks /\ k.nics = n.nics
      /\ k.caps = n.caps /\ k.disk = n.disk /\ k.desired = state
  BY <1>3 DEF IsNode
<1>6. Alters(cur.nodes, nodes, n, k)
  BY <1>2, <1>3, OnlyOne DEF Alters
<1> HIDE DEF k, nodes
<1>7. WholeNode(k)
  BY <1>3, <1>4, <1>5 DEF WholeNode
<1>8. SwapsNode(cur, cur', n, k)
  BY <1>1, <1>2, <1>3, <1>6, <1>7, SwapWhole
<1>9. DesiredState(k) = state
  BY <1>5, LabRulesAssumption DEF LabRulesAssumption, DesiredState
<1>10. Agree(OwnFacts(n), OwnFacts(k), named)
  BY <1>5, <1>9, OwnAgree DEF Words, Effective
<1>11. About(cur, named) = About(cur', named)
  BY <1>2, <1>3, <1>5, <1>8, <1>10, OneNode
<1> QED  BY <1>1, <1>8, <1>11, PlainEdit DEF SwapsNode

LEMMA SetCapabilityOnly ==
  ASSUME Ready(cur), NEW ref, Resolve(cur, ref, {"container"}) # None, NEW c, NEW on, SetCapability(ref, c, on)
  PROVE  EditsOnly
<1> DEFINE id == Resolve(cur, ref, {"container"})
           n == NodeOf(cur, "container", id)
           caps == [add  |-> (n.caps.add \ {c}) \union (IF on /\ c \notin DefaultCaps THEN {c} ELSE {}),
                    drop |-> (n.caps.drop \ {c}) \union (IF ~on /\ c \in DefaultCaps THEN {c} ELSE {})]
           k == [n EXCEPT !.caps = caps]
           nodes == [i \in DOMAIN cur.nodes |->
                       IF cur.nodes[i].kind = "container" /\ cur.nodes[i].id = id
                       THEN WithCap(cur.nodes[i], c, on) ELSE cur.nodes[i]]
           named == {Word(c)}
<1>1. cur' = [cur EXCEPT !.nodes = nodes] /\ op' = Op(named, None, None)
  BY DEF SetCapability, Apply, OnNode, OnNodes, Names
<1>2. n \in ToSet(cur.nodes) /\ n.kind = "container" /\ n.id = id
  BY ResolveId
<1>3. WholeNode(n) /\ IsNode(n) /\ WholeLab(cur) /\ Single(ToSet(cur.nodes)) /\ Firm(cur)
  BY <1>2, ReadyNode
<1> HIDE DEF n, id
<1>4. caps = [add |-> caps.add, drop |-> caps.drop] /\ \A d : d # c => (d \in caps.add <=> d \in n.caps.add) /\ (d \in caps.drop <=> d \in n.caps.drop)
  OBVIOUS
<1>5. WithCap(n, c, on) = k
  BY DEF WithCap
<1> HIDE DEF caps
<1>6. IsNode(k)
  BY <1>3, NodeChanged
<1>7. /\ k.id = n.id /\ k.kind = n.kind /\ k.mode = n.mode /\ k.uplinks = n.uplinks /\ k.nics = n.nics
      /\ k.caps = caps /\ k.disk = n.disk /\ k.desired = n.desired
  BY <1>3 DEF IsNode
<1>8. Alters(cur.nodes, nodes, n, k)
  BY <1>2, <1>3, <1>5, OnlyOne DEF Alters
<1> HIDE DEF k, nodes
<1>9. WholeNode(k)
  BY <1>3, <1>4, <1>6, <1>7 DEF WholeNode
<1>10. SwapsNode(cur, cur', n, k)
  BY <1>1, <1>2, <1>3, <1>8, <1>9, SwapWhole
<1>11. \A d : Word(d) \in named \/ (d \in Effective(n) <=> d \in Effective(k))
  BY <1>4, <1>7 DEF Effective
<1>12. Agree(OwnFacts(n), OwnFacts(k), named)
  BY <1>7, <1>11, OwnAgree DEF DesiredState
<1>13. About(cur, named) = About(cur', named)
  BY <1>2, <1>3, <1>7, <1>10, <1>12, OneNode
<1> QED  BY <1>1, <1>10, <1>13, PlainEdit DEF SwapsNode

LEMMA WithUplinksIs ==
  ASSUME NEW n, IsNode(n), NEW uplinks
  PROVE  LET k == WithUplinks(n, uplinks)
         IN  /\ k.id = n.id /\ k.kind = n.kind /\ k.uplinks = uplinks /\ k.nics = n.nics /\ k.legacy = None
             /\ k.caps = n.caps /\ k.disk = n.disk /\ k.desired = n.desired
             /\ k.mode = n.mode \/ {k.mode, n.mode} = {"bridge", "macnat-bridge"}
<1> DEFINE mode == IF uplinks = <<>> /\ n.mode = "macnat-bridge" THEN "bridge" ELSE n.mode
           a == [n EXCEPT !.uplinks = uplinks]
           b == [a EXCEPT !.legacy = None]
<1>1. WithUplinks(n, uplinks) = [b EXCEPT !.mode = mode]
  BY DEF WithUplinks
<1>2. mode = n.mode \/ {mode, n.mode} = {"bridge", "macnat-bridge"}
  OBVIOUS
<1> HIDE DEF mode
<1>3. /\ a = [id |-> n.id, name |-> n.name, kind |-> n.kind, mode |-> n.mode, uplinks |-> uplinks, legacy |-> n.legacy,
              nics |-> n.nics, dhcp |-> n.dhcp, desired |-> n.desired, caps |-> n.caps, disk |-> n.disk]
  BY DEF IsNode
<1> HIDE DEF a
<1>4. /\ b = [id |-> n.id, name |-> n.name, kind |-> n.kind, mode |-> n.mode, uplinks |-> uplinks, legacy |-> None,
              nics |-> n.nics, dhcp |-> n.dhcp, desired |-> n.desired, caps |-> n.caps, disk |-> n.disk]
  BY <1>3
<1> HIDE DEF b
<1> QED  BY <1>1, <1>2, <1>4

\* A switch that has no field of an old file left has the uplinks it names.
LEMMA UplinksAre ==
  ASSUME NEW n, IsNode(n), n.legacy = None
  PROVE  IsSeq(SwitchUplinks(n)) /\ ToSet(SwitchUplinks(n)) = ToSet(n.uplinks)
<1> DEFINE s == n.uplinks \o <<>>
<1>1. s = n.uplinks /\ IsSeq(n.uplinks)
  BY DEF IsNode, IsSeq
<1>2. SwitchUplinks(n) = Distinct(s)
  BY DEF SwitchUplinks
<1> HIDE DEF s
<1>3. \A x : x \in ToSet(Distinct(n.uplinks)) <=> x \in ToSet(n.uplinks)
  BY <1>1, DistinctIs
<1> QED  BY <1>1, <1>2, <1>3, DistinctIs

LEMMA SwitchDisconnectOnly ==
  ASSUME Ready(cur), NEW ref, Resolve(cur, ref, {"switch"}) # None, NEW extRef, SwitchDisconnectExternal(ref, extRef)
  PROVE  EditsOnly
<1> DEFINE id == Resolve(cur, ref, {"switch"})
           n == NodeOf(cur, "switch", id)
           uplinks == SwitchUplinks(n)
           gone == IF extRef = None THEN ToSet(uplinks) ELSE {Asked(extRef, "external")}
           left == Among(uplinks, ToSet(uplinks) \ gone)
           k == WithUplinks(n, left)
           nodes == [i \in DOMAIN cur.nodes |->
                       IF cur.nodes[i].kind = "switch" /\ cur.nodes[i].id = id THEN WithUplinks(cur.nodes[i], left) ELSE cur.nodes[i]]
           named == {NodeName(u) : u \in gone} \union Words({"bridge", "macnat-bridge"})
<1>1. cur' = [cur EXCEPT !.nodes = nodes] /\ op' = Op(named, None, None)
  BY DEF SwitchDisconnectExternal, Apply, OnNode, OnNodes, Names
<1>2. n \in ToSet(cur.nodes) /\ n.kind = "switch" /\ n.id = id
  BY ResolveId
<1>3. WholeNode(n) /\ IsNode(n) /\ WholeLab(cur) /\ Single(ToSet(cur.nodes)) /\ Firm(cur) /\ n.legacy = None
  BY <1>2, ReadyNode DEF Ready
<1> HIDE DEF n, id
<1>4. IsSeq(uplinks) /\ ToSet(uplinks) = ToSet(n.uplinks)
  BY <1>3, UplinksAre
<1> HIDE DEF uplinks, gone
<1>5. IsSeq(left) /\ \A u : u \in ToSet(left) <=> u \in ToSet(n.uplinks) /\ u \notin gone
  BY <1>4, AmongIs
<1> HIDE DEF left
<1>6. IsNode(k)
  BY <1>3, <1>5, WithUplinksIsNode
<1>7. /\ k.id = n.id /\ k.kind = n.kind /\ k.uplinks = left /\ k.nics = n.nics
      /\ k.caps = n.caps /\ k.disk = n.disk /\ k.desired = n.desired
      /\ k.mode = n.mode \/ {k.mode, n.mode} = {"bridge", "macnat-bridge"}
  BY <1>3, WithUplinksIs
<1>8. Alters(cur.nodes, nodes, n, k)
  BY <1>2, <1>3, OnlyOne DEF Alters
<1> HIDE DEF k, nodes
<1>9. WholeNode(k)
  BY <1>2, <1>3, <1>6, <1>7 DEF WholeNode
<1>10. SwapsNode(cur, cur', n, k)
  BY <1>1, <1>2, <1>3, <1>8, <1>9, SwapWhole
<1>11. \A u : NodeName(u) \in named \/ (u \in ToSet(n.uplinks) <=> u \in ToSet(k.uplinks))
  BY <1>5, <1>7
<1>12. n.mode = k.mode \/ {Word(n.mode), Word(k.mode)} \subseteq named
  BY <1>7 DEF Words
<1>13. Agree(OwnFacts(n), OwnFacts(k), named)
  BY <1>7, <1>11, <1>12, OwnAgree DEF DesiredState, Effective
<1>14. About(cur, named) = About(cur', named)
  BY <1>2, <1>3, <1>7, <1>10, <1>13, OneNode
<1> QED  BY <1>1, <1>10, <1>14, PlainEdit DEF SwapsNode

-----------------------------------------------------------------------------
(* Interfaces: those of one node, which links know by their places. *)

LEMMA SameNIC ==
  ASSUME NEW n, NEW k, k.id = n.id, NEW i \in DOMAIN n.nics, NEW j \in DOMAIN k.nics, k.nics[j] = n.nics[i]
  PROVE  NICFacts(n, i) = NICFacts(k, j) /\ NameOfNIC(n, i) = NameOfNIC(k, j)
BY DEF NICFacts, NameOfNIC

\* A workload that is given other interfaces.
WithNICs(n, k, nics) ==
  /\ WholeNode(k) /\ k.id = n.id /\ k.kind = n.kind /\ k.nics = nics
  /\ \A named : Agree(OwnFacts(n), OwnFacts(k), named)

LEMMA NICsGiven ==
  ASSUME NEW n, WholeNode(n), n.kind \in Workload, NEW nics, IsSeq(nics), \A i \in DOMAIN nics : IsNIC(nics[i])
  PROVE  WithNICs(n, [n EXCEPT !.nics = nics], nics)
<1> DEFINE k == [n EXCEPT !.nics = nics]
<1>1. IsNode(k)
  BY NodeChanged DEF WholeNode
<1>2. /\ k.id = n.id /\ k.kind = n.kind /\ k.mode = n.mode /\ k.uplinks = n.uplinks /\ k.nics = nics
      /\ k.caps = n.caps /\ k.disk = n.disk /\ k.desired = n.desired
  BY DEF WholeNode, IsNode
<1> HIDE DEF k
<1>3. WholeNode(k)
  BY <1>1, <1>2 DEF WholeNode
<1>4. \A named : Agree(OwnFacts(n), OwnFacts(k), named)
  BY <1>2, OwnAgree DEF DesiredState, Effective
<1>5. WithNICs(n, k, nics)
  BY <1>2, <1>3, <1>4 DEF WithNICs
<1> QED  BY <1>5 DEF k

LEMMA SeqPut ==
  ASSUME NEW s, IsSeq(s), NEW i \in DOMAIN s, NEW x
  PROVE  LET t == [s EXCEPT ![i] = x]
         IN  IsSeq(t) /\ DOMAIN t = DOMAIN s /\ t[i] = x /\ \A j \in DOMAIN s \ {i} : t[j] = s[j]
<1> DEFINE t == [s EXCEPT ![i] = x]
<1>1. Len(s) \in Nat /\ DOMAIN s = 1..Len(s)
  BY SeqIs
<1>2. DOMAIN t = DOMAIN s /\ t[i] = x /\ \A j \in DOMAIN s \ {i} : t[j] = s[j]
  OBVIOUS
<1>3. t = [j \in DOMAIN s |-> t[j]]
  OBVIOUS
<1>4. IsSeq(t)
  BY <1>1, <1>2, <1>3, IsSeqFcn
<1> QED  BY <1>2, <1>4

LEMMA SeqAppend ==
  ASSUME NEW s, IsSeq(s), NEW x
  PROVE  LET t == Append(s, x)
         IN  /\ IsSeq(t) /\ DOMAIN t = DOMAIN s \union {Len(s) + 1} /\ t[Len(s) + 1] = x
             /\ Len(s) + 1 \notin DOMAIN s /\ \A j \in DOMAIN s : t[j] = s[j]
<1>1. Len(s) \in Nat /\ DOMAIN s = 1..Len(s) /\ s = [i \in 1..Len(s) |-> s[i]]
  BY SeqIs
<1> DEFINE t == [i \in 1..(Len(s) + 1) |-> IF i <= Len(s) THEN s[i] ELSE x]
<1>2. Append(s, x) = t
  BY <1>1, AppendIs
<1>3. IsSeq(t)
  BY <1>1, IsSeqFcn
<1>4. DOMAIN t = DOMAIN s \union {Len(s) + 1} /\ t[Len(s) + 1] = x /\ Len(s) + 1 \notin DOMAIN s /\ \A j \in DOMAIN s : t[j] = s[j]
  BY <1>1
<1> QED  BY <1>2, <1>3, <1>4

\* One interface that is named before and after.
LEMMA NICPut ==
  ASSUME NEW n, WholeNode(n), n.kind \in Workload, NEW i \in DOMAIN n.nics, NEW x, IsNIC(x)
  PROVE  WithNICs(n, [n EXCEPT !.nics = [n.nics EXCEPT ![i] = x]], [n.nics EXCEPT ![i] = x])
<1> DEFINE nics == [n.nics EXCEPT ![i] = x]
<1>1. IsSeq(nics) /\ DOMAIN nics = DOMAIN n.nics /\ nics[i] = x /\ \A j \in DOMAIN n.nics \ {i} : nics[j] = n.nics[j]
  BY SeqPut DEF WholeNode
<1> HIDE DEF nics
<1>2. \A j \in DOMAIN nics : IsNIC(nics[j])
  BY <1>1 DEF WholeNode
<1>3. WithNICs(n, [n EXCEPT !.nics = nics], nics)
  BY <1>1, <1>2, NICsGiven
<1> QED  BY <1>3 DEF nics

LEMMA OneNIC ==
  ASSUME NEW n, WholeNode(n), NEW i \in DOMAIN n.nics, NEW x, NEW k, WithNICs(n, k, [n.nics EXCEPT ![i] = x]),
         NEW named, NameOfNIC(n, i) \in named, NameOfNIC(k, i) \in named
  PROVE  /\ Agree(NodeFacts(n), NodeFacts(k), named)
         /\ \A j \in DOMAIN n.nics : NameOfNIC(n, j) = NameOfNIC(k, j) \/ {NameOfNIC(n, j), NameOfNIC(k, j)} \subseteq named
<1> DEFINE nics == [n.nics EXCEPT ![i] = x]
<1>1. DOMAIN nics = DOMAIN n.nics /\ \A j \in DOMAIN n.nics \ {i} : nics[j] = n.nics[j]
  BY SeqPut DEF WholeNode
<1>2. k.nics = nics /\ k.id = n.id /\ Agree(OwnFacts(n), OwnFacts(k), named)
  BY DEF WithNICs
<1> HIDE DEF nics
<1>3. \A j \in DOMAIN n.nics \ {i} : NICFacts(n, j) = NICFacts(k, j) /\ NameOfNIC(n, j) = NameOfNIC(k, j)
  BY <1>1, <1>2, SameNIC
<1>4. Silent(NICFacts(n, i), named) /\ Silent(NICFacts(k, i), named)
  BY InterfaceSilent
<1>5. \A j \in DOMAIN n.nics : Silent(NICFacts(n, j), named) \/ Agree(NICFacts(n, j), NICFacts(k, j), named)
  BY <1>3, <1>4 DEF Agree
<1>6. \A j \in DOMAIN k.nics : Silent(NICFacts(k, j), named) \/ Agree(NICFacts(n, j), NICFacts(k, j), named)
  BY <1>1, <1>2, <1>3, <1>4 DEF Agree
<1>7. Agree(NodeFacts(n), NodeFacts(k), named)
  BY <1>1, <1>2, <1>5, <1>6, NodeAgree
<1> QED  BY <1>3, <1>7

LEMMA AddNICOnly ==
  ASSUME Ready(cur), NEW kind \in Workload, NEW ref, Resolve(cur, ref, {kind}) # None, NEW mac, AddNIC(kind, ref, mac)
  PROVE  EditsOnly
<1> DEFINE id == Resolve(cur, ref, {kind})
           n == NodeOf(cur, kind, id)
           nics == Append(n.nics, NIC(None, None, mac))
           k == [n EXCEPT !.nics = nics]
           nodes == [i \in DOMAIN cur.nodes |->
                       IF cur.nodes[i].kind = kind /\ cur.nodes[i].id = id
                       THEN [cur.nodes[i] EXCEPT !.nics = Append(@, NIC(None, None, mac))] ELSE cur.nodes[i]]
           named == {NodeName(id)}
<1>1. cur' = [cur EXCEPT !.nodes = nodes] /\ op' = Op(named, None, None)
  BY DEF AddNIC, Apply, OnNode, OnNodes, Names
<1>2. n \in ToSet(cur.nodes) /\ n.kind = kind /\ n.id = id
  BY ResolveId
<1>3. WholeNode(n) /\ IsNode(n) /\ WholeLab(cur) /\ Single(ToSet(cur.nodes)) /\ Firm(cur) /\ IsSeq(n.nics)
  BY <1>2, ReadyNode DEF WholeNode
<1> HIDE DEF n, id
<1> DEFINE last == Len(n.nics) + 1
<1>4. /\ IsSeq(nics) /\ DOMAIN nics = DOMAIN n.nics \union {last} /\ nics[last] = NIC(None, None, mac)
      /\ last \notin DOMAIN n.nics /\ \A j \in DOMAIN n.nics : nics[j] = n.nics[j]
  BY <1>3, SeqAppend
<1>5. Alters(cur.nodes, nodes, n, k)
  BY <1>2, <1>3, OnlyOne DEF Alters
<1> HIDE DEF nics, nodes, last
<1>6. \A j \in DOMAIN nics : IsNIC(nics[j])
  BY <1>3, <1>4 DEF WholeNode, IsNIC, NIC
<1>7. WithNICs(n, k, nics)
  BY <1>2, <1>3, <1>4, <1>6, NICsGiven
<1> HIDE DEF k
<1>8. WholeNode(k) /\ k.id = n.id /\ k.kind = n.kind /\ k.nics = nics /\ Agree(OwnFacts(n), OwnFacts(k), named)
  BY <1>7 DEF WithNICs
<1>9. SwapsNode(cur, cur', n, k)
  BY <1>1, <1>2, <1>3, <1>5, <1>8, SwapWhole
<1>10. \A j \in DOMAIN n.nics : NICFacts(n, j) = NICFacts(k, j) /\ NameOfNIC(n, j) = NameOfNIC(k, j)
  BY <1>4, <1>8, SameNIC
<1>11. Silent(NICFacts(k, last), named)
  <2>1. ASSUME NEW f \in NICFacts(k, last) PROVE f[2] \in named \/ f[3][2] = None
    <3>1. k.nics[last].sw = None /\ k.nics[last].ext = None
      BY <1>4, <1>8 DEF NIC
    <3> QED  BY <1>2, <1>8, <3>1 DEF NICFacts, NodeName
  <2> QED  BY <2>1 DEF Silent, Shown
<1>12. \A j \in DOMAIN n.nics : j \in DOMAIN k.nics /\ Agree(NICFacts(n, j), NICFacts(k, j), named)
  BY <1>4, <1>8, <1>10 DEF Agree
<1>13. \A j \in DOMAIN k.nics : j \in DOMAIN n.nics \/ Silent(NICFacts(k, j), named)
  BY <1>4, <1>8, <1>11
<1>14. Agree(NodeFacts(n), NodeFacts(k), named)
  BY <1>8, <1>12, <1>13, NodeAgree
<1>15. About(cur, named) = About(cur', named)
  BY <1>2, <1>3, <1>8, <1>9, <1>10, <1>14, SwapAbout DEF SwapsNode
<1> QED  BY <1>1, <1>9, <1>15, PlainEdit DEF SwapsNode

\* The ends of links, and the labs that have the same ones.
LEMMA EndIs ==
  ASSUME NEW l, Firm(l), NEW e, Ended(ToSet(l.nodes), e)
  PROVE  LET n == NodeOf(l, e.kind, e.id)
         IN  n \in ToSet(l.nodes) /\ n.kind = e.kind /\ n.id = e.id /\ e.nic \in DOMAIN n.nics /\ NameOfEnd(l, e) = NameOfNIC(n, e.nic)
<1>1. PICK n \in ToSet(l.nodes) : n.kind = e.kind /\ n.id = e.id /\ e.nic \in DOMAIN n.nics
  BY DEF Ended
<1>2. NodeOf(l, e.kind, e.id) = n
  BY <1>1, NodeFound DEF Firm
<1> QED  BY <1>1, <1>2 DEF NameOfEnd

KeepsEnds(l, m) ==
  \A e : Ended(ToSet(l.nodes), e) => Ended(ToSet(m.nodes), e) /\ NameOfEnd(m, e) = NameOfEnd(l, e)

Unwires(l, m, named) == WholeLab(m) /\ Firm(m) /\ KeepsEnds(l, m) /\ About(l, named) = About(m, named)

LEMMA UnwiredIs ==
  ASSUME NEW l, WholeLab(l), Firm(l), NEW e, IsEnd(e), Ended(ToSet(l.nodes), e), NEW named, NameOfEnd(l, e) \in named
  PROVE  Unwires(l, Unwired(l, e), named)
<1> DEFINE n == NodeOf(l, e.kind, e.id)
           x == NIC(None, None, n.nics[e.nic].mac)
           k == [n EXCEPT !.nics = [n.nics EXCEPT ![e.nic] = x]]
           kept == WithoutEndLinks(l, e)
           nodes == [i \in DOMAIN kept.nodes |->
                       IF kept.nodes[i].kind = e.kind /\ kept.nodes[i].id = e.id
                       THEN [kept.nodes[i] EXCEPT !.nics[e.nic] = NIC(None, None, @.mac)] ELSE kept.nodes[i]]
           m == Unwired(l, e)
<1>1. m = [kept EXCEPT !.nodes = nodes]
  BY DEF Unwired, OnNode, OnNodes
<1>2. n \in ToSet(l.nodes) /\ n.kind = e.kind /\ n.id = e.id /\ e.nic \in DOMAIN n.nics /\ NameOfNIC(n, e.nic) \in named
  BY EndIs
<1>3. WholeNode(n) /\ IsNode(n) /\ n.kind \in Workload /\ Single(ToSet(l.nodes))
  BY <1>2 DEF WholeLab, WholeNodes, WholeNode, Ended, Firm
<1> HIDE DEF n
<1>4. /\ WholeLab(kept) /\ kept.nodes = l.nodes /\ kept.placed = l.placed /\ kept.drawn = l.drawn /\ kept.disks = l.disks
      /\ ToSet(kept.links) = {link \in ToSet(l.links) : link.from # e /\ link.to # e}
  BY WithoutLinks
<1> HIDE DEF kept
<1>5. Alters(kept.nodes, nodes, n, k)
  <2>1. [n EXCEPT !.nics[e.nic] = NIC(None, None, @.mac)] = k
    BY <1>3 DEF IsNode
  <2> HIDE DEF k
  <2>2. \A i \in DOMAIN kept.nodes : kept.nodes[i].id = e.id => kept.nodes[i] = n
    BY <1>2, <1>3, <1>4, OnlyOne
  <2> QED  BY <1>2, <2>1, <2>2 DEF Alters
<1> HIDE DEF nodes, x
<1>6. IsNIC(x)
  BY DEF IsNIC, NIC, x
<1>7. WithNICs(n, k, [n.nics EXCEPT ![e.nic] = x])
  BY <1>2, <1>3, <1>6, NICPut
<1> HIDE DEF k, m
<1>8. WholeNode(k) /\ k.id = n.id /\ k.kind = n.kind /\ k.nics = [n.nics EXCEPT ![e.nic] = x]
  BY <1>7 DEF WithNICs
<1>9. SwapsNode(kept, m, n, k)
  BY <1>1, <1>2, <1>3, <1>4, <1>5, <1>8, SwapWhole
<1>10. DOMAIN k.nics = DOMAIN n.nics /\ \A j \in DOMAIN n.nics : k.nics[j].mac = n.nics[j].mac
  <2>1. x.mac = n.nics[e.nic].mac
    BY DEF x, NIC
  <2> QED  BY <1>2, <1>8, <2>1
<1>11. \A j : NameOfNIC(k, j) = NameOfNIC(n, j)
  BY <1>8, <1>10 DEF NameOfNIC
<1>12. Agree(NodeFacts(n), NodeFacts(k), named)
  BY <1>2, <1>3, <1>7, <1>11, OneNIC
<1>13. /\ ToSet(m.nodes) = Swapped(ToSet(l.nodes), n, k)
       /\ ToSet(m.links) = {link \in ToSet(l.links) : link.from # e /\ link.to # e}
       /\ m.placed = l.placed /\ m.drawn = l.drawn /\ m.disks = l.disks
  BY <1>4, <1>9 DEF SwapsNode
<1>14. \A link \in ToSet(l.links) : NameOfEnd(l, link.from) \in named \/ NameOfEnd(l, link.to) \in named \/ link \in ToSet(m.links)
  BY <1>13
<1>15. About(l, named) = About(m, named)
  BY <1>2, <1>8, <1>11, <1>12, <1>13, <1>14, SwapAbout
<1>16. KeepsEnds(l, m) /\ Single(ToSet(m.nodes))
  <2>1. Single(ToSet(m.nodes))
    BY <1>2, <1>3, <1>8, <1>13, SwappedSingle
  <2> SUFFICES ASSUME NEW g, Ended(ToSet(l.nodes), g) PROVE Ended(ToSet(m.nodes), g) /\ NameOfEnd(m, g) = NameOfEnd(l, g)
    BY <2>1 DEF KeepsEnds
  <2>2. PICK y \in ToSet(l.nodes) : y.kind = g.kind /\ y.id = g.id /\ g.nic \in DOMAIN y.nics
    BY DEF Ended
  <2>3. NameOfEnd(l, g) = NameOfNIC(y, g.nic)
    BY <1>3, <2>2, EndName
  <2>4. PICK z \in ToSet(m.nodes) : z.kind = y.kind /\ z.id = y.id /\ DOMAIN z.nics = DOMAIN y.nics /\ NameOfNIC(z, g.nic) = NameOfNIC(y, g.nic)
    BY <1>8, <1>10, <1>11, <1>13 DEF Swapped
  <2>5. NameOfEnd(m, g) = NameOfNIC(z, g.nic)
    BY <2>1, <2>2, <2>4, EndName
  <2> QED  BY <2>2, <2>3, <2>4, <2>5 DEF Ended
<1>17. Firm(m)
  <2>1. \A y \in ToSet(m.nodes) : y.id # None
    BY <1>2, <1>8, <1>13 DEF Swapped, Firm
  <2>2. \A link \in ToSet(m.links) : Ended(ToSet(m.nodes), link.from) /\ Ended(ToSet(m.nodes), link.to)
    BY <1>13, <1>16 DEF KeepsEnds, Firm
  <2> QED  BY <1>16, <2>1, <2>2 DEF Firm
<1>18. Unwires(l, m, named)
  BY <1>9, <1>15, <1>16, <1>17 DEF Unwires, SwapsNode
<1> QED  BY <1>18 DEF m

LEMMA SeqAppended ==
  ASSUME NEW s, IsSeq(s), NEW x
  PROVE  IsSeq(Append(s, x)) /\ ToSet(Append(s, x)) = ToSet(s) \union {x}
<1> DEFINE t == Append(s, x)
<1>1. IsSeq(t) /\ DOMAIN t = DOMAIN s \union {Len(s) + 1} /\ t[Len(s) + 1] = x /\ \A j \in DOMAIN s : t[j] = s[j]
  BY SeqAppend
<1> HIDE DEF t
<1>2. ToSet(t) = ToSet(s) \union {x}
  BY <1>1 DEF ToSet
<1> QED  BY <1>1, <1>2 DEF t

Alike(l, m, named) == WholeLab(m) /\ About(l, named) = About(m, named)

LEMMA JoinedIs ==
  ASSUME NEW l, WholeLab(l), NEW e, IsEnd(e), NEW f, IsEnd(f), NEW named, NameOfEnd(l, e) \in named
  PROVE  Alike(l, Joined(l, e, f), named)
<1> DEFINE link == [from |-> e, to |-> f]
           links == Append(l.links, link)
           m == Joined(l, e, f)
<1>1. m = [l EXCEPT !.links = links]
  BY DEF Joined
<1>2. IsSeq(links) /\ ToSet(links) = ToSet(l.links) \union {link}
  BY SeqAppended DEF WholeLab, WholeParts
<1>3. IsLink(link) /\ link.from = e
  BY DEF IsLink
<1> HIDE DEF links, link, m
<1>4. \A x \in ToSet(links) : IsLink(x)
  BY <1>2, <1>3 DEF WholeLab, WholeParts
<1>5. WholeLab(m) /\ m.links = links /\ m.nodes = l.nodes /\ m.placed = l.placed /\ m.drawn = l.drawn /\ m.disks = l.disks
  BY <1>1, <1>2, <1>4, LinksOnly
<1>6. \A g : NameOfEnd(m, g) = NameOfEnd(l, g)
  BY <1>5 DEF NameOfEnd, NodeOf
<1>7. Agree(AllLinkFacts(l), AllLinkFacts(m), named)
  <2>1. \A x \in ToSet(m.links) : NameOfEnd(m, x.from) \in named \/ x \in ToSet(l.links)
    BY <1>2, <1>3, <1>5, <1>6
  <2>2. \A x \in ToSet(l.links) : x \in ToSet(m.links)
    BY <1>2, <1>5
  <2> QED  BY <1>6, <2>1, <2>2, LinksAgree
<1>8. Agree(AllNodeFacts(ToSet(l.nodes)), AllNodeFacts(ToSet(m.nodes)), named) /\ Agree(LayoutFacts(l), LayoutFacts(m), named)
  BY <1>5 DEF Agree, LayoutFacts
<1>9. Alike(l, m, named)
  BY <1>5, <1>7, <1>8, AboutAgree DEF Alike
<1> QED  BY <1>9 DEF m

\* An interface that a request speaks of.
LEMMA AskedEnd ==
  ASSUME NEW kind \in Workload, NEW ref, Resolve(cur, ref, {kind}) # None, NEW i,
         i \in DOMAIN NodeOf(cur, kind, Resolve(cur, ref, {kind})).nics
  PROVE  LET e == Endpoint(kind, Resolve(cur, ref, {kind}), i)
         IN  IsEnd(e) /\ Ended(ToSet(cur.nodes), e) /\ NameOfEnd(cur, e) = NICName(e.kind, e.id, e.nic)
BY ResolveId DEF IsEnd, Endpoint, Ended, NameOfEnd, NICName

LEMMA DisconnectOnly ==
  ASSUME Ready(cur), NEW kind \in Workload, NEW ref, Resolve(cur, ref, {kind}) # None, NEW i, DisconnectNIC(kind, ref, i)
  PROVE  EditsOnly
<1> DEFINE e == Endpoint(kind, Resolve(cur, ref, {kind}), i)
           named == {NICName(g.kind, g.id, g.nic) : g \in {e}}
<1>1. cur' = Unwired(cur, e) /\ op' = Op(named, None, None) /\ Has(e)
  BY DEF DisconnectNIC, Apply, NamesOf, Names
<1>2. IsEnd(e) /\ Ended(ToSet(cur.nodes), e) /\ NameOfEnd(cur, e) = NICName(e.kind, e.id, e.nic)
  BY <1>1, AskedEnd DEF Has, Endpoint
<1> HIDE DEF e
<1>3. NameOfEnd(cur, e) \in named
  BY <1>2
<1> HIDE DEF named
<1>4. Unwires(cur, cur', named)
  BY <1>1, <1>2, <1>3, UnwiredIs DEF Ready
<1> QED  BY <1>1, <1>4, PlainEdit DEF Unwires

LEMMA ConnectDirectOnly ==
  ASSUME Ready(cur), NEW kind \in Workload, NEW ref, Resolve(cur, ref, {kind}) # None, NEW i,
         NEW toKind \in Workload, NEW to, Resolve(cur, to, {toKind}) # None, NEW j,
         ConnectDirectNIC(kind, ref, i, toKind, to, j)
  PROVE  EditsOnly
<1> DEFINE e == Endpoint(kind, Resolve(cur, ref, {kind}), i)
           f == Endpoint(toKind, Resolve(cur, to, {toKind}), j)
           named == {NICName(g.kind, g.id, g.nic) : g \in {e, f}}
           l == Unwired(cur, e)
           m == Unwired(l, f)
<1>1. cur' = Joined(m, e, f) /\ op' = Op(named, None, None) /\ Has(e) /\ Has(f)
  BY DEF ConnectDirectNIC, Apply, NamesOf, Names
<1>a. i \in DOMAIN NodeOf(cur, kind, Resolve(cur, ref, {kind})).nics /\ j \in DOMAIN NodeOf(cur, toKind, Resolve(cur, to, {toKind})).nics
  BY <1>1 DEF Has, Endpoint
<1>2. IsEnd(e) /\ Ended(ToSet(cur.nodes), e) /\ NameOfEnd(cur, e) = NICName(e.kind, e.id, e.nic)
  BY <1>a, AskedEnd
<1>3. IsEnd(f) /\ Ended(ToSet(cur.nodes), f) /\ NameOfEnd(cur, f) = NICName(f.kind, f.id, f.nic)
  BY <1>a, AskedEnd
<1> HIDE DEF e, f
<1>4. NameOfEnd(cur, e) \in named /\ NameOfEnd(cur, f) \in named
  BY <1>2, <1>3
<1> HIDE DEF named
<1>5. Unwires(cur, l, named)
  BY <1>2, <1>4, UnwiredIs DEF Ready
<1> HIDE DEF l
<1>6. Ended(ToSet(l.nodes), e) /\ NameOfEnd(l, e) \in named /\ Ended(ToSet(l.nodes), f) /\ NameOfEnd(l, f) \in named
  BY <1>2, <1>3, <1>4, <1>5 DEF Unwires, KeepsEnds
<1>7. Unwires(l, m, named)
  BY <1>3, <1>5, <1>6, UnwiredIs DEF Unwires
<1> HIDE DEF m
<1>8. NameOfEnd(m, e) \in named /\ WholeLab(m)
  BY <1>6, <1>7 DEF Unwires, KeepsEnds
<1>9. Alike(m, cur', named)
  BY <1>1, <1>2, <1>3, <1>8, JoinedIs
<1> QED  BY <1>1, <1>5, <1>7, <1>9, PlainEdit DEF Unwires, Alike

LEMMA ConnectFirstOnly ==
  ASSUME Ready(cur), NEW kind \in Workload, NEW ref, Resolve(cur, ref, {kind}) # None, NEW i,
         NEW toKind, NEW toRef, ConnectDirectFirst(kind, ref, i, toKind, toRef)
  PROVE  EditsOnly
<1> DEFINE e == Endpoint(kind, Resolve(cur, ref, {kind}), i)
           to == Resolve(cur, toRef, {toKind})
           idle == {f \in {Endpoint(toKind, to, j) : j \in DOMAIN NodeOf(cur, toKind, to).nics} \ {e} : Idle(f)}
           first == CHOOSE f \in idle : \A g \in idle : f.nic <= g.nic
           named == {NICName(g.kind, g.id, g.nic) : g \in {e, first}}
<1>1. cur' = Joined(cur, e, first) /\ op' = Op(named, None, None) /\ Has(e) /\ idle # {}
  BY DEF ConnectDirectFirst, Apply, NamesOf, Names
<1>2. IsEnd(e) /\ NameOfEnd(cur, e) = NICName(e.kind, e.id, e.nic)
  BY <1>1, AskedEnd DEF Has, Endpoint
<1>3. \A f \in idle : IsEnd(f) /\ Idle(f)
  BY DEF IsEnd, Endpoint
<1> HIDE DEF e, idle
<1>4. \A f \in idle : f.nic \in Nat
  <2> SUFFICES ASSUME NEW f \in idle PROVE f.nic \in Nat
    OBVIOUS
  <2>1. FreeNIC(cur, f)
    BY <1>3 DEF Idle
  <2>2. PICK n \in ToSet(cur.nodes) : n.id = f.id /\ n.kind = f.kind
    BY <2>1 DEF FreeNIC, IdsOf
  <2>3. f.nic \in DOMAIN n.nics
    BY <2>1, <2>2, NodeFound DEF FreeNIC, Ready, Firm
  <2>4. IsSeq(n.nics)
    BY ReadyNode DEF WholeNode
  <2> QED  BY <2>3, <2>4, SeqIs
<1>5. first \in idle
  <2> DEFINE T == {f.nic : f \in idle}
  <2>a. T \subseteq Nat /\ T # {}
    BY <1>1, <1>4
  <2>1. PICK x \in T : \A y \in T : ~(y < x)
    <3> HIDE DEF T
    <3> QED  BY <2>a, LeastOf
  <2>2. \E f \in idle : \A g \in idle : f.nic <= g.nic
    BY <1>4, <2>1
  <2> QED  BY <2>2
<1> HIDE DEF first
<1>6. NameOfEnd(cur, e) \in named
  BY <1>2
<1> HIDE DEF named
<1>7. Alike(cur, cur', named)
  BY <1>1, <1>2, <1>3, <1>5, <1>6, JoinedIs DEF Ready
<1> QED  BY <1>1, <1>7, PlainEdit DEF Alike

LEMMA ConnectNICOnly ==
  ASSUME Ready(cur), NEW kind \in Workload, NEW ref, Resolve(cur, ref, {kind}) # None, NEW i, NEW to, NEW kinds, NEW mac,
         ConnectNIC(kind, ref, i, to, kinds, mac)
  PROVE  EditsOnly
<1> DEFINE id == Resolve(cur, ref, {kind})
           sw == IF "switch" \in kinds THEN Resolve(cur, to, {"switch"}) ELSE None
           ext == IF sw = None /\ "external" \in kinds THEN Resolve(cur, to, {"external"}) ELSE None
           n == NodeOf(cur, kind, id)
           e == Endpoint(kind, id, i)
           kept == WithoutEndLinks(cur, e)
           x == NIC(sw, ext, IF mac = None THEN n.nics[i].mac ELSE mac)
           k == [n EXCEPT !.nics = [n.nics EXCEPT ![i] = x]]
           nodes == [j \in DOMAIN kept.nodes |->
                       IF kept.nodes[j].kind = kind /\ kept.nodes[j].id = id
                       THEN [kept.nodes[j] EXCEPT !.nics[i] = NIC(sw, ext, IF mac = None THEN @.mac ELSE mac)] ELSE kept.nodes[j]]
           named == {NICName(kind, id, i), MacName(mac)}
<1>1. cur' = OnNode(kept, kind, id, LAMBDA s : [s EXCEPT !.nics[i] = NIC(sw, ext, IF mac = None THEN @.mac ELSE mac)])
      /\ op' = Op(named, None, None) /\ i \in DOMAIN n.nics
  BY DEF ConnectNIC, Apply, Names
<1> HIDE DEF sw, ext
<1>2. cur' = [kept EXCEPT !.nodes = nodes]
  <2> HIDE DEF kept
  <2> QED  BY <1>1 DEF OnNode, OnNodes
<1>3. n \in ToSet(cur.nodes) /\ n.kind = kind /\ n.id = id
  BY ResolveId
<1>4. WholeNode(n) /\ IsNode(n) /\ WholeLab(cur) /\ Single(ToSet(cur.nodes)) /\ Firm(cur)
  BY <1>3, ReadyNode
<1>5. NameOfNIC(n, i) \in named
  BY DEF NICName
<1> HIDE DEF n, id
<1>6. /\ WholeLab(kept) /\ kept.nodes = cur.nodes /\ kept.placed = cur.placed /\ kept.drawn = cur.drawn /\ kept.disks = cur.disks
      /\ ToSet(kept.links) = {link \in ToSet(cur.links) : link.from # e /\ link.to # e}
  BY <1>4, WithoutLinks
<1> HIDE DEF kept
<1>7. Alters(kept.nodes, nodes, n, k)
  <2>1. [n EXCEPT !.nics[i] = NIC(sw, ext, IF mac = None THEN @.mac ELSE mac)] = k
    BY <1>4 DEF IsNode
  <2> HIDE DEF k
  <2>2. \A j \in DOMAIN kept.nodes : kept.nodes[j].id = id => kept.nodes[j] = n
    BY <1>3, <1>4, <1>6, OnlyOne
  <2> QED  BY <1>3, <2>1, <2>2 DEF Alters
<1>8. IsNIC(x) /\ x.mac = IF mac = None THEN n.nics[i].mac ELSE mac
  BY DEF IsNIC, NIC
<1> HIDE DEF nodes, x
<1>9. WithNICs(n, k, [n.nics EXCEPT ![i] = x])
  BY <1>1, <1>3, <1>4, <1>8, NICPut
<1> HIDE DEF k
<1>10. WholeNode(k) /\ k.id = n.id /\ k.kind = n.kind /\ k.nics = [n.nics EXCEPT ![i] = x]
  BY <1>9 DEF WithNICs
<1>11. SwapsNode(kept, cur', n, k)
  BY <1>2, <1>3, <1>4, <1>6, <1>7, <1>10, SwapWhole
<1>12. NameOfNIC(k, i) \in named
  <2>1. i \in DOMAIN k.nics /\ k.nics[i].mac = IF mac = None THEN n.nics[i].mac ELSE mac
    BY <1>1, <1>8, <1>10
  <2>2. CASE mac = None
    BY <1>1, <1>5, <1>10, <2>1, <2>2 DEF NameOfNIC
  <2>3. CASE mac # None
    BY <2>1, <2>3 DEF NameOfNIC
  <2> QED  BY <2>2, <2>3
<1>13. /\ Agree(NodeFacts(n), NodeFacts(k), named)
       /\ \A j \in DOMAIN n.nics : NameOfNIC(n, j) = NameOfNIC(k, j) \/ {NameOfNIC(n, j), NameOfNIC(k, j)} \subseteq named
  BY <1>1, <1>4, <1>5, <1>9, <1>12, OneNIC
<1>14. NameOfEnd(cur, e) \in named
  BY <1>3, <1>4, <1>5, EndName DEF Endpoint
<1> HIDE DEF e, named
<1>15. /\ ToSet(cur'.nodes) = Swapped(ToSet(cur.nodes), n, k)
       /\ ToSet(cur'.links) = {link \in ToSet(cur.links) : link.from # e /\ link.to # e}
       /\ cur'.placed = cur.placed /\ cur'.drawn = cur.drawn /\ cur'.disks = cur.disks
  BY <1>6, <1>11 DEF SwapsNode
<1>16. \A link \in ToSet(cur.links) : NameOfEnd(cur, link.from) \in named \/ NameOfEnd(cur, link.to) \in named \/ link \in ToSet(cur'.links)
  BY <1>14, <1>15
<1>17. ToSet(cur'.links) \subseteq ToSet(cur.links)
  BY <1>15
<1>18. About(cur, named) = About(cur', named)
  BY <1>3, <1>4, <1>10, <1>13, <1>15, <1>16, <1>17, SwapAbout
<1> QED  BY <1>1, <1>11, <1>18, PlainEdit DEF SwapsNode

LEMMA MoveOnly == ASSUME Ready(cur), NEW id, SaveActiveMove(id) PROVE EditsOnly
<1> DEFINE named == {NodeName(id)}
           placed == cur.placed \union {id}
<1>1. cur' = [cur EXCEPT !.placed = placed] /\ op' = Op(named, None, None)
  BY DEF SaveActiveMove, Apply, Names
<1>2. \A x \in placed : x \in cur.placed \/ x = id
  OBVIOUS
<1>3. \A x \in cur.placed : x \in placed
  OBVIOUS
<1> HIDE DEF placed
<1>4. IsLab(cur') /\ cur'.nodes = cur.nodes /\ cur'.links = cur.links /\ cur'.drawn = cur.drawn /\ cur'.disks = cur.disks /\ cur'.placed = placed
  BY <1>1 DEF Ready, WholeLab, IsLab, LabLike
<1>5. WholeLab(cur')
  BY <1>4 DEF Ready, WholeLab, WholeParts
<1>6. Agree(LayoutFacts(cur), LayoutFacts(cur'), named)
  BY <1>2, <1>3, <1>4 DEF Agree, LayoutFacts, Shown
<1>7. AllNodeFacts(ToSet(cur.nodes)) = AllNodeFacts(ToSet(cur'.nodes)) /\ AllLinkFacts(cur) = AllLinkFacts(cur')
  BY <1>4 DEF AllLinkFacts, LinkFacts, NameOfEnd, NodeOf
<1>8. About(cur, named) = About(cur', named)
  BY <1>6, <1>7, AboutAgree DEF Agree
<1> QED  BY <1>1, <1>5, <1>8, PlainEdit

LEMMA LenConcat == ASSUME NEW X, NEW a \in Seq(X), NEW b \in Seq(X) PROVE Len(a \o b) = Len(a) + Len(b)
OBVIOUS

LEMMA SeqRemoved ==
  ASSUME NEW s, IsSeq(s), NEW i \in DOMAIN s
  PROVE  LET t == RemoveAt(s, i)
         IN  IsSeq(t) /\ DOMAIN t = 1..(Len(s) - 1) /\ \A j \in DOMAIN t : t[j] = IF j < i THEN s[j] ELSE s[j + 1]
<1>1. Len(s) \in Nat /\ DOMAIN s = 1..Len(s) /\ i \in 1..Len(s)
  BY SeqIs
<1> DEFINE X == {s[j] : j \in DOMAIN s}
           a == SubSeq(s, 1, i - 1)
           b == SubSeq(s, i + 1, Len(s))
           t == RemoveAt(s, i)
<1>2. s \in Seq(X)
  BY DEF IsSeq
<1> HIDE DEF X
<1>3. a \in Seq(X) /\ Len(a) = i - 1 /\ \A j \in 1..(i - 1) : a[j] = s[j]
  BY <1>1, <1>2
<1>4. b \in Seq(X) /\ Len(b) = Len(s) - i /\ \A j \in 1..(Len(s) - i) : b[j] = s[i + j]
  BY <1>1, <1>2
<1>5. t = a \o b
  BY DEF RemoveAt
<1> HIDE DEF a, b, t
<1>6. t \in Seq(X) /\ Len(t) = Len(s) - 1 /\ DOMAIN t = 1..(Len(s) - 1)
  <2>1. t \in Seq(X)
    BY <1>3, <1>4, <1>5
  <2>2. Len(a \o b) = Len(a) + Len(b)
    BY <1>3, <1>4, LenConcat
  <2>3. Len(t) = Len(s) - 1
    BY <1>1, <1>3, <1>4, <1>5, <2>2
  <2> QED  BY <2>1, <2>3
<1>7. \A j \in DOMAIN t : t[j] = IF j < i THEN s[j] ELSE s[j + 1]
  <2> SUFFICES ASSUME NEW j \in 1..(Len(s) - 1) PROVE t[j] = IF j < i THEN s[j] ELSE s[j + 1]
    BY <1>6
  <2>1. CASE j < i
    BY <1>1, <1>3, <1>4, <1>5, <2>1
  <2>2. CASE ~(j < i)
    <3>1. t[j] = b[j - (i - 1)]
      BY <1>1, <1>3, <1>4, <1>5, <2>2
    <3>2. j - (i - 1) \in 1..(Len(s) - i) /\ i + (j - (i - 1)) = j + 1
      BY <1>1, <2>2
    <3> QED  BY <1>4, <2>2, <3>1, <3>2
  <2> QED  BY <2>1, <2>2
<1>8. IsSeq(t)
  BY <1>6, IsSeqOf
<1> QED  BY <1>6, <1>7, <1>8 DEF t

\* A sequence that is mapped place by place.
LEMMA SeqMapped ==
  ASSUME NEW s, IsSeq(s), NEW t, DOMAIN t = DOMAIN s, t = [j \in DOMAIN t |-> t[j]]
  PROVE  IsSeq(t)
<1>1. Len(s) \in Nat /\ DOMAIN s = 1..Len(s)
  BY SeqIs
<1> QED  BY <1>1, IsSeqFcn

LEMMA DeleteNICOnly ==
  ASSUME Ready(cur), NEW kind \in Workload, NEW ref, Resolve(cur, ref, {kind}) # None, NEW i, DeleteNIC(kind, ref, i)
  PROVE  EditsOnly
<1> DEFINE id == Resolve(cur, ref, {kind})
           n == NodeOf(cur, kind, id)
           e == Endpoint(kind, id, i)
           kept == WithoutEndLinks(cur, e)
           nics == RemoveAt(n.nics, i)
           k == [n EXCEPT !.nics = nics]
           nodes == [j \in DOMAIN kept.nodes |->
                       IF kept.nodes[j].kind = kind /\ kept.nodes[j].id = id
                       THEN [kept.nodes[j] EXCEPT !.nics = RemoveAt(@, i)] ELSE kept.nodes[j]]
           l == [kept EXCEPT !.nodes = nodes]
           moved(g) == Reindexed(g, kind, id, i)
           links == [j \in DOMAIN l.links |-> [from |-> moved(l.links[j].from), to |-> moved(l.links[j].to)]]
           named == {NICName(kind, id, i)}
<1>1. cur' = [l EXCEPT !.links = links] /\ op' = Op(named, None, None) /\ i \in DOMAIN n.nics
  <2>1. cur' = [OnNode(kept, kind, id, LAMBDA s : [s EXCEPT !.nics = RemoveAt(@, i)]) EXCEPT
                  !.links = [j \in DOMAIN @ |-> [from |-> moved(@[j].from), to |-> moved(@[j].to)]]]
        /\ op' = Op(named, None, None) /\ i \in DOMAIN n.nics
    BY DEF DeleteNIC, Apply, Names
  <2> HIDE DEF kept, moved
  <2>2. OnNode(kept, kind, id, LAMBDA s : [s EXCEPT !.nics = RemoveAt(@, i)]) = l
    BY DEF OnNode, OnNodes
  <2> HIDE DEF l
  <2> QED  BY <2>1, <2>2
<1>2. n \in ToSet(cur.nodes) /\ n.kind = kind /\ n.id = id
  BY ResolveId
<1>3. WholeNode(n) /\ IsNode(n) /\ IsSeq(n.nics) /\ WholeLab(cur) /\ Single(ToSet(cur.nodes)) /\ Firm(cur)
  BY <1>2, ReadyNode DEF WholeNode
<1>4. NameOfNIC(n, i) \in named
  BY DEF NICName
<1> HIDE DEF n, id
<1>5. IsSeq(nics) /\ DOMAIN nics = 1..(Len(n.nics) - 1) /\ \A j \in DOMAIN nics : nics[j] = IF j < i THEN n.nics[j] ELSE n.nics[j + 1]
  BY <1>1, <1>3, SeqRemoved
<1>6. Len(n.nics) \in Nat /\ DOMAIN n.nics = 1..Len(n.nics)
  BY <1>3, SeqIs
<1>7. /\ WholeLab(kept) /\ kept.nodes = cur.nodes /\ kept.placed = cur.placed /\ kept.drawn = cur.drawn /\ kept.disks = cur.disks
      /\ ToSet(kept.links) = {link \in ToSet(cur.links) : link.from # e /\ link.to # e}
  BY <1>3, WithoutLinks
<1> HIDE DEF kept
<1>8. Alters(kept.nodes, nodes, n, k)
  <2>1. \A j \in DOMAIN kept.nodes : kept.nodes[j].id = id => kept.nodes[j] = n
    BY <1>2, <1>3, <1>7, OnlyOne
  <2> QED  BY <1>2, <2>1 DEF Alters
<1> HIDE DEF nodes, nics
<1>9. \A j \in DOMAIN nics : IsNIC(nics[j])
  BY <1>1, <1>3, <1>5, <1>6 DEF WholeNode
<1>10. WithNICs(n, k, nics)
  BY <1>2, <1>3, <1>5, <1>9, NICsGiven
<1> HIDE DEF k
<1>11. WholeNode(k) /\ k.id = n.id /\ k.kind = n.kind /\ k.nics = nics /\ Agree(OwnFacts(n), OwnFacts(k), named)
  BY <1>10 DEF WithNICs
<1>12. SwapsNode(kept, l, n, k)
  BY <1>2, <1>3, <1>7, <1>8, <1>11, SwapWhole
<1> HIDE DEF l
<1>13. WholeLab(l) /\ l.links = kept.links /\ ToSet(l.nodes) = Swapped(ToSet(cur.nodes), n, k)
       /\ l.placed = cur.placed /\ l.drawn = cur.drawn /\ l.disks = cur.disks
  BY <1>7, <1>12 DEF SwapsNode
\* The place that an interface has afterwards.
<1> DEFINE at(j) == IF j < i THEN j ELSE j - 1
<1>14. \A j \in DOMAIN n.nics \ {i} : at(j) \in DOMAIN nics /\ nics[at(j)] = n.nics[j]
  BY <1>1, <1>5, <1>6
<1>15. \A j \in DOMAIN nics : \E m \in DOMAIN n.nics \ {i} : at(m) = j
  <2> SUFFICES ASSUME NEW j \in DOMAIN nics PROVE \E m \in DOMAIN n.nics \ {i} : at(m) = j
    OBVIOUS
  <2> DEFINE m == IF j < i THEN j ELSE j + 1
  <2>1. m \in DOMAIN n.nics \ {i} /\ at(m) = j
    BY <1>1, <1>5, <1>6
  <2> QED  BY <2>1
<1>16. \A j \in DOMAIN n.nics \ {i} : NICFacts(n, j) = NICFacts(k, at(j)) /\ NameOfNIC(n, j) = NameOfNIC(k, at(j))
  BY <1>11, <1>14, SameNIC
<1> HIDE DEF at
<1>17. Agree(NodeFacts(n), NodeFacts(k), named)
  <2>1. Silent(NICFacts(n, i), named)
    BY <1>4, InterfaceSilent
  <2>2. \A j \in DOMAIN n.nics \ {i} : at(j) \in DOMAIN k.nics /\ Agree(NICFacts(n, j), NICFacts(k, at(j)), named)
    BY <1>11, <1>14, <1>16 DEF Agree
  <2>3. \A j \in DOMAIN k.nics : \E m \in DOMAIN n.nics \ {i} : at(m) = j
    BY <1>11, <1>15
  <2>4. \A j \in DOMAIN k.nics : \E m \in DOMAIN n.nics : Agree(NICFacts(n, m), NICFacts(k, j), named)
    BY <2>2, <2>3
  <2>5. \A j \in DOMAIN n.nics : Silent(NICFacts(n, j), named) \/ \E m \in DOMAIN k.nics : Agree(NICFacts(n, j), NICFacts(k, m), named)
    BY <2>1, <2>2
  <2> QED  BY <1>11, <2>4, <2>5, NodeAgree
\* The links that are left move with their interfaces.
<1>18. ASSUME NEW g, IsEnd(g), Ended(ToSet(cur.nodes), g), g # e
       PROVE  IsEnd(moved(g)) /\ NameOfEnd(l, moved(g)) = NameOfEnd(cur, g)
  <2>1. Single(ToSet(l.nodes))
    BY <1>2, <1>3, <1>11, <1>13, SwappedSingle
  <2>2. PICK x \in ToSet(cur.nodes) : x.kind = g.kind /\ x.id = g.id /\ g.nic \in DOMAIN x.nics
    BY <1>18 DEF Ended
  <2>3. NameOfEnd(cur, g) = NameOfNIC(x, g.nic)
    BY <1>3, <2>2, EndName
  <2>4. CASE g.kind = kind /\ g.id = id
    <3>1. x = n
      BY <1>2, <1>3, <2>2, <2>4 DEF Single
    <3>2. g.nic # i
      BY <1>18, <2>4 DEF IsEnd, Endpoint
    <3>3. g.nic \in DOMAIN n.nics \ {i}
      BY <2>2, <3>1, <3>2
    <3>4. moved(g) = Endpoint(kind, id, at(g.nic))
      BY <1>1, <1>6, <1>18, <2>4, <3>3 DEF Reindexed, IsEnd, Endpoint, at
    <3>5. NameOfEnd(l, moved(g)) = NameOfNIC(k, at(g.nic))
      <4>1. k \in ToSet(l.nodes) /\ k.kind = kind /\ k.id = id
        BY <1>2, <1>11, <1>13 DEF Swapped
      <4> QED  BY <2>1, <3>4, <4>1, EndName DEF Endpoint
    <3> QED  BY <1>16, <2>3, <3>1, <3>3, <3>4, <3>5 DEF IsEnd, Endpoint
  <2>5. CASE ~(g.kind = kind /\ g.id = id)
    <3>1. moved(g) = g
      BY <2>5 DEF Reindexed
    <3>2. x # n /\ x \in ToSet(l.nodes)
      BY <1>2, <1>13, <2>2, <2>5 DEF Swapped
    <3>3. NameOfEnd(l, g) = NameOfNIC(x, g.nic)
      BY <2>1, <2>2, <3>2, EndName
    <3> QED  BY <1>18, <2>3, <3>1, <3>3
  <2> QED  BY <2>4, <2>5
<1>19. \A link \in ToSet(cur.links) : IsLink(link) /\ Ended(ToSet(cur.nodes), link.from) /\ Ended(ToSet(cur.nodes), link.to)
  BY <1>3 DEF WholeLab, WholeParts, Firm
<1> HIDE DEF e
<1> DEFINE new(link) == [from |-> moved(link.from), to |-> moved(link.to)]
<1>20. \A link \in ToSet(kept.links) :
         /\ IsLink(new(link))
         /\ NameOfEnd(l, new(link).from) = NameOfEnd(cur, link.from) /\ NameOfEnd(l, new(link).to) = NameOfEnd(cur, link.to)
  <2> SUFFICES ASSUME NEW link \in ToSet(kept.links)
               PROVE  /\ IsLink(new(link))
                      /\ NameOfEnd(l, new(link).from) = NameOfEnd(cur, link.from) /\ NameOfEnd(l, new(link).to) = NameOfEnd(cur, link.to)
    OBVIOUS
  <2>1. link \in ToSet(cur.links) /\ link.from # e /\ link.to # e
    BY <1>7
  <2>2. IsEnd(moved(link.from)) /\ NameOfEnd(l, moved(link.from)) = NameOfEnd(cur, link.from)
    BY <1>18, <1>19, <2>1 DEF IsLink
  <2>3. IsEnd(moved(link.to)) /\ NameOfEnd(l, moved(link.to)) = NameOfEnd(cur, link.to)
    BY <1>18, <1>19, <2>1 DEF IsLink
  <2> HIDE DEF moved
  <2> QED  BY <2>2, <2>3 DEF IsLink
<1>21. links = [j \in DOMAIN links |-> links[j]] /\ DOMAIN links = DOMAIN l.links /\ \A j \in DOMAIN l.links : links[j] = new(l.links[j])
  OBVIOUS
<1> HIDE DEF links, new, moved
<1>22. IsSeq(links) /\ \A link \in ToSet(links) : \E other \in ToSet(kept.links) : link = new(other)
  <2>1. IsSeq(links)
    BY <1>13, <1>21, SeqMapped DEF WholeLab, WholeParts
  <2> QED  BY <1>13, <1>21, <2>1 DEF ToSet
<1>23. \A other \in ToSet(kept.links) : new(other) \in ToSet(links)
  BY <1>13, <1>21 DEF ToSet
<1>24. WholeLab(cur') /\ cur'.links = links /\ cur'.nodes = l.nodes /\ cur'.placed = l.placed /\ cur'.drawn = l.drawn /\ cur'.disks = l.disks
  <2>1. \A link \in ToSet(links) : IsLink(link)
    BY <1>20, <1>22
  <2> QED  BY <1>1, <1>13, <1>22, <2>1, LinksOnly
<1>25. \A g : NameOfEnd(cur', g) = NameOfEnd(l, g)
  BY <1>24 DEF NameOfEnd, NodeOf
<1>26. NameOfEnd(cur, e) \in named
  BY <1>2, <1>3, <1>4, EndName DEF Endpoint, e
<1> HIDE DEF named
<1>27. Agree(AllLinkFacts(cur), AllLinkFacts(cur'), named)
  <2>1. \A link \in ToSet(cur.links) : NameOfEnd(cur, link.from) \in named \/ NameOfEnd(cur, link.to) \in named \/ link \in ToSet(kept.links)
    BY <1>7, <1>26
  <2>2. \A link \in ToSet(cur.links) :
          \/ NameOfEnd(cur, link.from) \in named \/ NameOfEnd(cur, link.to) \in named
          \/ \E other \in ToSet(cur'.links) : /\ NameOfEnd(cur', other.from) = NameOfEnd(cur, link.from)
                                              /\ NameOfEnd(cur', other.to) = NameOfEnd(cur, link.to)
    BY <1>20, <1>23, <1>24, <1>25, <2>1
  <2>3. \A other \in ToSet(cur'.links) : \E link \in ToSet(cur.links) :
           /\ NameOfEnd(cur', other.from) = NameOfEnd(cur, link.from) /\ NameOfEnd(cur', other.to) = NameOfEnd(cur, link.to)
    BY <1>7, <1>20, <1>22, <1>24, <1>25
  <2> QED  BY <2>2, <2>3, LinksAgree
<1>28. Agree(AllNodeFacts(ToSet(cur.nodes)), AllNodeFacts(ToSet(cur'.nodes)), named)
  BY <1>2, <1>13, <1>17, <1>24, SwappedAgree DEF Swapped
<1>29. Agree(LayoutFacts(cur), LayoutFacts(cur'), named)
  BY <1>13, <1>24 DEF Agree, LayoutFacts
<1>30. About(cur, named) = About(cur', named)
  BY <1>27, <1>28, <1>29, AboutAgree
<1> QED  BY <1>1, <1>24, <1>30, PlainEdit

-----------------------------------------------------------------------------
(* Nodes that come: all they say is new. *)

LEMMA AddedIs ==
  ASSUME NEW l, WholeLab(l), Firm(l), NEW k, WholeNode(k), \A n \in ToSet(l.nodes) : n.id # k.id,
         NEW named, NodeName(k.id) \in named, \A i \in DOMAIN k.nics : NameOfNIC(k, i) \in named
  PROVE  Alike(l, Added(l, k), named)
<1> DEFINE nodes == Append(l.nodes, k)
           placed == l.placed \union {k.id}
           a == [l EXCEPT !.nodes = nodes]
           m == Added(l, k)
<1>1. m = [a EXCEPT !.placed = placed]
  BY DEF Added
<1>2. IsSeq(nodes) /\ ToSet(nodes) = ToSet(l.nodes) \union {k}
  BY SeqAppended DEF WholeLab, IsLab, AreNodes
<1>3. \A id : id \in placed <=> id \in l.placed \/ id = k.id
  OBVIOUS
<1> HIDE DEF nodes, placed
<1>4. a.nodes = nodes /\ a.links = l.links /\ a.placed = l.placed /\ a.drawn = l.drawn /\ a.disks = l.disks /\ LabLike(a)
  BY DEF WholeLab, IsLab, LabLike
<1> HIDE DEF a
<1>5. m.nodes = nodes /\ m.links = l.links /\ m.placed = placed /\ m.drawn = l.drawn /\ m.disks = l.disks /\ LabLike(m)
  BY <1>1, <1>4 DEF LabLike
<1> HIDE DEF m
<1>6. WholeLab(m)
  <2>1. \A n \in ToSet(nodes) : WholeNode(n)
    BY <1>2 DEF WholeLab, WholeNodes
  <2>2. AreNodes(m.nodes)
    BY <1>2, <1>5, <2>1 DEF AreNodes, WholeNode, ToSet
  <2> QED  BY <1>5, <2>1, <2>2 DEF WholeLab, IsLab, WholeNodes, WholeParts
<1>7. Silent(NodeFacts(k), named)
  BY NodeSilent
<1>8. Agree(AllNodeFacts(ToSet(l.nodes)), AllNodeFacts(ToSet(m.nodes)), named)
  <2>1. \A n : Agree(NodeFacts(n), NodeFacts(n), named)
    BY DEF Agree
  <2>2. \A n \in ToSet(l.nodes) : n \in ToSet(m.nodes)
    BY <1>2, <1>5
  <2>3. \A n \in ToSet(m.nodes) : n \in ToSet(l.nodes) \/ n = k
    BY <1>2, <1>5
  <2> QED  BY <1>7, <2>1, <2>2, <2>3, NodesAgree
<1>9. Single(ToSet(l.nodes)) /\ Single(ToSet(m.nodes))
  BY <1>2, <1>5 DEF Firm, Single
<1>10. \A e : Ended(ToSet(l.nodes), e) => NameOfEnd(m, e) = NameOfEnd(l, e)
  <2> SUFFICES ASSUME NEW e, Ended(ToSet(l.nodes), e) PROVE NameOfEnd(m, e) = NameOfEnd(l, e)
    OBVIOUS
  <2>1. PICK n \in ToSet(l.nodes) : n.kind = e.kind /\ n.id = e.id
    BY DEF Ended
  <2>2. n \in ToSet(m.nodes)
    BY <1>2, <1>5
  <2> QED  BY <1>9, <2>1, <2>2, EndName
<1>11. Agree(AllLinkFacts(l), AllLinkFacts(m), named)
  <2>1. \A link \in ToSet(l.links) : /\ NameOfEnd(m, link.from) = NameOfEnd(l, link.from)
                                     /\ NameOfEnd(m, link.to) = NameOfEnd(l, link.to)
    BY <1>10 DEF Firm
  <2> QED  BY <1>5, <2>1, LinksAgree
<1>12. Agree(LayoutFacts(l), LayoutFacts(m), named)
  BY <1>3, <1>5 DEF Agree, LayoutFacts, Shown
<1>13. Alike(l, m, named)
  BY <1>6, <1>8, <1>11, <1>12, AboutAgree DEF Alike
<1> QED  BY <1>13 DEF m

LEMMA FreeIs ==
  ASSUME NEW id, NameFree(id, None), Firm(cur)
  PROVE  \A n \in ToSet(cur.nodes) : n.id # id
BY DEF NameFree, Matches, Firm

LEMMA WireIs ==
  ASSUME NEW sw, NEW ext, NEW mac
  PROVE  IsSeq(Wire(sw, ext, mac)) /\ \A i \in DOMAIN Wire(sw, ext, mac) : IsNIC(Wire(sw, ext, mac)[i]) /\ Wire(sw, ext, mac)[i].mac = mac
<1>1. ASSUME NEW x PROVE IsSeq(<<x>>) /\ IsSeq(<<>>) /\ DOMAIN <<x>> = {1} /\ <<x>>[1] = x
  BY DEF IsSeq
<1>2. \A s, x : IsNIC(NIC(s, x, mac)) /\ NIC(s, x, mac).mac = mac
  BY DEF IsNIC, NIC
<1> QED  BY <1>1, <1>2 DEF Wire

LEMMA CreateWorkloadOnly ==
  ASSUME Ready(cur), NEW kind \in Workload, NEW id, NEW path, NEW swRef, NEW extRef, NEW mac,
         CreateWorkload(kind, id, path, swRef, extRef, mac)
  PROVE  EditsOnly
<1> DEFINE named == {NodeName(id), MacName(mac)}
<1>1. PICK sw, ext : cur' = Added(cur, [Node(id, kind) EXCEPT !.disk = path, !.nics = Wire(sw, ext, mac)])
                     /\ op' = Op(named, None, None) /\ NameFree(id, None)
  BY DEF CreateWorkload, Apply, Names
<1> DEFINE nics == Wire(sw, ext, mac)
           b == Node(id, kind)
           a == [b EXCEPT !.disk = path]
           k == [a EXCEPT !.nics = nics]
<1>2. [Node(id, kind) EXCEPT !.disk = path, !.nics = Wire(sw, ext, mac)] = k
  OBVIOUS
<1>3. IsSeq(nics) /\ \A i \in DOMAIN nics : IsNIC(nics[i]) /\ nics[i].mac = mac
  BY WireIs
<1> HIDE DEF nics
<1>4. IsNode(k)
  <2>1. k = [b EXCEPT !.disk = path, !.nics = nics]
    OBVIOUS
  <2> HIDE DEF k, b
  <2> QED  BY <2>1, NodeIsNode, NodeChanged DEF b
<1>5. k.id = id /\ k.kind = kind /\ k.nics = nics /\ k.uplinks = <<>> /\ k.caps = [add |-> k.caps.add, drop |-> k.caps.drop]
  BY DEF Node, NoCaps
<1> HIDE DEF k
<1>6. WholeNode(k)
  BY <1>3, <1>4, <1>5 DEF WholeNode
<1>7. \A i \in DOMAIN k.nics : NameOfNIC(k, i) \in named
  BY <1>3, <1>5 DEF NameOfNIC
<1>8. \A n \in ToSet(cur.nodes) : n.id # k.id
  BY <1>1, <1>5, FreeIs DEF Ready
<1> HIDE DEF named
<1>9. Alike(cur, cur', named)
  BY <1>1, <1>2, <1>5, <1>6, <1>7, <1>8, AddedIs DEF Ready, named
<1> QED  BY <1>1, <1>9, PlainEdit DEF Alike

LEMMA CreateDHCPOnly ==
  ASSUME Ready(cur), NEW id, NEW ref, CreateDHCP(id, ref)
  PROVE  EditsOnly
<1> DEFINE named == {NodeName(id)}
<1>1. PICK sw : cur' = Added(cur, [Node(id, "container") EXCEPT !.nics = <<NIC(sw, None, None)>>, !.dhcp = TRUE, !.desired = "running"])
                     /\ op' = Op(named, None, None) /\ NameFree(id, None)
  BY DEF CreateDHCP, Apply, Names
<1> DEFINE nics == <<NIC(sw, None, None)>>
           b == Node(id, "container")
           c == [b EXCEPT !.nics = nics]
           a == [c EXCEPT !.dhcp = TRUE]
           k == [a EXCEPT !.desired = "running"]
<1>2. [Node(id, "container") EXCEPT !.nics = <<NIC(sw, None, None)>>, !.dhcp = TRUE, !.desired = "running"] = k
  OBVIOUS
<1>3. IsSeq(nics) /\ \A i \in DOMAIN nics : IsNIC(nics[i]) /\ nics[i].mac = None
  <2>1. ASSUME NEW x PROVE IsSeq(<<x>>) /\ DOMAIN <<x>> = {1} /\ <<x>>[1] = x
    BY DEF IsSeq
  <2>2. IsNIC(NIC(sw, None, None)) /\ NIC(sw, None, None).mac = None
    BY DEF IsNIC, NIC
  <2> QED  BY <2>1, <2>2
<1> HIDE DEF nics
<1>4. IsNode(k)
  <2>1. k = [b EXCEPT !.nics = nics, !.dhcp = TRUE, !.desired = "running"]
    OBVIOUS
  <2> HIDE DEF k, b
  <2> QED  BY <2>1, NodeIsNode, NodeMade DEF b
<1>5. k.id = id /\ k.kind = "container" /\ k.nics = nics /\ k.uplinks = <<>> /\ k.caps = [add |-> k.caps.add, drop |-> k.caps.drop]
  BY DEF Node, NoCaps
<1> HIDE DEF k
<1>6. WholeNode(k)
  BY <1>3, <1>4, <1>5 DEF WholeNode, Workload
<1>7. \A i \in DOMAIN k.nics : NameOfNIC(k, i) \in named
  BY <1>3, <1>5 DEF NameOfNIC
<1>8. \A n \in ToSet(cur.nodes) : n.id # k.id
  BY <1>1, <1>5, FreeIs DEF Ready
<1> HIDE DEF named
<1>9. Alike(cur, cur', named)
  BY <1>1, <1>2, <1>5, <1>6, <1>7, <1>8, AddedIs DEF Ready, named
<1> QED  BY <1>1, <1>9, PlainEdit DEF Alike

LEMMA CreateNetworkOnly ==
  ASSUME Ready(cur), NEW id, NEW mode, NEW ref
  PROVE  /\ CreateSwitch(id, mode, ref) => EditsOnly
         /\ CreateExternal(id, mode) => EditsOnly
<1> DEFINE named == {NodeName(id)}
<1>1. ASSUME NEW k, WholeNode(k), k.id = id, k.nics = <<>>, NameFree(id, None), cur' = Added(cur, k), op' = Op(named, None, None)
      PROVE  EditsOnly
  <2>1. \A i \in DOMAIN k.nics : NameOfNIC(k, i) \in named
    BY <1>1
  <2>2. \A n \in ToSet(cur.nodes) : n.id # k.id
    BY <1>1, FreeIs DEF Ready
  <2>3. NodeName(k.id) \in named
    BY <1>1
  <2> HIDE DEF named
  <2>4. Alike(cur, cur', named)
    BY <1>1, <2>1, <2>2, <2>3, AddedIs DEF Ready
  <2> QED  BY <1>1, <2>4, PlainEdit DEF Alike
<1>2. ASSUME CreateSwitch(id, mode, ref) PROVE EditsOnly
  <2> DEFINE uplinks == IF ref = None THEN <<>> ELSE <<Asked(ref, "external")>>
             b == Node(id, "switch")
             a == [b EXCEPT !.mode = mode]
             k == [a EXCEPT !.uplinks = uplinks]
  <2>1. cur' = Added(cur, k) /\ op' = Op(named, None, None) /\ NameFree(id, None)
    BY <1>2 DEF CreateSwitch, Apply, Names
  <2>2. IsSeq(uplinks)
    <3>1. ASSUME NEW x PROVE IsSeq(<<x>>) /\ IsSeq(<<>>)
      BY DEF IsSeq
    <3> QED  BY <3>1
  <2> HIDE DEF uplinks
  <2>3. IsNode(k)
    <3>1. k = [b EXCEPT !.mode = mode, !.uplinks = uplinks]
      OBVIOUS
    <3> HIDE DEF k, b
    <3> QED  BY <2>2, <3>1, NodeIsNode, NodeMade DEF b
  <2>4. k.id = id /\ k.kind = "switch" /\ k.nics = <<>> /\ k.caps = [add |-> k.caps.add, drop |-> k.caps.drop]
    BY DEF Node, NoCaps
  <2> HIDE DEF k
  <2>5. IsSeq(k.nics)
    BY <2>4 DEF IsSeq
  <2>6. WholeNode(k)
    BY <2>3, <2>4, <2>5 DEF WholeNode
  <2> QED  BY <1>1, <2>1, <2>4, <2>6
<1>3. ASSUME CreateExternal(id, mode) PROVE EditsOnly
  <2> DEFINE b == Node(id, "external")
             k == [b EXCEPT !.mode = mode]
  <2>1. cur' = Added(cur, k) /\ op' = Op(named, None, None) /\ NameFree(id, None)
    BY <1>3 DEF CreateExternal, Apply, Names
  <2>2. IsNode(k)
    <3> HIDE DEF b
    <3> QED  BY NodeIsNode, NodeChanged DEF b
  <2>3. k.id = id /\ k.kind = "external" /\ k.nics = <<>> /\ k.uplinks = <<>> /\ k.caps = [add |-> k.caps.add, drop |-> k.caps.drop]
    BY DEF Node, NoCaps
  <2> HIDE DEF k
  <2>4. IsSeq(k.nics)
    BY <2>3 DEF IsSeq
  <2>5. WholeNode(k)
    BY <2>2, <2>3, <2>4 DEF WholeNode
  <2> QED  BY <1>1, <2>1, <2>3, <2>5
<1> QED  BY <1>2, <1>3

-----------------------------------------------------------------------------
(* Nodes that go: what led to them is named, and nothing else falls with it. *)

\* A lab without one of its nodes.
Lacks(l, m, n) ==
  /\ WholeLab(m) /\ ToSet(m.nodes) = ToSet(l.nodes) \ {n} /\ m.links = l.links /\ m.disks = l.disks
  /\ m.placed = l.placed \ {n.id}
  /\ m.drawn = {link \in l.drawn : [kind |-> n.kind, id |-> n.id] \notin Ends(link)}

LEMMA DroppedIs ==
  ASSUME NEW l, WholeLab(l), Single(ToSet(l.nodes)), NEW n \in ToSet(l.nodes)
  PROVE  Lacks(l, Dropped(l, n.kind, n.id), n)
<1> DEFINE S == {x \in ToSet(l.nodes) : x.kind # n.kind \/ x.id # n.id}
           nodes == Among(l.nodes, S)
           placed == l.placed \ {n.id}
           drawn == {link \in l.drawn : [kind |-> n.kind, id |-> n.id] \notin Ends(link)}
           a == [l EXCEPT !.nodes = nodes]
           b == [a EXCEPT !.placed = placed]
           m == Dropped(l, n.kind, n.id)
<1>1. m = [b EXCEPT !.drawn = drawn]
  BY DEF Dropped, WholeLab, IsLab, LabLike
<1>2. S = ToSet(l.nodes) \ {n}
  BY DEF Single
<1>3. IsSeq(nodes) /\ ToSet(nodes) = S
  <2>1. S \subseteq ToSet(l.nodes)
    OBVIOUS
  <2> HIDE DEF S
  <2> QED  BY <2>1, AmongIs DEF WholeLab, IsLab, AreNodes
<1>4. drawn \subseteq l.drawn
  OBVIOUS
<1> HIDE DEF S, nodes, placed, drawn
<1>5. a.nodes = nodes /\ a.links = l.links /\ a.placed = l.placed /\ a.drawn = l.drawn /\ a.disks = l.disks /\ LabLike(a)
  BY DEF WholeLab, IsLab, LabLike
<1> HIDE DEF a
<1>6. b.nodes = nodes /\ b.links = l.links /\ b.placed = placed /\ b.drawn = l.drawn /\ b.disks = l.disks /\ LabLike(b)
  BY <1>5 DEF LabLike
<1> HIDE DEF b, m
<1>7. m.nodes = nodes /\ m.links = l.links /\ m.placed = placed /\ m.drawn = drawn /\ m.disks = l.disks /\ LabLike(m)
  BY <1>1, <1>6 DEF LabLike
<1>8. \A x \in ToSet(nodes) : WholeNode(x)
  BY <1>2, <1>3 DEF WholeLab, WholeNodes
<1>9. AreNodes(nodes)
  BY <1>3, <1>8 DEF AreNodes, WholeNode, ToSet
<1>10. WholeLab(m)
  BY <1>4, <1>7, <1>8, <1>9 DEF WholeLab, IsLab, WholeNodes, WholeParts
<1>11. Lacks(l, m, n)
  BY <1>2, <1>3, <1>7, <1>10 DEF Lacks, placed, drawn
<1> QED  BY <1>11 DEF m

\* The layout without one node.
LEMMA LayoutLacks ==
  ASSUME NEW l, NEW m, NEW n, NEW named, NodeName(n.id) \in named,
         m.placed = l.placed \ {n.id}, m.drawn = {link \in l.drawn : [kind |-> n.kind, id |-> n.id] \notin Ends(link)},
         \A d \in l.disks : NodeName(d.at.id) \in named \/ \E e \in m.disks : e.id = d.id /\ e.at = d.at,
         \A e \in m.disks : e.at.id = None \/ \E d \in l.disks : e.id = d.id /\ e.at = d.at
  PROVE  Agree(LayoutFacts(l), LayoutFacts(m), named)
<1> SUFFICES ASSUME NEW f, Shown(f, named) PROVE f \in LayoutFacts(l) <=> f \in LayoutFacts(m)
  BY DEF Agree
<1>1. f \in {<<"disk", Word(d.id), NodeName(d.at.id)>> : d \in l.disks} <=> f \in {<<"disk", Word(e.id), NodeName(e.at.id)>> : e \in m.disks}
  <2>1. ASSUME NEW d, f = <<"disk", Word(d.id), NodeName(d.at.id)>> PROVE NodeName(d.at.id) \notin named /\ d.at.id # None
    BY <2>1 DEF Shown, NodeName
  <2> QED  BY <2>1
<1>2. f \in {<<"placed", NodeName(id), NodeName(id)>> : id \in l.placed} <=> f \in {<<"placed", NodeName(id), NodeName(id)>> : id \in m.placed}
  BY DEF Shown
<1>3. f \in {<<"drawn", NodeName(link.from.id), NodeName(link.to.id)>> : link \in l.drawn}
      <=> f \in {<<"drawn", NodeName(link.from.id), NodeName(link.to.id)>> : link \in m.drawn}
  <2>1. ASSUME NEW link \in l.drawn, f = <<"drawn", NodeName(link.from.id), NodeName(link.to.id)>> PROVE link \in m.drawn
    <3>1. NodeName(link.from.id) \notin named /\ NodeName(link.to.id) \notin named
      BY <2>1 DEF Shown
    <3>2. link.from # [kind |-> n.kind, id |-> n.id] /\ link.to # [kind |-> n.kind, id |-> n.id]
      BY <3>1
    <3> QED  BY <3>2 DEF Ends
  <2> QED  BY <2>1
<1> QED  BY <1>1, <1>2, <1>3 DEF LayoutFacts

\* The links that no end of which is named.
LEMMA LinksSame ==
  ASSUME NEW l, NEW m, NEW named, Firm(l), Single(ToSet(m.nodes)), ToSet(m.links) \subseteq ToSet(l.links),
         \A link \in ToSet(l.links) : NameOfEnd(l, link.from) \in named \/ NameOfEnd(l, link.to) \in named \/ link \in ToSet(m.links),
         \A link \in ToSet(m.links) : \A e \in {link.from, link.to} :
           \E k \in ToSet(m.nodes) : k.kind = e.kind /\ k.id = e.id /\ NameOfNIC(k, e.nic) = NameOfEnd(l, e)
  PROVE  Agree(AllLinkFacts(l), AllLinkFacts(m), named)
<1>1. ASSUME NEW link \in ToSet(m.links), NEW e \in {link.from, link.to} PROVE NameOfEnd(m, e) = NameOfEnd(l, e)
  <2>1. PICK k \in ToSet(m.nodes) : k.kind = e.kind /\ k.id = e.id /\ NameOfNIC(k, e.nic) = NameOfEnd(l, e)
    OBVIOUS
  <2> QED  BY <2>1, EndName
<1>2. \A link \in ToSet(m.links) : NameOfEnd(m, link.from) = NameOfEnd(l, link.from) /\ NameOfEnd(m, link.to) = NameOfEnd(l, link.to)
  BY <1>1
<1> QED  BY <1>2, LinksAgree

LEMMA DetachedIs ==
  ASSUME NEW disks, \A d \in disks : IsDisk(d), NEW kind, NEW id
  PROVE  LET left == DetachedFrom(disks, [kind |-> kind, id |-> id])
         IN  /\ \A e \in left : IsDisk(e) /\ \E d \in disks : e.id = d.id /\ e.at \in {d.at, Nowhere}
             /\ \A d \in disks : d.at.id = id \/ d \in left
<1> DEFINE at == [kind |-> kind, id |-> id]
           left == DetachedFrom(disks, at)
<1>1. left = {IF d.at = at THEN [d EXCEPT !.at = Nowhere] ELSE d : d \in disks}
  BY DEF DetachedFrom
<1>2. \A d \in disks : d.at = at => d.at.id = id
  OBVIOUS
<1>3. ASSUME NEW d, IsDisk(d) PROVE IsDisk([d EXCEPT !.at = Nowhere]) /\ [d EXCEPT !.at = Nowhere].id = d.id /\ [d EXCEPT !.at = Nowhere].at = Nowhere
  BY <1>3 DEF IsDisk, Disk, IsPlace, Nowhere
<1> HIDE DEF at, left
<1>4. \A e \in left : \E d \in disks : e = d \/ e = [d EXCEPT !.at = Nowhere]
  BY <1>1
<1>5. \A d \in disks : d.at = at \/ d \in left
  BY <1>1
<1>6. \A e \in left : IsDisk(e) /\ \E d \in disks : e.id = d.id /\ e.at \in {d.at, Nowhere}
  <2> SUFFICES ASSUME NEW e \in left PROVE IsDisk(e) /\ \E d \in disks : e.id = d.id /\ e.at \in {d.at, Nowhere}
    OBVIOUS
  <2>1. PICK d \in disks : e = d \/ e = [d EXCEPT !.at = Nowhere]
    BY <1>4
  <2> QED  BY <1>3, <2>1
<1> QED  BY <1>2, <1>5, <1>6 DEF left, at

LEMMA DeleteWorkloadOnly ==
  ASSUME Ready(cur), NEW kind \in Workload, NEW ref, Resolve(cur, ref, {kind}) # None, DeleteWorkload(kind, ref)
  PROVE  EditsOnly
<1> DEFINE id == Resolve(cur, ref, {kind})
           n == NodeOf(cur, kind, id)
           a == Dropped(cur, kind, id)
           kept == WithoutNodeLinks(a, kind, id)
           disks == DetachedFrom(kept.disks, [kind |-> kind, id |-> id])
           named == {NodeName(id)} \union MacsOf(kind, id)
<1>1. cur' = [kept EXCEPT !.disks = disks] /\ op' = Op(named, None, None)
  BY DEF DeleteWorkload, Apply, Names
<1>2. n \in ToSet(cur.nodes) /\ n.kind = kind /\ n.id = id
  BY ResolveId
<1>3. WholeNode(n) /\ IsSeq(n.nics) /\ WholeLab(cur) /\ Single(ToSet(cur.nodes)) /\ Firm(cur)
  BY <1>2, ReadyNode DEF WholeNode
<1>4. NodeName(id) \in named /\ \A i \in DOMAIN n.nics : NameOfNIC(n, i) \in named
  BY <1>2 DEF NameOfNIC, MacsOf, ToSet
<1> HIDE DEF n, id, named
<1>5. Lacks(cur, a, n)
  BY <1>2, <1>3, DroppedIs
<1> HIDE DEF a
<1>6. /\ WholeLab(kept) /\ kept.nodes = a.nodes /\ kept.placed = a.placed /\ kept.drawn = a.drawn /\ kept.disks = cur.disks
      /\ ToSet(kept.links) = {link \in ToSet(cur.links) : ~(link.from.kind = kind /\ link.from.id = id) /\ ~(link.to.kind = kind /\ link.to.id = id)}
  BY <1>5, WithoutLinks DEF Lacks
<1> HIDE DEF kept
<1>7. /\ \A e \in disks : IsDisk(e) /\ \E d \in cur.disks : e.id = d.id /\ e.at \in {d.at, Nowhere}
      /\ \A d \in cur.disks : d.at.id = id \/ d \in disks
  BY <1>3, <1>6, DetachedIs DEF WholeLab, WholeParts
<1> HIDE DEF disks
<1>8. cur'.nodes = a.nodes /\ cur'.links = kept.links /\ cur'.placed = a.placed /\ cur'.drawn = a.drawn /\ cur'.disks = disks /\ LabLike(cur')
  BY <1>1, <1>6 DEF WholeLab, IsLab, LabLike
<1>9. WholeLab(cur')
  BY <1>6, <1>7, <1>8 DEF WholeLab, IsLab, WholeParts
<1>10. /\ ToSet(cur'.nodes) = ToSet(cur.nodes) \ {n}
       /\ cur'.placed = cur.placed \ {n.id}
       /\ cur'.drawn = {link \in cur.drawn : [kind |-> n.kind, id |-> n.id] \notin Ends(link)}
  BY <1>5, <1>8 DEF Lacks
<1>11. Agree(LayoutFacts(cur), LayoutFacts(cur'), named)
  <2>1. Nowhere.id = None
    BY DEF Nowhere
  <2>2. \A d \in cur.disks : NodeName(d.at.id) \in named \/ \E e \in cur'.disks : e.id = d.id /\ e.at = d.at
    BY <1>4, <1>7, <1>8
  <2>3. \A e \in cur'.disks : e.at.id = None \/ \E d \in cur.disks : e.id = d.id /\ e.at = d.at
    BY <1>7, <1>8, <2>1
  <2> QED  BY <1>2, <1>4, <1>10, <2>2, <2>3, LayoutLacks
<1>12. Agree(AllNodeFacts(ToSet(cur.nodes)), AllNodeFacts(ToSet(cur'.nodes)), named)
  <2>1. Silent(NodeFacts(n), named)
    BY <1>2, <1>4, NodeSilent
  <2>2. \A x : Agree(NodeFacts(x), NodeFacts(x), named)
    BY DEF Agree
  <2> QED  BY <1>10, <2>1, <2>2, NodesAgree
<1>13. Single(ToSet(cur'.nodes))
  BY <1>3, <1>10 DEF Single
<1>14. ASSUME NEW e, Ended(ToSet(cur.nodes), e)
       PROVE  \/ e.kind = kind /\ e.id = id /\ NameOfEnd(cur, e) \in named
              \/ \E k \in ToSet(cur'.nodes) : k.kind = e.kind /\ k.id = e.id /\ NameOfNIC(k, e.nic) = NameOfEnd(cur, e)
  <2>1. PICK x \in ToSet(cur.nodes) : x.kind = e.kind /\ x.id = e.id /\ e.nic \in DOMAIN x.nics
    BY <1>14 DEF Ended
  <2>2. NameOfEnd(cur, e) = NameOfNIC(x, e.nic)
    BY <1>3, <2>1, EndName
  <2>3. CASE x = n
    BY <1>2, <1>4, <2>1, <2>2, <2>3
  <2>4. CASE x # n
    BY <1>10, <2>1, <2>2, <2>4
  <2> QED  BY <2>3, <2>4
<1>15. ASSUME NEW link \in ToSet(cur.links), NEW e \in {link.from, link.to}, e.kind = kind, e.id = id
       PROVE  NameOfEnd(cur, e) \in named
  <2>1. PICK x \in ToSet(cur.nodes) : x.kind = e.kind /\ x.id = e.id /\ e.nic \in DOMAIN x.nics
    BY <1>3 DEF Firm, Ended
  <2>2. x = n
    BY <1>2, <1>3, <1>15, <2>1 DEF Single
  <2>3. NameOfEnd(cur, e) = NameOfNIC(n, e.nic)
    BY <1>2, <1>3, <1>15, EndName
  <2> QED  BY <1>4, <2>1, <2>2, <2>3
<1>16. ToSet(cur'.links) = {link \in ToSet(cur.links) : ~(link.from.kind = kind /\ link.from.id = id) /\ ~(link.to.kind = kind /\ link.to.id = id)}
  BY <1>6, <1>8
<1>17. Agree(AllLinkFacts(cur), AllLinkFacts(cur'), named)
  <2>1. \A link \in ToSet(cur.links) : NameOfEnd(cur, link.from) \in named \/ NameOfEnd(cur, link.to) \in named \/ link \in ToSet(cur'.links)
    BY <1>15, <1>16
  <2>2. ASSUME NEW link \in ToSet(cur'.links), NEW e \in {link.from, link.to}
        PROVE  \E k \in ToSet(cur'.nodes) : k.kind = e.kind /\ k.id = e.id /\ NameOfNIC(k, e.nic) = NameOfEnd(cur, e)
    <3>1. Ended(ToSet(cur.nodes), e) /\ ~(e.kind = kind /\ e.id = id)
      BY <1>3, <1>16 DEF Firm
    <3> QED  BY <1>14, <3>1
  <2>3. ToSet(cur'.links) \subseteq ToSet(cur.links)
    BY <1>16
  <2> QED  BY <1>3, <1>13, <2>1, <2>2, <2>3, LinksSame
<1>18. About(cur, named) = About(cur', named)
  BY <1>11, <1>12, <1>17, AboutAgree
<1> QED  BY <1>1, <1>9, <1>18, PlainEdit

LEMMA MappedWhole ==
  ASSUME NEW l, WholeLab(l), NEW nodes, DOMAIN nodes = DOMAIN l.nodes, nodes = [i \in DOMAIN nodes |-> nodes[i]],
         \A i \in DOMAIN nodes : WholeNode(nodes[i]), NEW m, m = [l EXCEPT !.nodes = nodes]
  PROVE  /\ WholeLab(m) /\ m.nodes = nodes
         /\ m.links = l.links /\ m.placed = l.placed /\ m.drawn = l.drawn /\ m.disks = l.disks
<1>1. IsLab(m)
  BY MappedLab DEF WholeLab, WholeNode
<1>2. m.nodes = nodes /\ m.links = l.links /\ m.placed = l.placed /\ m.drawn = l.drawn /\ m.disks = l.disks
  BY DEF WholeLab, IsLab, LabLike
<1> QED  BY <1>1, <1>2 DEF WholeLab, WholeNodes, WholeParts, ToSet

\* A node that is left by the switch or the uplink it was connected to.
Leaves(x, y, named) ==
  /\ WholeNode(y) /\ y.id = x.id /\ y.kind = x.kind /\ y.uplinks = x.uplinks /\ y.legacy = x.legacy
  /\ \A j : NameOfNIC(y, j) = NameOfNIC(x, j)
  /\ Agree(NodeFacts(x), NodeFacts(y), named)

Pulled(x, nics, named) ==
  /\ DOMAIN nics = DOMAIN x.nics /\ nics = [j \in DOMAIN nics |-> nics[j]]
  /\ \A j \in DOMAIN nics :
       /\ IsNIC(nics[j]) /\ nics[j].mac = x.nics[j].mac
       /\ nics[j].sw = x.nics[j].sw \/ (nics[j].sw = None /\ NodeName(x.nics[j].sw) \in named)
       /\ nics[j].ext = x.nics[j].ext \/ (nics[j].ext = None /\ NodeName(x.nics[j].ext) \in named)

LEMMA PulledNIC ==
  ASSUME NEW nic, IsNIC(nic), NEW x
  PROVE  [nic EXCEPT !.sw = x] = NIC(x, nic.ext, nic.mac) /\ [nic EXCEPT !.ext = x] = NIC(nic.sw, x, nic.mac)
BY DEF IsNIC, NIC

LEMMA NICParts ==
  ASSUME NEW sw, NEW ext, NEW mac
  PROVE  IsNIC(NIC(sw, ext, mac)) /\ NIC(sw, ext, mac).sw = sw /\ NIC(sw, ext, mac).ext = ext /\ NIC(sw, ext, mac).mac = mac
BY DEF IsNIC, NIC

LEMMA UnpluggedNode ==
  ASSUME NEW x, WholeNode(x), NEW named, NEW nics, Pulled(x, nics, named)
  PROVE  Leaves(x, [x EXCEPT !.nics = nics], named)
<1> DEFINE y == [x EXCEPT !.nics = nics]
<1>1. IsNode(y)
  BY NodeChanged DEF WholeNode
<1>2. /\ y.id = x.id /\ y.kind = x.kind /\ y.mode = x.mode /\ y.uplinks = x.uplinks /\ y.nics = nics
      /\ y.caps = x.caps /\ y.disk = x.disk /\ y.desired = x.desired /\ y.legacy = x.legacy
  BY DEF WholeNode, IsNode
<1> HIDE DEF y
<1>3. IsSeq(nics)
  BY SeqMapped DEF WholeNode, Pulled
<1>4. x.nics = <<>> => nics = <<>>
  <2>1. DOMAIN <<>> = {} /\ <<>> = [j \in DOMAIN <<>> |-> <<>>[j]]
    OBVIOUS
  <2> QED  BY <2>1 DEF Pulled
<1>5. WholeNode(y)
  BY <1>1, <1>2, <1>3, <1>4 DEF WholeNode, Pulled
<1>6. \A j : NameOfNIC(y, j) = NameOfNIC(x, j)
  BY <1>2 DEF NameOfNIC, Pulled
<1>7. Agree(OwnFacts(x), OwnFacts(y), named)
  BY <1>2, OwnAgree DEF DesiredState, Effective
<1>8. ASSUME NEW j \in DOMAIN nics PROVE Agree(NICFacts(x, j), NICFacts(y, j), named)
  <2> SUFFICES ASSUME NEW f, Shown(f, named) PROVE f \in NICFacts(x, j) <=> f \in NICFacts(y, j)
    BY DEF Agree
  <2> DEFINE nic == NameOfNIC(x, j)
  <2>1. \A k, s : f = <<k, nic, NodeName(s)>> => s # None /\ NodeName(s) \notin named
    BY DEF Shown, NodeName
  <2>2. f = <<"switch", nic, NodeName(x.nics[j].sw)>> <=> f = <<"switch", nic, NodeName(nics[j].sw)>>
    BY <2>1 DEF Pulled
  <2>3. f = <<"uplink", nic, NodeName(x.nics[j].ext)>> <=> f = <<"uplink", nic, NodeName(nics[j].ext)>>
    BY <2>1 DEF Pulled
  <2> QED  BY <1>2, <1>6, <2>2, <2>3 DEF NICFacts
<1>9. Agree(NodeFacts(x), NodeFacts(y), named)
  BY <1>2, <1>7, <1>8, NodeAgree DEF Pulled
<1>10. Leaves(x, y, named)
  BY <1>2, <1>5, <1>6, <1>9 DEF Leaves
<1> QED  BY <1>10 DEF y

\* What remains of a lab without a switch or an uplink.
Remains(x, y, named) == y.id = x.id /\ y.kind = x.kind /\ (\A j : NameOfNIC(y, j) = NameOfNIC(x, j)) /\ Agree(NodeFacts(x), NodeFacts(y), named)

LEMMA NetworkGone ==
  ASSUME NEW l, WholeLab(l), Firm(l), NEW n \in ToSet(l.nodes), n.kind \notin Workload, NEW named, NodeName(n.id) \in named,
         NEW a, Lacks(l, a, n), NEW nodes, NEW m, WholeLab(m), m.nodes = nodes, DOMAIN nodes = DOMAIN a.nodes,
         m.links = a.links, m.placed = a.placed, m.drawn = a.drawn, m.disks = a.disks,
         \A i \in DOMAIN nodes : Remains(a.nodes[i], nodes[i], named),
         \A i, j \in DOMAIN nodes : a.nodes[i] = a.nodes[j] => nodes[i] = nodes[j]
  PROVE  About(l, named) = About(m, named)
<1>1. Single(ToSet(l.nodes)) /\ WholeNode(n) /\ n.nics = <<>>
  BY DEF Firm, WholeLab, WholeNodes, WholeNode
<1>2. ToSet(a.nodes) = ToSet(l.nodes) \ {n} /\ Single(ToSet(a.nodes))
  BY <1>1 DEF Lacks, Single
<1>3. \A x \in ToSet(a.nodes) : \E y \in ToSet(m.nodes) : Remains(x, y, named)
  BY DEF ToSet
<1>4. \A y \in ToSet(m.nodes) : \E x \in ToSet(a.nodes) : Remains(x, y, named)
  BY DEF ToSet
<1>5. Single(ToSet(m.nodes))
  <2> SUFFICES ASSUME NEW i \in DOMAIN nodes, NEW j \in DOMAIN nodes, nodes[i].id = nodes[j].id PROVE nodes[i] = nodes[j]
    BY DEF Single, ToSet
  <2>1. a.nodes[i].id = a.nodes[j].id
    BY DEF Remains
  <2>2. a.nodes[i] = a.nodes[j]
    BY <1>2, <2>1 DEF Single, ToSet
  <2> QED  BY <2>2
<1>6. Silent(NodeFacts(n), named)
  BY <1>1, NodeSilent
<1>7. Agree(AllNodeFacts(ToSet(l.nodes)), AllNodeFacts(ToSet(m.nodes)), named)
  <2>1. \A x \in ToSet(l.nodes) : Silent(NodeFacts(x), named) \/ \E y \in ToSet(m.nodes) : Agree(NodeFacts(x), NodeFacts(y), named)
    BY <1>2, <1>3, <1>6 DEF Remains
  <2>2. \A y \in ToSet(m.nodes) : \E x \in ToSet(l.nodes) : Agree(NodeFacts(x), NodeFacts(y), named)
    BY <1>2, <1>4 DEF Remains
  <2> QED  BY <2>1, <2>2, NodesAgree
<1>8. Agree(LayoutFacts(l), LayoutFacts(m), named)
  BY LayoutLacks DEF Lacks
<1>9. Agree(AllLinkFacts(l), AllLinkFacts(m), named)
  <2>1. ASSUME NEW link \in ToSet(m.links), NEW e \in {link.from, link.to}
        PROVE  \E k \in ToSet(m.nodes) : k.kind = e.kind /\ k.id = e.id /\ NameOfNIC(k, e.nic) = NameOfEnd(l, e)
    <3>1. Ended(ToSet(l.nodes), e)
      BY DEF Lacks, Firm
    <3>2. PICK x \in ToSet(l.nodes) : x.kind = e.kind /\ x.id = e.id /\ e.kind \in Workload
      BY <3>1 DEF Ended
    <3>3. x \in ToSet(a.nodes) /\ NameOfEnd(l, e) = NameOfNIC(x, e.nic)
      BY <1>1, <1>2, <3>2, EndName
    <3> QED  BY <1>3, <3>2, <3>3 DEF Remains
  <2>2. m.links = l.links
    BY DEF Lacks
  <2> QED  BY <1>5, <2>1, <2>2, LinksSame
<1> QED  BY <1>7, <1>8, <1>9, AboutAgree

LEMMA SwitchDeleteOnly ==
  ASSUME Ready(cur), NEW ref, Resolve(cur, ref, {"switch"}) # None, SwitchDelete(ref)
  PROVE  EditsOnly
<1> DEFINE id == Resolve(cur, ref, {"switch"})
           n == NodeOf(cur, "switch", id)
           a == Dropped(cur, "switch", id)
           named == {NodeName(id)}
           nics(x) == [j \in DOMAIN x.nics |-> [x.nics[j] EXCEPT !.sw = Subst(x.nics[j].sw, id, None)]]
           nodes == [i \in DOMAIN a.nodes |-> [a.nodes[i] EXCEPT !.nics = nics(a.nodes[i])]]
<1>1. cur' = [a EXCEPT !.nodes = nodes] /\ op' = Op(named, None, None)
  <2>1. cur' = Unplugged(a, "sw", id) /\ op' = Op(named, None, None)
    BY DEF SwitchDelete, Apply, Names
  <2> HIDE DEF a
  <2>2. Unplugged(a, "sw", id) = [a EXCEPT !.nodes = nodes]
    BY DEF Unplugged, OnNodes, OnNICs
  <2> QED  BY <2>1, <2>2
<1>2. n \in ToSet(cur.nodes) /\ n.kind = "switch" /\ n.id = id
  BY ResolveId
<1>3. WholeLab(cur) /\ Single(ToSet(cur.nodes)) /\ Firm(cur)
  BY <1>2, ReadyNode
<1> HIDE DEF n, id
<1>4. Lacks(cur, a, n)
  BY <1>2, <1>3, DroppedIs
<1> HIDE DEF a
<1>5. ASSUME NEW x, WholeNode(x) PROVE Leaves(x, [x EXCEPT !.nics = nics(x)], named)
  <2> DEFINE s == nics(x)
  <2>1. \A j \in DOMAIN s : IsNIC(x.nics[j]) /\ s[j] = [x.nics[j] EXCEPT !.sw = Subst(x.nics[j].sw, id, None)]
    BY <1>5 DEF WholeNode
  <2>2. DOMAIN s = DOMAIN x.nics /\ s = [j \in DOMAIN s |-> s[j]]
    OBVIOUS
  <2> HIDE DEF s
  <2>3. \A j \in DOMAIN s : s[j] = NIC(Subst(x.nics[j].sw, id, None), x.nics[j].ext, x.nics[j].mac)
    BY <2>1, PulledNIC
  <2>4. \A j \in DOMAIN s : IsNIC(s[j]) /\ s[j].mac = x.nics[j].mac /\ s[j].sw = Subst(x.nics[j].sw, id, None) /\ s[j].ext = x.nics[j].ext
    BY <2>3, NICParts
  <2>5. Pulled(x, s, named)
    BY <2>2, <2>4 DEF Pulled, Subst
  <2>6. Leaves(x, [x EXCEPT !.nics = s], named)
    BY <1>5, <2>5, UnpluggedNode
  <2> QED  BY <2>6 DEF s
<1>6. \A i \in DOMAIN a.nodes : WholeNode(a.nodes[i])
  BY <1>4 DEF Lacks, WholeLab, WholeNodes, ToSet
<1> HIDE DEF nics
<1>7. DOMAIN nodes = DOMAIN a.nodes /\ nodes = [i \in DOMAIN nodes |-> nodes[i]] /\ \A i \in DOMAIN nodes : Leaves(a.nodes[i], nodes[i], named)
  BY <1>5, <1>6
<1>8. \A i, j \in DOMAIN nodes : a.nodes[i] = a.nodes[j] => nodes[i] = nodes[j]
  OBVIOUS
<1>9. NodeName(n.id) \in named
  BY <1>2
<1> HIDE DEF nodes, named
<1>10. /\ WholeLab(cur') /\ cur'.nodes = nodes /\ cur'.links = a.links /\ cur'.placed = a.placed /\ cur'.drawn = a.drawn /\ cur'.disks = a.disks
  BY <1>1, <1>4, <1>7, MappedWhole DEF Leaves, Lacks
<1>11. \A i \in DOMAIN nodes : Remains(a.nodes[i], nodes[i], named)
  BY <1>7 DEF Leaves, Remains
<1>12. n.kind \notin Workload
  BY <1>2 DEF Workload
<1>13. About(cur, named) = About(cur', named)
  BY <1>2, <1>3, <1>4, <1>7, <1>8, <1>9, <1>10, <1>11, <1>12, NetworkGone
<1> QED  BY <1>1, <1>10, <1>13, PlainEdit

LEMMA ExternalDeleteOnly ==
  ASSUME Ready(cur), NEW ref, Resolve(cur, ref, {"external"}) # None, ExternalDelete(ref)
  PROVE  EditsOnly
<1> DEFINE id == Resolve(cur, ref, {"external"})
           n == NodeOf(cur, "external", id)
           a == Dropped(cur, "external", id)
           has(x) == x.kind = "switch" /\ id \in ToSet(SwitchUplinks(x))
           left(x) == Among(SwitchUplinks(x), ToSet(SwitchUplinks(x)) \ {id})
           named == {NodeName(id)} \union {NodeName(x.id) : x \in {y \in ToSet(cur.nodes) : has(y)}}
           nics(x) == [j \in DOMAIN x.nics |-> [x.nics[j] EXCEPT !.ext = Subst(x.nics[j].ext, id, None)]]
           bare == [i \in DOMAIN a.nodes |-> [a.nodes[i] EXCEPT !.nics = nics(a.nodes[i])]]
           b == [a EXCEPT !.nodes = bare]
           nodes == [i \in DOMAIN b.nodes |-> IF has(b.nodes[i]) THEN WithUplinks(b.nodes[i], left(b.nodes[i])) ELSE b.nodes[i]]
<1>1. cur' = [b EXCEPT !.nodes = nodes] /\ op' = Op(named, None, None)
  <2> DEFINE c == Unplugged(a, "ext", id)
             others == [i \in DOMAIN c.nodes |-> IF has(c.nodes[i]) THEN WithUplinks(c.nodes[i], left(c.nodes[i])) ELSE c.nodes[i]]
  <2>1. cur' = [c EXCEPT !.nodes = others] /\ op' = Op(named, None, None)
    BY DEF ExternalDelete, Apply, Names, OnNodes
  <2> HIDE DEF a
  <2>2. c = b
    BY DEF Unplugged, OnNodes, OnNICs
  <2> HIDE DEF b, c, has, left
  <2> QED  BY <2>1, <2>2
<1>2. n \in ToSet(cur.nodes) /\ n.kind = "external" /\ n.id = id
  BY ResolveId
<1>3. WholeLab(cur) /\ Single(ToSet(cur.nodes)) /\ Firm(cur)
  BY <1>2, ReadyNode
<1> HIDE DEF n, id
<1>4. Lacks(cur, a, n)
  BY <1>2, <1>3, DroppedIs
<1> HIDE DEF a
<1>5. NodeName(n.id) \in named
  BY <1>2
<1>6. \A x \in ToSet(cur.nodes) : has(x) => NodeName(x.id) \in named
  OBVIOUS
<1>7. \A s : s = id => NodeName(s) \in named
  OBVIOUS
<1> HIDE DEF named
<1>8. ASSUME NEW x, WholeNode(x) PROVE Leaves(x, [x EXCEPT !.nics = nics(x)], named)
  <2> DEFINE s == nics(x)
  <2>1. \A j \in DOMAIN s : IsNIC(x.nics[j]) /\ s[j] = [x.nics[j] EXCEPT !.ext = Subst(x.nics[j].ext, id, None)]
    BY <1>8 DEF WholeNode
  <2>2. DOMAIN s = DOMAIN x.nics /\ s = [j \in DOMAIN s |-> s[j]]
    OBVIOUS
  <2> HIDE DEF s
  <2>3. \A j \in DOMAIN s : s[j] = NIC(x.nics[j].sw, Subst(x.nics[j].ext, id, None), x.nics[j].mac)
    BY <2>1, PulledNIC
  <2>4. \A j \in DOMAIN s : IsNIC(s[j]) /\ s[j].mac = x.nics[j].mac /\ s[j].ext = Subst(x.nics[j].ext, id, None) /\ s[j].sw = x.nics[j].sw
    BY <2>3, NICParts
  <2>5. Pulled(x, s, named)
    BY <1>7, <2>2, <2>4 DEF Pulled, Subst
  <2>6. Leaves(x, [x EXCEPT !.nics = s], named)
    BY <1>8, <2>5, UnpluggedNode
  <2> QED  BY <2>6 DEF s
<1>9. \A i \in DOMAIN a.nodes : WholeNode(a.nodes[i]) /\ a.nodes[i] \in ToSet(cur.nodes)
  BY <1>4 DEF Lacks, WholeLab, WholeNodes, ToSet
<1> HIDE DEF nics
<1>10. DOMAIN bare = DOMAIN a.nodes /\ bare = [i \in DOMAIN bare |-> bare[i]] /\ \A i \in DOMAIN bare : Leaves(a.nodes[i], bare[i], named)
  BY <1>8, <1>9
<1>11. \A i, j \in DOMAIN bare : a.nodes[i] = a.nodes[j] => bare[i] = bare[j]
  OBVIOUS
<1> HIDE DEF bare
<1>12. /\ WholeLab(b) /\ b.nodes = bare /\ b.links = a.links /\ b.placed = a.placed /\ b.drawn = a.drawn /\ b.disks = a.disks
  BY <1>4, <1>10, MappedWhole DEF Leaves, Lacks
<1> HIDE DEF b
<1>13. ASSUME NEW x \in ToSet(cur.nodes), NEW y, Leaves(x, y, named), has(y)
       PROVE  WholeNode(WithUplinks(y, left(y))) /\ Remains(x, WithUplinks(y, left(y)), named)
  <2> DEFINE z == WithUplinks(y, left(y))
  <2>1. WholeNode(y) /\ IsNode(y) /\ y.id = x.id /\ y.kind = x.kind /\ y.kind = "switch" /\ has(x)
    BY <1>13 DEF Leaves, WholeNode, SwitchUplinks
  <2>2. IsSeq(left(y))
    BY <2>1, UplinksSeq, AmongIs
  <2> HIDE DEF left
  <2>3. IsNode(z)
    BY <2>1, <2>2, WithUplinksIsNode
  <2>4. z.id = y.id /\ z.kind = y.kind /\ z.nics = y.nics /\ z.caps = y.caps
    BY <2>1, WithUplinksIs
  <2> HIDE DEF z
  <2>5. WholeNode(z)
    BY <2>1, <2>3, <2>4 DEF WholeNode
  <2>6. WholeNode(x) /\ x.nics = <<>> /\ z.nics = <<>>
    BY <1>3, <2>1, <2>4 DEF WholeLab, WholeNodes, WholeNode, Workload
  <2>7. NodeName(x.id) \in named /\ NodeName(z.id) \in named
    BY <1>6, <2>1, <2>4
  <2>8. Silent(NodeFacts(x), named) /\ Silent(NodeFacts(z), named)
    BY <2>6, <2>7, NodeSilent
  <2>9. Agree(NodeFacts(x), NodeFacts(z), named)
    BY <2>8 DEF Silent, Agree
  <2>10. \A j : NameOfNIC(z, j) = NameOfNIC(x, j)
    BY <2>1, <2>4, <2>6 DEF NameOfNIC
  <2> QED  BY <2>1, <2>4, <2>5, <2>9, <2>10 DEF Remains, z
<1> HIDE DEF has, left
<1>14. DOMAIN nodes = DOMAIN a.nodes /\ nodes = [i \in DOMAIN nodes |-> nodes[i]] /\ \A i \in DOMAIN nodes : WholeNode(nodes[i]) /\ Remains(a.nodes[i], nodes[i], named)
  <2>1. \A i \in DOMAIN bare : nodes[i] = IF has(bare[i]) THEN WithUplinks(bare[i], left(bare[i])) ELSE bare[i]
    BY <1>12
  <2>2. DOMAIN nodes = DOMAIN a.nodes /\ nodes = [i \in DOMAIN nodes |-> nodes[i]]
    BY <1>10, <1>12
  <2> HIDE DEF nodes
  <2>3. ASSUME NEW i \in DOMAIN nodes PROVE WholeNode(nodes[i]) /\ Remains(a.nodes[i], nodes[i], named)
    <3>1. a.nodes[i] \in ToSet(cur.nodes) /\ Leaves(a.nodes[i], bare[i], named) /\ i \in DOMAIN bare
      BY <1>9, <1>10, <2>2
    <3>2. CASE has(bare[i])
      BY <1>13, <2>1, <3>1, <3>2
    <3>3. CASE ~has(bare[i])
      BY <2>1, <3>1, <3>3 DEF Leaves, Remains
    <3> QED  BY <3>2, <3>3
  <2> QED  BY <2>2, <2>3
<1>15. \A i, j \in DOMAIN nodes : a.nodes[i] = a.nodes[j] => nodes[i] = nodes[j]
  BY <1>10, <1>11, <1>12
<1> HIDE DEF nodes
<1>16. /\ WholeLab(cur') /\ cur'.nodes = nodes /\ cur'.links = a.links /\ cur'.placed = a.placed /\ cur'.drawn = a.drawn /\ cur'.disks = a.disks
  BY <1>1, <1>10, <1>12, <1>14, MappedWhole
<1>17. n.kind \notin Workload
  BY <1>2 DEF Workload
<1>18. About(cur, named) = About(cur', named)
  BY <1>2, <1>3, <1>4, <1>5, <1>14, <1>15, <1>16, <1>17, NetworkGone
<1> QED  BY <1>1, <1>16, <1>18, PlainEdit

-----------------------------------------------------------------------------
(* Renames: whatever led to the old name leads to the new one. *)

\* The references of a node to another one that is renamed.
Told(x, y, old, new) ==
  /\ WholeNode(y) /\ y.kind = x.kind /\ y.mode = x.mode /\ y.desired = x.desired /\ y.disk = x.disk /\ y.caps = x.caps
  /\ ToSet(y.uplinks) = {Subst(u, old, new) : u \in ToSet(x.uplinks)}
  /\ DOMAIN y.nics = DOMAIN x.nics
  /\ \A j \in DOMAIN x.nics : y.nics[j] = NIC(Subst(x.nics[j].sw, old, new), Subst(x.nics[j].ext, old, new), x.nics[j].mac)

\* The nodes that a node refers to by a name are of the kind it takes them for.
Refers(x, kind, id) ==
  /\ \A j \in DOMAIN x.nics : (x.nics[j].sw = id => kind = "switch") /\ (x.nics[j].ext = id => kind = "external")
  /\ \A u \in ToSet(x.uplinks) : u = id => kind = "external"

LEMMA RewrittenIs ==
  ASSUME NEW x, WholeNode(x), NEW kind, NEW old, NEW new, Refers(x, kind, old)
  PROVE  Told(x, RewrittenNode(x, kind, old, new), old, new) /\ RewrittenNode(x, kind, old, new).id = x.id
<1>1. IsNode(x) /\ IsSeq(x.nics) /\ IsSeq(x.uplinks) /\ \A j \in DOMAIN x.nics : IsNIC(x.nics[j])
  BY DEF WholeNode, IsNode
<1>2. IsNode(RewrittenNode(x, kind, old, new))
  BY <1>1, RewrittenIsNode
<1>3. CASE kind = "switch"
  <2> DEFINE nics == [j \in DOMAIN x.nics |-> [x.nics[j] EXCEPT !.sw = Subst(x.nics[j].sw, old, new)]]
             y == RewrittenNode(x, kind, old, new)
  <2>1. y = [x EXCEPT !.nics = nics]
    BY <1>3 DEF RewrittenNode, OnNICs
  <2>2. \A j \in DOMAIN nics : nics[j] = NIC(Subst(x.nics[j].sw, old, new), x.nics[j].ext, x.nics[j].mac)
    BY <1>1, PulledNIC
  <2>3. DOMAIN nics = DOMAIN x.nics /\ nics = [j \in DOMAIN nics |-> nics[j]]
    OBVIOUS
  <2> HIDE DEF nics, y
  <2>4. /\ y.id = x.id /\ y.kind = x.kind /\ y.mode = x.mode /\ y.uplinks = x.uplinks /\ y.nics = nics
        /\ y.caps = x.caps /\ y.disk = x.disk /\ y.desired = x.desired
    BY <1>1, <2>1 DEF IsNode
  <2>5. \A j \in DOMAIN nics : nics[j] = NIC(Subst(x.nics[j].sw, old, new), Subst(x.nics[j].ext, old, new), x.nics[j].mac)
    BY <1>3, <2>2, <2>3 DEF Refers, Subst
  <2>6. ToSet(y.uplinks) = {Subst(u, old, new) : u \in ToSet(x.uplinks)}
    BY <1>3, <2>4 DEF Refers, Subst
  <2>7. IsSeq(nics) /\ (x.nics = <<>> => nics = <<>>)
    <3>1. IsSeq(nics)
      BY <1>1, <2>3, SeqMapped
    <3>2. DOMAIN <<>> = {} /\ <<>> = [j \in DOMAIN <<>> |-> <<>>[j]]
      OBVIOUS
    <3> QED  BY <2>3, <3>1, <3>2
  <2>8. \A j \in DOMAIN nics : IsNIC(nics[j])
    BY <2>5, NICParts
  <2>9. WholeNode(y)
    BY <1>2, <2>4, <2>7, <2>8 DEF WholeNode, y
  <2> QED  BY <2>3, <2>4, <2>5, <2>6, <2>9 DEF Told, y
<1>4. CASE kind = "external"
  <2> DEFINE nics == [j \in DOMAIN x.nics |-> [x.nics[j] EXCEPT !.ext = Subst(x.nics[j].ext, old, new)]]
             a == [x EXCEPT !.nics = nics]
             uplinks == [i \in DOMAIN x.uplinks |-> Subst(x.uplinks[i], old, new)]
             b == [a EXCEPT !.uplinks = uplinks]
             legacy == Subst(x.legacy, old, new)
             y == RewrittenNode(x, kind, old, new)
  <2>1. y = [b EXCEPT !.legacy = legacy]
    <3>1. OnNICs(x, LAMBDA nic : [nic EXCEPT !.ext = Subst(@, old, new)]) = a
      BY DEF OnNICs
    <3>2. a.uplinks = x.uplinks /\ a.legacy = x.legacy
      BY <1>1 DEF IsNode
    <3> HIDE DEF a
    <3> QED  BY <1>4, <3>1, <3>2 DEF RewrittenNode
  <2>2. \A j \in DOMAIN nics : nics[j] = NIC(x.nics[j].sw, Subst(x.nics[j].ext, old, new), x.nics[j].mac)
    BY <1>1, PulledNIC
  <2>3. DOMAIN nics = DOMAIN x.nics /\ nics = [j \in DOMAIN nics |-> nics[j]]
    OBVIOUS
  <2>4. DOMAIN uplinks = DOMAIN x.uplinks /\ uplinks = [i \in DOMAIN uplinks |-> uplinks[i]]
    OBVIOUS
  <2>5. ToSet(uplinks) = {Subst(u, old, new) : u \in ToSet(x.uplinks)}
    BY DEF ToSet
  <2> HIDE DEF nics, uplinks, legacy, y
  <2>6. a = [id |-> x.id, name |-> x.name, kind |-> x.kind, mode |-> x.mode, uplinks |-> x.uplinks, legacy |-> x.legacy,
             nics |-> nics, dhcp |-> x.dhcp, desired |-> x.desired, caps |-> x.caps, disk |-> x.disk]
    BY <1>1 DEF IsNode
  <2> HIDE DEF a
  <2>7. b = [id |-> x.id, name |-> x.name, kind |-> x.kind, mode |-> x.mode, uplinks |-> uplinks, legacy |-> x.legacy,
             nics |-> nics, dhcp |-> x.dhcp, desired |-> x.desired, caps |-> x.caps, disk |-> x.disk]
    BY <2>6
  <2> HIDE DEF b
  <2>8. /\ y.id = x.id /\ y.kind = x.kind /\ y.mode = x.mode /\ y.uplinks = uplinks /\ y.nics = nics
        /\ y.caps = x.caps /\ y.disk = x.disk /\ y.desired = x.desired
    BY <2>1, <2>7
  <2>9. \A j \in DOMAIN nics : nics[j] = NIC(Subst(x.nics[j].sw, old, new), Subst(x.nics[j].ext, old, new), x.nics[j].mac)
    BY <1>4, <2>2, <2>3 DEF Refers, Subst
  <2>10. IsSeq(nics) /\ (x.nics = <<>> => nics = <<>>) /\ (x.uplinks = <<>> => uplinks = <<>>)
    <3>1. IsSeq(nics)
      BY <1>1, <2>3, SeqMapped
    <3>2. DOMAIN <<>> = {} /\ <<>> = [j \in DOMAIN <<>> |-> <<>>[j]]
      OBVIOUS
    <3>3. x.nics = <<>> => nics = <<>>
      BY <2>3, <3>2
    <3>4. x.uplinks = <<>> => uplinks = <<>>
      BY <2>4, <3>2
    <3> QED  BY <3>1, <3>3, <3>4
  <2>11. \A j \in DOMAIN nics : IsNIC(nics[j])
    BY <2>9, NICParts
  <2>12. x.caps = [add |-> x.caps.add, drop |-> x.caps.drop] /\ (x.kind \notin Workload => x.nics = <<>>) /\ (x.kind # "switch" => x.uplinks = <<>>)
    BY DEF WholeNode
  <2>13. WholeNode(y)
    BY <1>2, <2>8, <2>10, <2>11, <2>12 DEF WholeNode, y
  <2> QED  BY <2>3, <2>5, <2>8, <2>9, <2>13 DEF Told, y
<1>5. CASE kind \notin {"switch", "external"}
  <2>1. RewrittenNode(x, kind, old, new) = x
    BY <1>5 DEF RewrittenNode
  <2>2. \A j \in DOMAIN x.nics : x.nics[j] = NIC(Subst(x.nics[j].sw, old, new), Subst(x.nics[j].ext, old, new), x.nics[j].mac)
    <3>1. \A j \in DOMAIN x.nics : Subst(x.nics[j].sw, old, new) = x.nics[j].sw /\ Subst(x.nics[j].ext, old, new) = x.nics[j].ext
      BY <1>5 DEF Refers, Subst
    <3> QED  BY <1>1, <3>1 DEF IsNIC
  <2>3. ToSet(x.uplinks) = {Subst(u, old, new) : u \in ToSet(x.uplinks)}
    BY <1>5 DEF Refers, Subst
  <2> QED  BY <2>1, <2>2, <2>3 DEF Told
<1> QED  BY <1>3, <1>4, <1>5

\* What a node says of itself is told with the new name.
Tells(A, B, old, new) ==
  /\ \A f \in A : Carried(f, old, new) \in B
  /\ \A g \in B : \E f \in A : g = Carried(f, old, new)

LEMMA CarriedFact ==
  ASSUME NEW a, NEW b, NEW c, NEW old, NEW new
  PROVE  Carried(<<a, b, c>>, old, new) = <<a, Subst(b, NodeName(old), NodeName(new)), Subst(c, NodeName(old), NodeName(new))>>
BY DEF Carried

LEMMA SubstNode ==
  ASSUME NEW x, NEW old, NEW new
  PROVE  Subst(NodeName(x), NodeName(old), NodeName(new)) = NodeName(Subst(x, old, new))
BY DEF Subst, NodeName

LEMMA SubstOther ==
  ASSUME NEW x, NEW old, NEW name
  PROVE  Subst(MacName(x), NodeName(old), name) = MacName(x) /\ Subst(Word(x), NodeName(old), name) = Word(x)
BY DEF Subst, NodeName, MacName, Word

LEMMA OwnTold ==
  ASSUME NEW x, NEW y, NEW old, NEW new, Told(x, y, old, new), y.id = Subst(x.id, old, new)
  PROVE  Tells(OwnFacts(x), OwnFacts(y), old, new)
<1>1. y.kind = x.kind /\ y.mode = x.mode /\ DesiredState(y) = DesiredState(x) /\ y.disk = x.disk /\ Effective(y) = Effective(x)
      /\ ToSet(y.uplinks) = {Subst(u, old, new) : u \in ToSet(x.uplinks)}
  BY DEF Told, DesiredState, Effective
<1> DEFINE p == NodeName(x.id)
           q == NodeName(y.id)
<1>2. \A a, c : Carried(<<a, p, Word(c)>>, old, new) = <<a, q, Word(c)>>
  BY CarriedFact, SubstNode, SubstOther
<1>3. \A a, u : Carried(<<a, p, NodeName(u)>>, old, new) = <<a, q, NodeName(Subst(u, old, new))>>
  BY CarriedFact, SubstNode, SubstOther
<1>4. Carried(<<x.kind, p, p>>, old, new) = <<y.kind, q, q>>
  BY <1>1, <1>3
<1>5. OwnFacts(x) = {<<x.kind, p, p>>, <<"mode", p, Word(x.mode)>>, <<"desired", p, Word(DesiredState(x))>>, <<"path", p, Word(x.disk)>>}
                    \union {<<"uplink", p, NodeName(u)>> : u \in ToSet(x.uplinks)} \union {<<"cap", p, Word(c)>> : c \in Effective(x)}
  BY DEF OwnFacts
<1>6. OwnFacts(y) = {<<y.kind, q, q>>, <<"mode", q, Word(x.mode)>>, <<"desired", q, Word(DesiredState(x))>>, <<"path", q, Word(x.disk)>>}
                    \union {<<"uplink", q, NodeName(Subst(u, old, new))>> : u \in ToSet(x.uplinks)} \union {<<"cap", q, Word(c)>> : c \in Effective(x)}
  BY <1>1 DEF OwnFacts
<1> HIDE DEF p, q
<1>7. \A f \in OwnFacts(x) : Carried(f, old, new) \in OwnFacts(y)
  BY <1>2, <1>3, <1>4, <1>5, <1>6
<1>8. ASSUME NEW g \in OwnFacts(y) PROVE \E f \in OwnFacts(x) : g = Carried(f, old, new)
  <2>1. CASE \E u \in ToSet(x.uplinks) : g = <<"uplink", q, NodeName(Subst(u, old, new))>>
    <3>1. PICK u \in ToSet(x.uplinks) : g = <<"uplink", q, NodeName(Subst(u, old, new))>>
      BY <2>1
    <3>2. <<"uplink", p, NodeName(u)>> \in OwnFacts(x)
      BY <1>5
    <3> QED  BY <1>3, <3>1, <3>2
  <2>2. CASE \E c \in Effective(x) : g = <<"cap", q, Word(c)>>
    <3>1. PICK c \in Effective(x) : g = <<"cap", q, Word(c)>>
      BY <2>2
    <3>2. <<"cap", p, Word(c)>> \in OwnFacts(x)
      BY <1>5
    <3> QED  BY <1>2, <3>1, <3>2
  <2>3. CASE g \in {<<y.kind, q, q>>, <<"mode", q, Word(x.mode)>>, <<"desired", q, Word(DesiredState(x))>>, <<"path", q, Word(x.disk)>>}
    <3>1. {<<x.kind, p, p>>, <<"mode", p, Word(x.mode)>>, <<"desired", p, Word(DesiredState(x))>>, <<"path", p, Word(x.disk)>>} \subseteq OwnFacts(x)
      BY <1>5
    <3> QED  BY <1>2, <1>4, <2>3, <3>1
  <2> QED  BY <1>6, <2>1, <2>2, <2>3
<1> QED  BY <1>7, <1>8 DEF Tells

LEMMA NICTold ==
  ASSUME NEW x, NEW y, NEW old, NEW new, Told(x, y, old, new), y.id = Subst(x.id, old, new)
  PROVE  /\ \A j \in DOMAIN x.nics : Tells(NICFacts(x, j), NICFacts(y, j), old, new)
         /\ \A j : NameOfNIC(y, j) = Subst(NameOfNIC(x, j), NodeName(old), NodeName(new))
<1>1. DOMAIN y.nics = DOMAIN x.nics /\ \A j \in DOMAIN x.nics : /\ y.nics[j].sw = Subst(x.nics[j].sw, old, new)
                                                              /\ y.nics[j].ext = Subst(x.nics[j].ext, old, new)
                                                              /\ y.nics[j].mac = x.nics[j].mac
  BY NICParts DEF Told
<1>2. \A j : NameOfNIC(y, j) = Subst(NameOfNIC(x, j), NodeName(old), NodeName(new))
  <2> SUFFICES ASSUME NEW j PROVE NameOfNIC(y, j) = Subst(NameOfNIC(x, j), NodeName(old), NodeName(new))
    OBVIOUS
  <2>1. CASE j \in DOMAIN x.nics /\ x.nics[j].mac # None
    <3>1. NameOfNIC(y, j) = MacName(x.nics[j].mac) /\ NameOfNIC(x, j) = MacName(x.nics[j].mac)
      BY <1>1, <2>1 DEF NameOfNIC
    <3> QED  BY <3>1, SubstNode, SubstOther
  <2>2. CASE ~(j \in DOMAIN x.nics /\ x.nics[j].mac # None)
    <3>1. NameOfNIC(y, j) = NodeName(y.id) /\ NameOfNIC(x, j) = NodeName(x.id)
      BY <1>1, <2>2 DEF NameOfNIC
    <3> QED  BY <3>1, SubstNode, SubstOther
  <2> QED  BY <2>1, <2>2
<1>3. ASSUME NEW j \in DOMAIN x.nics PROVE Tells(NICFacts(x, j), NICFacts(y, j), old, new)
  <2> DEFINE p == NameOfNIC(x, j)
             q == NameOfNIC(y, j)
  <2>1. Carried(<<"has", NodeName(x.id), p>>, old, new) = <<"has", NodeName(y.id), q>>
    BY <1>2, CarriedFact, SubstNode, SubstOther
  <2>2. Carried(<<"switch", p, NodeName(x.nics[j].sw)>>, old, new) = <<"switch", q, NodeName(y.nics[j].sw)>>
    BY <1>1, <1>2, CarriedFact, SubstNode, SubstOther
  <2>3. Carried(<<"uplink", p, NodeName(x.nics[j].ext)>>, old, new) = <<"uplink", q, NodeName(y.nics[j].ext)>>
    BY <1>1, <1>2, CarriedFact, SubstNode, SubstOther
  <2> QED  BY <2>1, <2>2, <2>3 DEF NICFacts, Tells
<1> QED  BY <1>2, <1>3

LEMMA NodeTold ==
  ASSUME NEW x, NEW y, NEW old, NEW new, Told(x, y, old, new), y.id = Subst(x.id, old, new)
  PROVE  Tells(NodeFacts(x), NodeFacts(y), old, new)
<1>1. Tells(OwnFacts(x), OwnFacts(y), old, new) /\ \A j \in DOMAIN x.nics : Tells(NICFacts(x, j), NICFacts(y, j), old, new)
  BY OwnTold, NICTold
<1>2. DOMAIN y.nics = DOMAIN x.nics
  BY DEF Told
<1> QED  BY <1>1, <1>2 DEF Tells, NodeFacts

\* The rest of a lab: the ends of links, what is drawn and where disks are.
EndTold(e, g, old, new) == g = Endpoint(e.kind, Subst(e.id, old, new), e.nic)
LinkTold(link, other, old, new) == IsLink(other) /\ EndTold(link.from, other.from, old, new) /\ EndTold(link.to, other.to, old, new)
DrawnTold(link, other, old, new) ==
  IsDrawn(other) /\ other.from.id = Subst(link.from.id, old, new) /\ other.to.id = Subst(link.to.id, old, new)
DiskTold(d, e, old, new) == IsDisk(e) /\ e.id = d.id /\ e.at.id = Subst(d.at.id, old, new)

NodesTold(l, m, old, new) ==
  /\ AreNodes(m.nodes) /\ DOMAIN m.nodes = DOMAIN l.nodes
  /\ \A i \in DOMAIN l.nodes : Told(l.nodes[i], m.nodes[i], old, new) /\ m.nodes[i].id = Subst(l.nodes[i].id, old, new)
  /\ \A i, j \in DOMAIN l.nodes : l.nodes[i] = l.nodes[j] => m.nodes[i] = m.nodes[j]

PartsTold(l, m, old, new) ==
  /\ IsSeq(m.links)
  /\ \A link \in ToSet(l.links) : \E other \in ToSet(m.links) : LinkTold(link, other, old, new)
  /\ \A other \in ToSet(m.links) : \E link \in ToSet(l.links) : LinkTold(link, other, old, new)
  /\ \A link \in l.drawn : \E other \in m.drawn : DrawnTold(link, other, old, new)
  /\ \A other \in m.drawn : \E link \in l.drawn : DrawnTold(link, other, old, new)
  /\ \A d \in l.disks : \E e \in m.disks : DiskTold(d, e, old, new)
  /\ \A e \in m.disks : \E d \in l.disks : DiskTold(d, e, old, new)
  /\ m.placed = {Subst(id, old, new) : id \in l.placed}

\* A lab that says of one node under its new name what another one said.
Retells(l, m, n, new) ==
  /\ WholeLab(m) /\ Firm(m) /\ Tells(Facts(l), Facts(m), n.id, new)
  /\ \E y \in ToSet(m.nodes) : y.id = new /\ Told(n, y, n.id, new)

LEMMA LabTold ==
  ASSUME NEW l, Firm(l), NEW n \in ToSet(l.nodes), NEW new, new # None, \A x \in ToSet(l.nodes) : x.id = new => x = n,
         NEW m, LabLike(m), NodesTold(l, m, n.id, new), PartsTold(l, m, n.id, new)
  PROVE  Retells(l, m, n, new)
<1> DEFINE old == n.id
           S == ToSet(l.nodes)
           T == ToSet(m.nodes)
           name(x) == Subst(x, NodeName(old), NodeName(new))
<1>1. Single(S) /\ \A x \in S : x.id # None
  BY DEF Firm
<1>2. \A x \in S : \E y \in T : Told(x, y, old, new) /\ y.id = Subst(x.id, old, new)
  BY DEF NodesTold, ToSet
<1>3. \A y \in T : \E x \in S : Told(x, y, old, new) /\ y.id = Subst(x.id, old, new)
  BY DEF NodesTold, ToSet
<1>4. Single(T)
  <2> SUFFICES ASSUME NEW i \in DOMAIN l.nodes, NEW j \in DOMAIN l.nodes, m.nodes[i].id = m.nodes[j].id PROVE m.nodes[i] = m.nodes[j]
    BY DEF Single, NodesTold, ToSet
  <2>1. l.nodes[i] \in S /\ l.nodes[j] \in S
    BY DEF ToSet
  <2>2. Subst(l.nodes[i].id, old, new) = Subst(l.nodes[j].id, old, new)
    BY DEF NodesTold
  <2>3. l.nodes[i].id = l.nodes[j].id
    BY <2>1, <2>2 DEF Subst
  <2>4. l.nodes[i] = l.nodes[j]
    BY <1>1, <2>1, <2>3 DEF Single
  <2> QED  BY <2>4 DEF NodesTold
<1>5. PICK z \in T : z.id = new /\ Told(n, z, old, new)
  BY <1>2 DEF Subst
<1> HIDE DEF S, T
<1>6. \A y \in T : y.id # None
  BY <1>1, <1>3 DEF Subst
<1>7. ASSUME NEW e, Ended(S, e), NEW g, EndTold(e, g, old, new)
      PROVE  Ended(T, g) /\ NameOfEnd(m, g) = name(NameOfEnd(l, e))
  <2>1. PICK x \in S : x.kind = e.kind /\ x.id = e.id /\ e.nic \in DOMAIN x.nics
    BY <1>7 DEF Ended
  <2>2. PICK y \in T : Told(x, y, old, new) /\ y.id = Subst(x.id, old, new)
    BY <1>2
  <2>3. g.kind = e.kind /\ g.id = Subst(e.id, old, new) /\ g.nic = e.nic
    BY <1>7 DEF EndTold, Endpoint
  <2>4. y.kind = g.kind /\ y.id = g.id /\ g.nic \in DOMAIN y.nics
    BY <2>1, <2>2, <2>3 DEF Told
  <2>5. NameOfEnd(l, e) = NameOfNIC(x, e.nic)
    BY <1>1, <2>1, EndName DEF S
  <2>6. NameOfEnd(m, g) = NameOfNIC(y, e.nic)
    BY <1>4, <2>3, <2>4, EndName DEF T
  <2>7. NameOfNIC(y, e.nic) = name(NameOfNIC(x, e.nic))
    BY <2>2, NICTold
  <2> QED  BY <1>7, <2>3, <2>4, <2>5, <2>6, <2>7 DEF Ended
<1>8. \A link \in ToSet(l.links) : Ended(S, link.from) /\ Ended(S, link.to)
  BY DEF Firm, S
<1>9. Firm(m)
  <2>1. \A other \in ToSet(m.links) : Ended(T, other.from) /\ Ended(T, other.to)
    BY <1>7, <1>8 DEF PartsTold, LinkTold
  <2> QED  BY <1>4, <1>6, <2>1 DEF Firm, T
<1>10. WholeLab(m)
  <2>1. WholeNodes(T)
    BY <1>3 DEF WholeNodes, Told
  <2>2. WholeParts(m)
    BY DEF WholeParts, PartsTold, LinkTold, DrawnTold, DiskTold
  <2> QED  BY <2>1, <2>2 DEF WholeLab, IsLab, NodesTold, T
<1>11. Tells(AllNodeFacts(S), AllNodeFacts(T), old, new)
  <2>1. \A x \in S : \E y \in T : Tells(NodeFacts(x), NodeFacts(y), old, new)
    BY <1>2, NodeTold
  <2>2. \A y \in T : \E x \in S : Tells(NodeFacts(x), NodeFacts(y), old, new)
    BY <1>3, NodeTold
  <2> QED  BY <2>1, <2>2 DEF Tells, AllNodeFacts
<1>12. Tells(AllLinkFacts(l), AllLinkFacts(m), old, new)
  <2>1. ASSUME NEW link \in ToSet(l.links), NEW other, LinkTold(link, other, old, new)
        PROVE  Tells(LinkFacts(l, link), LinkFacts(m, other), old, new)
    <3>1. NameOfEnd(m, other.from) = name(NameOfEnd(l, link.from)) /\ NameOfEnd(m, other.to) = name(NameOfEnd(l, link.to))
      BY <1>7, <1>8, <2>1 DEF LinkTold
    <3> QED  BY <3>1, CarriedFact DEF LinkFacts, Tells
  <2>2. \A link \in ToSet(l.links) : \E other \in ToSet(m.links) : Tells(LinkFacts(l, link), LinkFacts(m, other), old, new)
    BY <2>1 DEF PartsTold
  <2>3. \A other \in ToSet(m.links) : \E link \in ToSet(l.links) : Tells(LinkFacts(l, link), LinkFacts(m, other), old, new)
    BY <2>1 DEF PartsTold
  <2> QED  BY <2>2, <2>3 DEF Tells, AllLinkFacts
<1>13. Tells(LayoutFacts(l), LayoutFacts(m), old, new)
  <2>1. ASSUME NEW d, NEW e, DiskTold(d, e, old, new)
        PROVE  <<"disk", Word(e.id), NodeName(e.at.id)>> = Carried(<<"disk", Word(d.id), NodeName(d.at.id)>>, old, new)
    <3>1. Word(e.id) = name(Word(d.id))
      BY <2>1, SubstOther DEF DiskTold
    <3>2. NodeName(e.at.id) = name(NodeName(d.at.id))
      BY <2>1, SubstNode DEF DiskTold
    <3> QED  BY <3>1, <3>2, CarriedFact
  <2>2. \A id : <<"placed", NodeName(Subst(id, old, new)), NodeName(Subst(id, old, new))>> = Carried(<<"placed", NodeName(id), NodeName(id)>>, old, new)
    BY CarriedFact, SubstNode
  <2>3. ASSUME NEW link, NEW other, DrawnTold(link, other, old, new)
        PROVE  <<"drawn", NodeName(other.from.id), NodeName(other.to.id)>> = Carried(<<"drawn", NodeName(link.from.id), NodeName(link.to.id)>>, old, new)
    BY <2>3, CarriedFact, SubstNode DEF DrawnTold
  <2> DEFINE D(k) == {<<"disk", Word(d.id), NodeName(d.at.id)>> : d \in k.disks}
             P(k) == {<<"placed", NodeName(id), NodeName(id)>> : id \in k.placed}
             R(k) == {<<"drawn", NodeName(link.from.id), NodeName(link.to.id)>> : link \in k.drawn}
  <2>4. Tells(D(l), D(m), old, new)
    <3>1. ASSUME NEW f \in D(l) PROVE Carried(f, old, new) \in D(m)
      <4>1. PICK d \in l.disks : f = <<"disk", Word(d.id), NodeName(d.at.id)>>
        OBVIOUS
      <4>2. PICK e \in m.disks : DiskTold(d, e, old, new)
        BY DEF PartsTold
      <4> QED  BY <2>1, <4>1, <4>2
    <3>2. ASSUME NEW g \in D(m) PROVE \E f \in D(l) : g = Carried(f, old, new)
      <4>1. PICK e \in m.disks : g = <<"disk", Word(e.id), NodeName(e.at.id)>>
        OBVIOUS
      <4>2. PICK d \in l.disks : DiskTold(d, e, old, new)
        BY DEF PartsTold
      <4> QED  BY <2>1, <4>1, <4>2
    <3> QED  BY <3>1, <3>2 DEF Tells
  <2>5. Tells(P(l), P(m), old, new)
    BY <2>2 DEF Tells, PartsTold
  <2>6. Tells(R(l), R(m), old, new)
    <3>1. ASSUME NEW f \in R(l) PROVE Carried(f, old, new) \in R(m)
      <4>1. PICK link \in l.drawn : f = <<"drawn", NodeName(link.from.id), NodeName(link.to.id)>>
        OBVIOUS
      <4>2. PICK other \in m.drawn : DrawnTold(link, other, old, new)
        BY DEF PartsTold
      <4> QED  BY <2>3, <4>1, <4>2
    <3>2. ASSUME NEW g \in R(m) PROVE \E f \in R(l) : g = Carried(f, old, new)
      <4>1. PICK other \in m.drawn : g = <<"drawn", NodeName(other.from.id), NodeName(other.to.id)>>
        OBVIOUS
      <4>2. PICK link \in l.drawn : DrawnTold(link, other, old, new)
        BY DEF PartsTold
      <4> QED  BY <2>3, <4>1, <4>2
    <3> QED  BY <3>1, <3>2 DEF Tells
  <2>7. LayoutFacts(l) = D(l) \union P(l) \union R(l) /\ LayoutFacts(m) = D(m) \union P(m) \union R(m)
    BY DEF LayoutFacts
  <2> HIDE DEF D, P, R
  <2> QED  BY <2>4, <2>5, <2>6, <2>7 DEF Tells
<1>14. Tells(Facts(l), Facts(m), old, new)
  BY <1>11, <1>12, <1>13 DEF Tells, Facts, S, T
<1> QED  BY <1>5, <1>9, <1>10, <1>14 DEF Retells, T

\* What is shown is shown under the new name.
LEMMA CarriedShown ==
  ASSUME NEW f, f = <<f[1], f[2], f[3]>>, NEW named, NEW old, NEW new, old # None, new # None,
         NodeName(old) \in named <=> NodeName(new) \in named
  PROVE  Shown(Carried(f, old, new), named) <=> Shown(f, named)
<1>1. NodeName(old)[2] = old /\ NodeName(new)[2] = new
  BY DEF NodeName
<1>2. Carried(f, old, new)[2] = Subst(f[2], NodeName(old), NodeName(new)) /\ Carried(f, old, new)[3] = Subst(f[3], NodeName(old), NodeName(new))
  BY DEF Carried
<1> QED  BY <1>1, <1>2 DEF Shown, Subst

LEMMA AboutTold ==
  ASSUME NEW l, NEW m, NEW named, NEW old, NEW new, old # None, new # None, NodeName(old) \in named <=> NodeName(new) \in named,
         Tells(Facts(l), Facts(m), old, new)
  PROVE  {Carried(f, old, new) : f \in About(l, named)} = About(m, named)
<1>1. \A f \in Facts(l) : Shown(Carried(f, old, new), named) <=> Shown(f, named)
  BY FactsAre, CarriedShown
<1>2. \A f \in About(l, named) : Carried(f, old, new) \in About(m, named)
  BY <1>1 DEF About, Tells
<1>3. \A g \in About(m, named) : \E f \in About(l, named) : g = Carried(f, old, new)
  BY <1>1 DEF About, Tells
<1> QED  BY <1>2, <1>3

\* References to a node that is there are of its kind.
LEMMA RefersIs ==
  ASSUME NEW l, Ready(l), NEW n \in ToSet(l.nodes)
  PROVE  /\ \A x \in ToSet(l.nodes) : Refers(x, n.kind, n.id)
         /\ \A kind, id : Present(ToSet(l.nodes), kind, id) /\ id = n.id => kind = n.kind
<1>1. Single(ToSet(l.nodes)) /\ n.id # None /\ Closed(l)
  BY DEF Ready, Firm
<1>2. \A kind, id : Present(ToSet(l.nodes), kind, id) /\ id = n.id => kind = n.kind
  BY <1>1 DEF Present, Single
<1>3. \A x \in ToSet(l.nodes) : Refers(x, n.kind, n.id)
  BY <1>1, <1>2 DEF Closed, Refers
<1> QED  BY <1>2, <1>3

LEMMA SameTold ==
  ASSUME NEW x, WholeNode(x), NEW old
  PROVE  Told(x, x, old, old)
<1>1. \A u : Subst(u, old, old) = u
  BY DEF Subst
<1>2. ToSet(x.uplinks) = {Subst(u, old, old) : u \in ToSet(x.uplinks)}
  BY <1>1
<1>3. \A j \in DOMAIN x.nics : x.nics[j] = NIC(Subst(x.nics[j].sw, old, old), Subst(x.nics[j].ext, old, old), x.nics[j].mac)
  BY <1>1 DEF WholeNode, IsNIC
<1> QED  BY <1>2, <1>3 DEF Told

\* A node that is given another id or name.
SameButName(x, y, id) ==
  /\ WholeNode(y) /\ y.id = id /\ y.kind = x.kind /\ y.mode = x.mode /\ y.desired = x.desired /\ y.disk = x.disk
  /\ y.caps = x.caps /\ y.uplinks = x.uplinks /\ y.nics = x.nics /\ y.legacy = x.legacy

LEMMA Renaming ==
  ASSUME NEW x, WholeNode(x), NEW id, NEW name
  PROVE  SameButName(x, [[x EXCEPT !.id = id] EXCEPT !.name = name], id)
<1> DEFINE a == [x EXCEPT !.id = id]
           y == [a EXCEPT !.name = name]
<1>1. IsNode(x) /\ IsSeq(x.uplinks)
  BY DEF WholeNode, IsNode
<1>2. a = [id |-> id, name |-> x.name, kind |-> x.kind, mode |-> x.mode, uplinks |-> x.uplinks, legacy |-> x.legacy,
           nics |-> x.nics, dhcp |-> x.dhcp, desired |-> x.desired, caps |-> x.caps, disk |-> x.disk]
  BY <1>1 DEF IsNode
<1> HIDE DEF a
<1>3. y = [id |-> id, name |-> name, kind |-> x.kind, mode |-> x.mode, uplinks |-> x.uplinks, legacy |-> x.legacy,
           nics |-> x.nics, dhcp |-> x.dhcp, desired |-> x.desired, caps |-> x.caps, disk |-> x.disk]
  BY <1>2
<1> HIDE DEF y
<1>4. /\ y.id = id /\ y.kind = x.kind /\ y.mode = x.mode /\ y.desired = x.desired /\ y.disk = x.disk
      /\ y.caps = x.caps /\ y.uplinks = x.uplinks /\ y.nics = x.nics /\ y.legacy = x.legacy
  BY <1>3
<1>5. IsNode(y)
  BY <1>1, <1>3, <1>4 DEF IsNode
<1>6. WholeNode(y)
  BY <1>4, <1>5 DEF WholeNode
<1>7. SameButName(x, y, id)
  BY <1>4, <1>6 DEF SameButName
<1> QED  BY <1>7 DEF y, a

LEMMA Untold ==
  ASSUME NEW l, WholeLab(l), NEW m, m.links = l.links, m.drawn = l.drawn, m.disks = l.disks, m.placed = l.placed, NEW old
  PROVE  PartsTold(l, m, old, old)
<1>1. \A u : Subst(u, old, old) = u
  BY DEF Subst
<1>2. \A link \in ToSet(l.links) : LinkTold(link, link, old, old)
  BY <1>1 DEF LinkTold, EndTold, WholeLab, WholeParts, IsLink, IsEnd
<1>3. \A link \in l.drawn : DrawnTold(link, link, old, old)
  BY <1>1 DEF DrawnTold, WholeLab, WholeParts
<1>4. \A d \in l.disks : DiskTold(d, d, old, old)
  BY <1>1 DEF DiskTold, WholeLab, WholeParts
<1>5. m.placed = {Subst(id, old, old) : id \in l.placed}
  BY <1>1
<1> QED  BY <1>2, <1>3, <1>4, <1>5 DEF PartsTold, WholeLab, WholeParts

\* The parts of a lab that follow a rename.
LEMMA EndFollows ==
  ASSUME NEW e, NEW kind, NEW old, NEW new, e.id = old => e.kind = kind
  PROVE  /\ IsEnd(e) => EndTold(e, RewrittenEnd(e, kind, old, new), old, new) /\ IsEnd(RewrittenEnd(e, kind, old, new))
         /\ IsPlace(e) => IsPlace(RewrittenEnd(e, kind, old, new)) /\ RewrittenEnd(e, kind, old, new).id = Subst(e.id, old, new)
<1>1. RewrittenEnd(e, kind, old, new) = IF e.kind = kind THEN [e EXCEPT !.id = Subst(e.id, old, new)] ELSE e
  BY DEF RewrittenEnd
<1>2. e.kind # kind => Subst(e.id, old, new) = e.id
  BY DEF Subst
<1> DEFINE id == Subst(e.id, old, new)
<1> HIDE DEF id
<1>3. IsEnd(e) => [e EXCEPT !.id = id] = Endpoint(e.kind, id, e.nic)
  BY DEF IsEnd, Endpoint
<1>4. IsEnd(Endpoint(e.kind, id, e.nic))
  BY DEF IsEnd, Endpoint
<1>5. IsPlace(e) => [e EXCEPT !.id = id] = [kind |-> e.kind, id |-> id]
  BY DEF IsPlace
<1>6. IsPlace([kind |-> e.kind, id |-> id]) /\ [kind |-> e.kind, id |-> id].id = id
  BY DEF IsPlace
<1>7. CASE e.kind = kind
  BY <1>1, <1>3, <1>4, <1>5, <1>6, <1>7 DEF EndTold, id
<1>8. CASE e.kind # kind
  BY <1>1, <1>2, <1>8 DEF EndTold, IsEnd
<1> QED  BY <1>7, <1>8

LEMMA PartsFollow ==
  ASSUME NEW l, Ready(l), NEW n \in ToSet(l.nodes), NEW new, NEW m,
         m.links = [i \in DOMAIN l.links |-> RewrittenLink(l.links[i], n.kind, n.id, new)],
         m.drawn = {RewrittenLink(link, n.kind, n.id, new) : link \in l.drawn},
         m.disks = {[d EXCEPT !.at = RewrittenEnd(d.at, n.kind, n.id, new)] : d \in l.disks},
         m.placed = {Subst(id, n.id, new) : id \in l.placed}
  PROVE  PartsTold(l, m, n.id, new)
<1> DEFINE kind == n.kind
           old == n.id
           S == ToSet(l.nodes)
<1>1. \A k, id : Present(S, k, id) /\ id = old => k = kind
  BY RefersIs
<1>2. old # None /\ WholeParts(l)
  BY DEF Ready, Firm, WholeLab
<1>3. \A link \in ToSet(l.links) : (link.from.id = old => link.from.kind = kind) /\ (link.to.id = old => link.to.kind = kind)
  <2>1. \A link \in ToSet(l.links) : Ended(S, link.from) /\ Ended(S, link.to)
    BY DEF Ready, Firm
  <2>2. \A e : Ended(S, e) => Present(S, e.kind, e.id)
    BY DEF Ended, Present
  <2> QED  BY <1>1, <2>1, <2>2
<1>4. \A link \in l.drawn : (link.from.id = old => link.from.kind = kind) /\ (link.to.id = old => link.to.kind = kind)
  BY <1>1 DEF Ready, Closed
<1>5. \A d \in l.disks : d.at.id = old => d.at.kind = kind
  <2>1. Nowhere.id = None
    BY DEF Nowhere
  <2> QED  BY <1>1, <1>2, <2>1 DEF Ready, Closed
<1> HIDE DEF kind, old, S
<1>6. \A link : RewrittenLink(link, kind, old, new) = [from |-> RewrittenEnd(link.from, kind, old, new), to |-> RewrittenEnd(link.to, kind, old, new)]
  BY DEF RewrittenLink
<1>7. \A link \in ToSet(l.links) : LinkTold(link, RewrittenLink(link, kind, old, new), old, new)
  <2> SUFFICES ASSUME NEW link \in ToSet(l.links) PROVE LinkTold(link, RewrittenLink(link, kind, old, new), old, new)
    OBVIOUS
  <2> DEFINE e == RewrittenEnd(link.from, kind, old, new)
             f == RewrittenEnd(link.to, kind, old, new)
  <2>1. IsEnd(link.from) /\ IsEnd(link.to)
    BY <1>2 DEF WholeParts, IsLink
  <2>2. EndTold(link.from, e, old, new) /\ IsEnd(e) /\ EndTold(link.to, f, old, new) /\ IsEnd(f)
    BY <1>3, <2>1, EndFollows
  <2>3. RewrittenLink(link, kind, old, new) = [from |-> e, to |-> f]
    BY <1>6
  <2> HIDE DEF e, f
  <2> QED  BY <2>2, <2>3 DEF LinkTold, IsLink
<1>8. \A link \in l.drawn : DrawnTold(link, RewrittenLink(link, kind, old, new), old, new)
  <2> SUFFICES ASSUME NEW link \in l.drawn PROVE DrawnTold(link, RewrittenLink(link, kind, old, new), old, new)
    OBVIOUS
  <2> DEFINE e == RewrittenEnd(link.from, kind, old, new)
             f == RewrittenEnd(link.to, kind, old, new)
  <2>1. IsPlace(link.from) /\ IsPlace(link.to)
    BY <1>2 DEF WholeParts, IsDrawn
  <2>2. IsPlace(e) /\ e.id = Subst(link.from.id, old, new) /\ IsPlace(f) /\ f.id = Subst(link.to.id, old, new)
    BY <1>4, <2>1, EndFollows
  <2>3. RewrittenLink(link, kind, old, new) = [from |-> e, to |-> f]
    BY <1>6
  <2> HIDE DEF e, f
  <2> QED  BY <2>2, <2>3 DEF DrawnTold, IsDrawn
<1>9. \A d \in l.disks : DiskTold(d, [d EXCEPT !.at = RewrittenEnd(d.at, kind, old, new)], old, new)
  <2> SUFFICES ASSUME NEW d \in l.disks PROVE DiskTold(d, [d EXCEPT !.at = RewrittenEnd(d.at, kind, old, new)], old, new)
    OBVIOUS
  <2> DEFINE p == RewrittenEnd(d.at, kind, old, new)
  <2>1. IsPlace(d.at) /\ d = Disk(d.id, d.path, d.at)
    BY <1>2 DEF WholeParts, IsDisk
  <2>2. IsPlace(p) /\ p.id = Subst(d.at.id, old, new)
    BY <1>5, <2>1, EndFollows
  <2> HIDE DEF p
  <2>3. [d EXCEPT !.at = p] = Disk(d.id, d.path, p)
    BY <2>1 DEF Disk
  <2>4. IsDisk(Disk(d.id, d.path, p)) /\ Disk(d.id, d.path, p).id = d.id /\ Disk(d.id, d.path, p).at = p
    BY <2>2 DEF IsDisk, Disk
  <2>5. DiskTold(d, [d EXCEPT !.at = p], old, new)
    BY <2>2, <2>3, <2>4 DEF DiskTold
  <2> QED  BY <2>5 DEF p
<1>10. DOMAIN m.links = DOMAIN l.links /\ m.links = [i \in DOMAIN m.links |-> m.links[i]] /\ \A i \in DOMAIN l.links : m.links[i] = RewrittenLink(l.links[i], kind, old, new)
  BY DEF kind, old
<1>11. m.drawn = {RewrittenLink(link, kind, old, new) : link \in l.drawn}
       /\ m.disks = {[d EXCEPT !.at = RewrittenEnd(d.at, kind, old, new)] : d \in l.disks} /\ m.placed = {Subst(id, old, new) : id \in l.placed}
  BY DEF kind, old
<1>12. IsSeq(m.links)
  BY <1>2, <1>10, SeqMapped DEF WholeParts
<1>13. /\ \A link \in ToSet(l.links) : RewrittenLink(link, kind, old, new) \in ToSet(m.links)
       /\ \A other \in ToSet(m.links) : \E link \in ToSet(l.links) : other = RewrittenLink(link, kind, old, new)
  <2>1. \A link \in ToSet(l.links) : RewrittenLink(link, kind, old, new) \in ToSet(m.links)
    BY <1>10 DEF ToSet
  <2>2. ASSUME NEW other \in ToSet(m.links) PROVE \E link \in ToSet(l.links) : other = RewrittenLink(link, kind, old, new)
    <3>1. PICK i \in DOMAIN m.links : other = m.links[i]
      BY DEF ToSet
    <3>2. other = RewrittenLink(l.links[i], kind, old, new) /\ l.links[i] \in ToSet(l.links)
      BY <1>10, <3>1 DEF ToSet
    <3> QED  BY <3>2
  <2> QED  BY <2>1, <2>2
<1>14. /\ \A link \in ToSet(l.links) : \E other \in ToSet(m.links) : LinkTold(link, other, old, new)
       /\ \A other \in ToSet(m.links) : \E link \in ToSet(l.links) : LinkTold(link, other, old, new)
  BY <1>7, <1>13
<1>15. /\ \A link \in l.drawn : \E other \in m.drawn : DrawnTold(link, other, old, new)
       /\ \A other \in m.drawn : \E link \in l.drawn : DrawnTold(link, other, old, new)
  BY <1>8, <1>11
<1>16. /\ \A d \in l.disks : \E e \in m.disks : DiskTold(d, e, old, new)
       /\ \A e \in m.disks : \E d \in l.disks : DiskTold(d, e, old, new)
  BY <1>9, <1>11
<1> QED  BY <1>11, <1>12, <1>14, <1>15, <1>16 DEF PartsTold, old

LEMMA RenamedIs ==
  ASSUME NEW l, Ready(l), NEW n \in ToSet(l.nodes), NEW new, \A x \in ToSet(l.nodes) : x.id = new => x = n
  PROVE  Retells(l, Renamed(l, n.kind, n.id, new), n, IF new = None THEN n.id ELSE new)
<1> DEFINE kind == n.kind
           old == n.id
           m == Renamed(l, kind, old, new)
<1>1. WholeLab(l) /\ IsLab(l) /\ Single(ToSet(l.nodes)) /\ Firm(l) /\ old # None /\ \A i \in DOMAIN l.nodes : l.nodes[i] \in ToSet(l.nodes) /\ WholeNode(l.nodes[i])
  BY DEF Ready, WholeLab, WholeNodes, Firm, ToSet
<1>a. IsLab(m)
  BY <1>1, RenamedLab
<1>b. \A x \in ToSet(l.nodes) : x.id = old => x = n
  BY <1>1 DEF Single
<1>2. CASE new = None
  <2>1. m = l
    BY <1>2 DEF Renamed
  <2>2. NodesTold(l, l, old, old)
    <3>1. \A i \in DOMAIN l.nodes : Told(l.nodes[i], l.nodes[i], old, old) /\ l.nodes[i].id = Subst(l.nodes[i].id, old, old)
      BY <1>1, SameTold DEF Subst
    <3> QED  BY <1>1, <3>1 DEF NodesTold, IsLab
  <2>3. PartsTold(l, l, old, old)
    BY <1>1, Untold
  <2>4. Retells(l, l, n, old)
    BY <1>1, <1>b, <2>2, <2>3, LabTold DEF IsLab
  <2> QED  BY <1>2, <2>1, <2>4
<1>3. CASE new # None /\ old = new
  <2> DEFINE name(x) == IF x.name = old THEN None ELSE x.name
             nodes == [i \in DOMAIN l.nodes |->
                         IF l.nodes[i].kind = kind /\ l.nodes[i].id = old THEN [l.nodes[i] EXCEPT !.name = name(l.nodes[i])] ELSE l.nodes[i]]
  <2>1. m = [l EXCEPT !.nodes = nodes]
    BY <1>3 DEF Renamed, RenameNode, OnNode, OnNodes
  <2>2. ASSUME NEW x, WholeNode(x), NEW z PROVE Told(x, [x EXCEPT !.name = z], old, old) /\ [x EXCEPT !.name = z].id = x.id
    <3> DEFINE y == [x EXCEPT !.name = z]
    <3>1. y = [[x EXCEPT !.id = x.id] EXCEPT !.name = z]
      BY <2>2 DEF WholeNode, IsNode
    <3> HIDE DEF y
    <3>2. /\ WholeNode(y) /\ y.id = x.id /\ y.kind = x.kind /\ y.mode = x.mode /\ y.desired = x.desired /\ y.disk = x.disk
          /\ y.caps = x.caps /\ y.uplinks = x.uplinks /\ y.nics = x.nics
      <4>1. SameButName(x, y, x.id)
        BY <2>2, <3>1, Renaming
      <4> QED  BY <4>1 DEF SameButName
    <3>3. Told(x, x, old, old)
      BY <2>2, SameTold
    <3>4. Told(x, y, old, old)
      BY <3>2, <3>3 DEF Told
    <3> QED  BY <3>2, <3>4 DEF y
  <2> HIDE DEF name
  <2>3. /\ DOMAIN nodes = DOMAIN l.nodes
        /\ \A i \in DOMAIN l.nodes : Told(l.nodes[i], nodes[i], old, old) /\ nodes[i].id = l.nodes[i].id
    BY <1>1, <2>2, SameTold
  <2>4. \A i, j \in DOMAIN l.nodes : l.nodes[i] = l.nodes[j] => nodes[i] = nodes[j]
    OBVIOUS
  <2> HIDE DEF nodes, m
  <2>5. m.nodes = nodes /\ m.links = l.links /\ m.placed = l.placed /\ m.drawn = l.drawn /\ m.disks = l.disks
    BY <1>1, <2>1 DEF IsLab, LabLike
  <2>6. NodesTold(l, m, old, old)
    <3>1. \A i \in DOMAIN l.nodes : nodes[i].id = Subst(l.nodes[i].id, old, old)
      BY <2>3 DEF Subst
    <3> QED  BY <1>a, <2>3, <2>4, <2>5, <3>1 DEF NodesTold, IsLab
  <2>7. PartsTold(l, m, old, old)
    BY <1>1, <2>5, Untold
  <2>8. Retells(l, m, n, old)
    BY <1>1, <1>a, <1>b, <2>6, <2>7, LabTold DEF IsLab
  <2> QED  BY <1>3, <2>8 DEF m
<1>4. CASE new # None /\ old # new
  <2> DEFINE first == [i \in DOMAIN l.nodes |->
                         IF l.nodes[i].kind = kind /\ l.nodes[i].id = old
                         THEN [l.nodes[i] EXCEPT !.id = new, !.name = None] ELSE l.nodes[i]]
             a == [l EXCEPT !.nodes = first]
             nodes == [i \in DOMAIN a.nodes |-> RewrittenNode(a.nodes[i], kind, old, new)]
             placed == {Subst(id, old, new) : id \in l.placed}
             drawn == {RewrittenLink(link, kind, old, new) : link \in l.drawn}
             links == [i \in DOMAIN l.links |-> RewrittenLink(l.links[i], kind, old, new)]
             disks == {[d EXCEPT !.at = RewrittenEnd(d.at, kind, old, new)] : d \in l.disks}
  <2>1. a.nodes = first /\ a.links = l.links /\ a.placed = l.placed /\ a.drawn = l.drawn /\ a.disks = l.disks /\ LabLike(a)
    <3> HIDE DEF first
    <3> QED  BY <1>1 DEF IsLab, LabLike
  <2>2. m = [a EXCEPT !.nodes = nodes, !.placed = placed, !.drawn = drawn, !.links = links, !.disks = disks]
    <3>1. m = RewriteReferences(a, kind, old, new)
      BY <1>4 DEF Renamed, RenameNode, OnNode, OnNodes
    <3> HIDE DEF a
    <3> QED  BY <2>1, <3>1 DEF RewriteReferences
  <2>3. \A i, j \in DOMAIN l.nodes : l.nodes[i] = l.nodes[j] => first[i] = first[j]
    OBVIOUS
  <2>4. \A i \in DOMAIN l.nodes : first[i] = IF l.nodes[i] = n THEN [[n EXCEPT !.id = new] EXCEPT !.name = None] ELSE l.nodes[i]
    <3>1. [n EXCEPT !.id = new, !.name = None] = [[n EXCEPT !.id = new] EXCEPT !.name = None]
      OBVIOUS
    <3>2. \A i \in DOMAIN l.nodes : (l.nodes[i].kind = kind /\ l.nodes[i].id = old) <=> l.nodes[i] = n
      BY <1>1, <1>b
    <3> QED  BY <3>1, <3>2
  <2>5. DOMAIN first = DOMAIN l.nodes
    OBVIOUS
  <2> HIDE DEF first, a
  <2>6. DOMAIN nodes = DOMAIN first /\ \A i \in DOMAIN first : nodes[i] = RewrittenNode(first[i], kind, old, new)
    BY <2>1
  <2> HIDE DEF nodes
  <2>7. /\ m.nodes = nodes /\ m.placed = placed /\ m.drawn = drawn /\ m.links = links /\ m.disks = disks
    <3> HIDE DEF placed, drawn, links, disks, m
    <3> QED  BY <2>1, <2>2 DEF LabLike
  <2>8. ASSUME NEW i \in DOMAIN l.nodes
        PROVE  Told(l.nodes[i], nodes[i], old, new) /\ nodes[i].id = Subst(l.nodes[i].id, old, new)
    <3> DEFINE x == l.nodes[i]
               z == first[i]
    <3>1. WholeNode(x) /\ Refers(x, kind, old) /\ WholeNode(n)
      BY <1>1, RefersIs DEF WholeLab, WholeNodes
    <3>2. /\ WholeNode(z) /\ z.kind = x.kind /\ z.mode = x.mode /\ z.desired = x.desired /\ z.disk = x.disk
          /\ z.caps = x.caps /\ z.uplinks = x.uplinks /\ z.nics = x.nics /\ z.id = Subst(x.id, old, new)
      <4>1. CASE x = n
        <5> DEFINE y == [[n EXCEPT !.id = new] EXCEPT !.name = None]
        <5>1. z = y
          BY <2>4, <4>1
        <5>2. /\ WholeNode(y) /\ y.id = new /\ y.kind = n.kind /\ y.mode = n.mode /\ y.desired = n.desired /\ y.disk = n.disk
              /\ y.caps = n.caps /\ y.uplinks = n.uplinks /\ y.nics = n.nics
          <6>1. SameButName(n, y, new)
            BY <3>1, Renaming
          <6> QED  BY <6>1 DEF SameButName
        <5> HIDE DEF y, z
        <5> QED  BY <4>1, <5>1, <5>2 DEF Subst
      <4>2. CASE x # n
        <5>1. z = x /\ x.id # old
          BY <1>1, <1>b, <2>4, <4>2
        <5> QED  BY <3>1, <5>1 DEF Subst
      <4> QED  BY <4>1, <4>2
    <3> HIDE DEF x, z
    <3>3. Refers(z, kind, old)
      BY <3>1, <3>2 DEF Refers
    <3>4. Told(z, RewrittenNode(z, kind, old, new), old, new) /\ RewrittenNode(z, kind, old, new).id = z.id
      BY <3>2, <3>3, RewrittenIs
    <3>5. nodes[i] = RewrittenNode(z, kind, old, new)
      BY <2>5, <2>6 DEF z
    <3>6. Told(x, nodes[i], old, new) /\ nodes[i].id = z.id
      BY <3>2, <3>4, <3>5 DEF Told
    <3> QED  BY <3>2, <3>6 DEF x
  <2> HIDE DEF m
  <2>9. NodesTold(l, m, old, new)
    <3>1. \A i, j \in DOMAIN l.nodes : l.nodes[i] = l.nodes[j] => nodes[i] = nodes[j]
      BY <2>3, <2>5, <2>6
    <3> QED  BY <1>a, <2>5, <2>6, <2>7, <2>8, <3>1 DEF NodesTold, IsLab
  <2>10. PartsTold(l, m, old, new)
    BY <2>7, PartsFollow
  <2>11. Retells(l, m, n, new)
    BY <1>1, <1>4, <1>a, <2>9, <2>10, LabTold DEF IsLab
  <2> QED  BY <1>4, <2>11 DEF m
<1> QED  BY <1>2, <1>3, <1>4

\* Edits that rename a node.
LEMMA FreeToTake ==
  ASSUME Ready(cur), NEW n \in ToSet(cur.nodes), NEW new, MayRename(n.id, new)
  PROVE  /\ \A x \in ToSet(cur.nodes) : x.id = new => x = n
         /\ (IF new = None THEN n.id ELSE new) # None /\ n.id # None
         /\ Retells(cur, Renamed(cur, n.kind, n.id, new), n, IF new = None THEN n.id ELSE new)
<1>1. Single(ToSet(cur.nodes)) /\ \A x \in ToSet(cur.nodes) : x.id # None
  BY DEF Ready, Firm
<1>2. NameFree(new, n.id) => \A x \in ToSet(cur.nodes) : x.id = new => x.id = n.id
  BY DEF NameFree, Matches
<1>3. \A x \in ToSet(cur.nodes) : x.id = new => x = n
  BY <1>1, <1>2 DEF MayRename, Single
<1>4. (IF new = None THEN n.id ELSE new) # None /\ n.id # None
  BY <1>1
<1> QED  BY <1>3, <1>4, RenamedIs

LEMMA RenameEdit ==
  ASSUME NEW n, NEW m, NEW to, Retells(cur, m, n, to), n.id # None, to # None, NEW named, op' = Op(named, n.id, to),
         NodeName(n.id) \in named <=> NodeName(to) \in named, WholeLab(cur'), About(m, named) = About(cur', named)
  PROVE  EditsOnly
<1>1. Tells(Facts(cur), Facts(m), n.id, to)
  BY DEF Retells
<1>2. {Carried(f, n.id, to) : f \in About(cur, named)} = About(m, named)
  BY <1>1, AboutTold
<1> QED  BY <1>2 DEF EditsOnly, Op

LEMMA WordsOnly ==
  ASSUME NEW s, NEW id
  PROVE  NodeName(id) \notin Words(s)
BY DEF Words, NodeName, Word

LEMMA UpdateExternalOnly ==
  ASSUME Ready(cur), NEW ref, Resolve(cur, ref, {"external"}) # None, NEW new, NEW mode, UpdateExternal(ref, new, mode)
  PROVE  EditsOnly
<1> DEFINE id == Resolve(cur, ref, {"external"})
           n == NodeOf(cur, "external", id)
           to == IF new = None THEN id ELSE new
           named == Words({n.mode, mode})
           m == Renamed(cur, "external", id, new)
           nodes == [i \in DOMAIN m.nodes |->
                       IF m.nodes[i].kind = "external" /\ m.nodes[i].id = to
                       THEN [m.nodes[i] EXCEPT !.mode = IF mode = None THEN m.nodes[i].mode ELSE mode] ELSE m.nodes[i]]
<1>1. cur' = [m EXCEPT !.nodes = nodes] /\ op' = Op(named, id, to) /\ MayRename(id, new)
  BY DEF UpdateExternal, Apply, OnNode, OnNodes
<1>2. n \in ToSet(cur.nodes) /\ n.kind = "external" /\ n.id = id
  BY ResolveId
<1> HIDE DEF n, id
<1>3. to # None /\ n.id # None /\ Retells(cur, m, n, to)
  BY <1>1, <1>2, FreeToTake
<1> HIDE DEF m, to
<1>4. PICK y \in ToSet(m.nodes) : y.id = to /\ Told(n, y, n.id, to)
  BY <1>3 DEF Retells
<1>5. WholeLab(m) /\ Firm(m) /\ Single(ToSet(m.nodes))
  BY <1>3 DEF Retells, Firm
<1>6. WholeNode(y) /\ IsNode(y) /\ y.kind = n.kind /\ y.mode = n.mode
  BY <1>4 DEF Told, WholeNode
<1> DEFINE k == [y EXCEPT !.mode = IF mode = None THEN y.mode ELSE mode]
<1>7. IsNode(k)
  BY <1>6, NodeChanged
<1>8. /\ k.id = y.id /\ k.kind = y.kind /\ k.uplinks = y.uplinks /\ k.nics = y.nics /\ k.caps = y.caps /\ k.disk = y.disk
      /\ k.desired = y.desired /\ k.mode = IF mode = None THEN y.mode ELSE mode
  BY <1>6 DEF IsNode
<1>9. Alters(m.nodes, nodes, y, k)
  BY <1>2, <1>4, <1>5, <1>6, OnlyOne DEF Alters
<1> HIDE DEF k, nodes
<1>10. WholeNode(k)
  BY <1>6, <1>7, <1>8 DEF WholeNode
<1>11. SwapsNode(m, cur', y, k)
  BY <1>1, <1>5, <1>9, <1>10, SwapWhole
<1>12. Agree(OwnFacts(y), OwnFacts(k), named)
  BY <1>6, <1>8, OwnAgree DEF Words, Effective, DesiredState
<1>13. About(m, named) = About(cur', named)
  BY <1>5, <1>8, <1>11, <1>12, OneNode
<1>14. WholeLab(cur')
  BY <1>11 DEF SwapsNode
<1>15. NodeName(n.id) \in named <=> NodeName(to) \in named
  BY WordsOnly
<1> HIDE DEF named
<1> QED  BY <1>1, <1>2, <1>3, <1>13, <1>14, <1>15, RenameEdit

LEMMA UpdateSwitchOnly ==
  ASSUME Ready(cur), NEW ref, Resolve(cur, ref, {"switch"}) # None, NEW new, NEW mode,
         NEW extRef, extRef = None \/ Resolve(cur, extRef, {"external"}) # None, UpdateSwitch(ref, new, mode, extRef)
  PROVE  EditsOnly
<1> DEFINE id == Resolve(cur, ref, {"switch"})
           n == NodeOf(cur, "switch", id)
           ext == Asked(extRef, "external")
           more == Distinct(Append(SwitchUplinks(n), ext))
           to == IF new = None THEN id ELSE new
           md == IF mode = None THEN n.mode ELSE mode
           named == Words({n.mode, md}) \union IF extRef = None THEN {} ELSE {NodeName(ext)}
           m == Renamed(cur, "switch", id, new)
           F(x) == [x EXCEPT !.mode = md, !.uplinks = IF extRef = None THEN x.uplinks ELSE more,
                             !.legacy = IF extRef = None THEN x.legacy ELSE None]
           nodes == [i \in DOMAIN m.nodes |-> IF m.nodes[i].kind = "switch" /\ m.nodes[i].id = to THEN F(m.nodes[i]) ELSE m.nodes[i]]
<1>1. cur' = [m EXCEPT !.nodes = nodes] /\ op' = Op(named, id, to) /\ MayRename(id, new)
  BY DEF UpdateSwitch, Apply, OnNode, OnNodes
<1>2. n \in ToSet(cur.nodes) /\ n.kind = "switch" /\ n.id = id
  BY ResolveId
<1> HIDE DEF n, id
<1>3. to # None /\ n.id # None /\ Retells(cur, m, n, to) /\ \A x \in ToSet(cur.nodes) : x.id = new => x = n
  BY <1>1, <1>2, FreeToTake
<1>4. Single(ToSet(cur.nodes)) /\ n.legacy = None /\ WholeNode(n) /\ IsNode(n) /\ Refers(n, "switch", n.id)
  BY <1>2, ReadyNode, RefersIs DEF Ready
<1>5. extRef # None => /\ ext # n.id /\ ext # to
  <2> SUFFICES ASSUME extRef # None PROVE ext # n.id /\ ext # to
    OBVIOUS
  <2>1. NodeOf(cur, "external", ext) \in ToSet(cur.nodes) /\ NodeOf(cur, "external", ext).kind = "external" /\ NodeOf(cur, "external", ext).id = ext
    BY ResolveId DEF Asked
  <2>2. ext # n.id /\ ext # new
    BY <1>2, <1>3, <1>4, <2>1 DEF Single
  <2> QED  BY <1>2, <2>2
<1> HIDE DEF m, to, ext
<1>6. PICK y \in ToSet(m.nodes) : y.id = to /\ Told(n, y, n.id, to)
  BY <1>3 DEF Retells
<1>7. WholeLab(m) /\ Firm(m) /\ Single(ToSet(m.nodes))
  BY <1>3 DEF Retells, Firm
<1>8. WholeNode(y) /\ IsNode(y) /\ y.kind = n.kind /\ y.mode = n.mode /\ ToSet(y.uplinks) = {Subst(u, n.id, to) : u \in ToSet(n.uplinks)}
  BY <1>6 DEF Told, WholeNode
<1>9. ToSet(y.uplinks) = ToSet(n.uplinks)
  <2>1. \A u \in ToSet(n.uplinks) : Subst(u, n.id, to) = u
    BY <1>4 DEF Refers, Subst
  <2> QED  BY <1>8, <2>1
<1>10. IsSeq(more) /\ ToSet(more) = ToSet(n.uplinks) \union {ext}
  <2> DEFINE s == Append(SwitchUplinks(n), ext)
  <2>1. IsSeq(SwitchUplinks(n)) /\ ToSet(SwitchUplinks(n)) = ToSet(n.uplinks)
    BY <1>4, UplinksAre
  <2>2. IsSeq(s) /\ ToSet(s) = ToSet(n.uplinks) \union {ext}
    BY <2>1, SeqAppended
  <2> HIDE DEF s
  <2>3. IsSeq(Distinct(s)) /\ \A x : x \in ToSet(Distinct(s)) <=> x \in ToSet(s)
    BY <2>2, DistinctIs
  <2> QED  BY <2>2, <2>3 DEF s
<1>11. md = n.mode \/ {Word(n.mode), Word(md)} \subseteq named
  BY DEF Words
<1>12. extRef # None => NodeName(ext) \in named
  OBVIOUS
<1>13. NodeName(n.id) \in named <=> NodeName(to) \in named
  <2>1. NodeName(n.id) \notin Words({n.mode, md}) /\ NodeName(to) \notin Words({n.mode, md})
    BY WordsOnly
  <2>2. extRef # None => NodeName(n.id) # NodeName(ext) /\ NodeName(to) # NodeName(ext)
    BY <1>5 DEF NodeName
  <2> QED  BY <2>1, <2>2
<1> HIDE DEF more, md, named
<1> DEFINE k == F(y)
           uplinks == IF extRef = None THEN y.uplinks ELSE more
           legacy == IF extRef = None THEN y.legacy ELSE None
<1>14. k = [id |-> y.id, name |-> y.name, kind |-> y.kind, mode |-> md, uplinks |-> uplinks, legacy |-> legacy,
            nics |-> y.nics, dhcp |-> y.dhcp, desired |-> y.desired, caps |-> y.caps, disk |-> y.disk]
  <2>1. k = [[[y EXCEPT !.mode = md] EXCEPT !.uplinks = uplinks] EXCEPT !.legacy = legacy]
    BY <1>8 DEF IsNode
  <2> HIDE DEF uplinks, legacy, k
  <2> DEFINE a == [y EXCEPT !.mode = md]
             b == [a EXCEPT !.uplinks = uplinks]
  <2>2. a = [id |-> y.id, name |-> y.name, kind |-> y.kind, mode |-> md, uplinks |-> y.uplinks, legacy |-> y.legacy,
             nics |-> y.nics, dhcp |-> y.dhcp, desired |-> y.desired, caps |-> y.caps, disk |-> y.disk]
    BY <1>8 DEF IsNode
  <2>3. k = [b EXCEPT !.legacy = legacy]
    BY <2>1
  <2> HIDE DEF a
  <2>4. b = [id |-> y.id, name |-> y.name, kind |-> y.kind, mode |-> md, uplinks |-> uplinks, legacy |-> y.legacy,
             nics |-> y.nics, dhcp |-> y.dhcp, desired |-> y.desired, caps |-> y.caps, disk |-> y.disk]
    BY <2>2
  <2> HIDE DEF b
  <2> QED  BY <2>3, <2>4
<1>15. IsSeq(uplinks) /\ \A u : NodeName(u) \in named \/ (u \in ToSet(y.uplinks) <=> u \in ToSet(uplinks))
  BY <1>8, <1>9, <1>10, <1>12 DEF IsNode
<1>16. Alters(m.nodes, nodes, y, k)
  <2>1. \A i \in DOMAIN m.nodes : m.nodes[i].kind = "switch" /\ m.nodes[i].id = to => m.nodes[i] = y
    BY <1>6, <1>7, OnlyOne
  <2>2. y.kind = "switch" /\ y.id = to
    BY <1>2, <1>6, <1>8
  <2> HIDE DEF F
  <2> QED  BY <2>1, <2>2 DEF Alters
<1> HIDE DEF k, nodes, uplinks, legacy
<1>17. /\ k.id = y.id /\ k.kind = y.kind /\ k.uplinks = uplinks /\ k.nics = y.nics /\ k.caps = y.caps /\ k.disk = y.disk
       /\ k.desired = y.desired /\ k.mode = md
  BY <1>14
<1>18. IsNode(k)
  BY <1>14, <1>15, <1>17 DEF IsNode
<1>19. WholeNode(k)
  BY <1>2, <1>8, <1>17, <1>18 DEF WholeNode
<1>20. SwapsNode(m, cur', y, k)
  BY <1>1, <1>7, <1>16, <1>19, SwapWhole
<1>21. Agree(OwnFacts(y), OwnFacts(k), named)
  BY <1>8, <1>11, <1>15, <1>17, OwnAgree DEF Effective, DesiredState
<1>22. About(m, named) = About(cur', named)
  BY <1>7, <1>17, <1>20, <1>21, OneNode
<1>23. WholeLab(cur')
  BY <1>20 DEF SwapsNode
<1> QED  BY <1>1, <1>2, <1>3, <1>13, <1>22, <1>23, RenameEdit

\* A workload that is given another disk path and other interfaces.
Refitted(y, k, path, nics) ==
  /\ WholeNode(k) /\ k.id = y.id /\ k.kind = y.kind /\ k.disk = path /\ k.nics = nics
  /\ k.mode = y.mode /\ k.desired = y.desired /\ k.caps = y.caps /\ k.uplinks = y.uplinks

LEMMA DiskAndNICs ==
  ASSUME NEW y, WholeNode(y), y.kind \in Workload, NEW path, NEW nics, IsSeq(nics), \A j \in DOMAIN nics : IsNIC(nics[j])
  PROVE  Refitted(y, [[y EXCEPT !.disk = path] EXCEPT !.nics = nics], path, nics)
<1> DEFINE a == [y EXCEPT !.disk = path]
           k == [a EXCEPT !.nics = nics]
<1>1. IsNode(y) /\ IsSeq(y.uplinks) /\ y.caps = [add |-> y.caps.add, drop |-> y.caps.drop] /\ (y.kind # "switch" => y.uplinks = <<>>)
  BY DEF WholeNode, IsNode
<1>2. a = [id |-> y.id, name |-> y.name, kind |-> y.kind, mode |-> y.mode, uplinks |-> y.uplinks, legacy |-> y.legacy,
           nics |-> y.nics, dhcp |-> y.dhcp, desired |-> y.desired, caps |-> y.caps, disk |-> path]
  BY <1>1 DEF IsNode
<1> HIDE DEF a
<1>3. k = [id |-> y.id, name |-> y.name, kind |-> y.kind, mode |-> y.mode, uplinks |-> y.uplinks, legacy |-> y.legacy,
           nics |-> nics, dhcp |-> y.dhcp, desired |-> y.desired, caps |-> y.caps, disk |-> path]
  BY <1>2
<1> HIDE DEF k
<1>4. /\ k.id = y.id /\ k.kind = y.kind /\ k.disk = path /\ k.nics = nics
      /\ k.mode = y.mode /\ k.desired = y.desired /\ k.caps = y.caps /\ k.uplinks = y.uplinks
  BY <1>3
<1>5. IsNode(k)
  BY <1>1, <1>3, <1>4 DEF IsNode
<1>6. WholeNode(k)
  BY <1>1, <1>4, <1>5 DEF WholeNode
<1>7. Refitted(y, k, path, nics)
  BY <1>4, <1>6 DEF Refitted
<1> QED  BY <1>7 DEF k, a

LEMMA NotEmpty == ASSUME NEW s, IsSeq(s), s # <<>> PROVE 1 \in DOMAIN s
<1>1. Len(s) \in Nat /\ DOMAIN s = 1..Len(s) /\ s = [i \in 1..Len(s) |-> s[i]]
  BY SeqIs
<1>2. CASE Len(s) = 0
  <2>1. DOMAIN s = {}
    BY <1>1, <1>2
  <2>2. DOMAIN <<>> = {} /\ <<>> = [j \in DOMAIN <<>> |-> <<>>[j]]
    OBVIOUS
  <2> QED  BY <1>1, <1>2, <2>1, <2>2
<1> QED  BY <1>1, <1>2

\* The interfaces it is given, when it is given any.
Rewired(y, nics, mac, same) ==
  /\ IsSeq(nics) /\ \A j \in DOMAIN nics : IsNIC(nics[j]) /\ (nics[j].mac = mac \/ \E i \in DOMAIN y.nics : nics[j].mac = y.nics[i].mac)
  /\ same => nics = y.nics

LEMMA NetworkIs ==
  ASSUME NEW y, WholeNode(y), NEW sw, NEW ext, NEW mac
  PROVE  Rewired(y, WithNetwork(y.nics, sw, ext, mac), mac, sw = None /\ ext = None /\ mac = None)
<1> DEFINE nics == WithNetwork(y.nics, sw, ext, mac)
           same == sw = None /\ ext = None /\ mac = None
<1> SUFFICES Rewired(y, nics, mac, same)
  OBVIOUS
<1>1. IsSeq(y.nics) /\ \A j \in DOMAIN y.nics : IsNIC(y.nics[j])
  BY DEF WholeNode
<1>2. CASE sw # None \/ ext # None
  BY <1>2, WireIs DEF WithNetwork, Rewired
<1>3. CASE sw = None /\ ext = None /\ mac # None /\ y.nics # <<>>
  <2> DEFINE x == [y.nics[1] EXCEPT !.mac = mac]
  <2>1. nics = [y.nics EXCEPT ![1] = x]
    BY <1>3 DEF WithNetwork
  <2>2. 1 \in DOMAIN y.nics
    BY <1>1, <1>3, NotEmpty
  <2>3. IsNIC(x) /\ x.mac = mac
    <3>1. y.nics[1] = NIC(y.nics[1].sw, y.nics[1].ext, y.nics[1].mac)
      BY <1>1, <2>2 DEF IsNIC
    <3>2. x = NIC(y.nics[1].sw, y.nics[1].ext, mac)
      BY <3>1 DEF NIC
    <3> HIDE DEF x
    <3> QED  BY <3>2, NICParts
  <2> HIDE DEF x, nics
  <2>4. IsSeq(nics) /\ DOMAIN nics = DOMAIN y.nics /\ nics[1] = x /\ \A j \in DOMAIN y.nics \ {1} : nics[j] = y.nics[j]
    BY <1>1, <2>1, <2>2, SeqPut
  <2> QED  BY <1>1, <1>3, <2>3, <2>4 DEF nics, Rewired
<1>4. CASE sw = None /\ ext = None /\ (mac = None \/ y.nics = <<>>)
  BY <1>1, <1>4 DEF WithNetwork, Rewired
<1> QED  BY <1>2, <1>3, <1>4

\* A workload whose name and interfaces are all named, before and after.
LEMMA SilentNode ==
  ASSUME NEW l, WholeLab(l), Firm(l), NEW y \in ToSet(l.nodes), NEW k, k.id = y.id, k.kind = y.kind,
         NEW a, a \in {l, WithoutNodeLinks(l, y.kind, y.id)}, NEW m, SwapsNode(a, m, y, k),
         NEW named, NodeName(y.id) \in named, \A i \in DOMAIN y.nics : NameOfNIC(y, i) \in named,
         \A i \in DOMAIN k.nics : NameOfNIC(k, i) \in named
  PROVE  About(l, named) = About(m, named)
<1>1. /\ a.nodes = l.nodes /\ a.placed = l.placed /\ a.drawn = l.drawn /\ a.disks = l.disks
      /\ ToSet(a.links) \subseteq ToSet(l.links)
      /\ \A link \in ToSet(l.links) : (link.from.kind = y.kind /\ link.from.id = y.id) \/ (link.to.kind = y.kind /\ link.to.id = y.id) \/ link \in ToSet(a.links)
  BY WithoutLinks
<1>2. \A i : NameOfNIC(y, i) \in named /\ NameOfNIC(k, i) \in named
  <2>1. \A i : i \notin DOMAIN y.nics => NameOfNIC(y, i) = NodeName(y.id)
    BY DEF NameOfNIC
  <2>2. \A i : i \notin DOMAIN k.nics => NameOfNIC(k, i) = NodeName(k.id)
    BY DEF NameOfNIC
  <2> QED  BY <2>1, <2>2
<1>3. \A e : e.kind = y.kind /\ e.id = y.id => NameOfEnd(l, e) \in named
  <2>1. Single(ToSet(l.nodes))
    BY DEF Firm
  <2> QED  BY <1>2, <2>1, EndName
<1>4. \A link \in ToSet(l.links) : NameOfEnd(l, link.from) \in named \/ NameOfEnd(l, link.to) \in named \/ link \in ToSet(m.links)
  BY <1>1, <1>3 DEF SwapsNode
<1>5. Agree(NodeFacts(y), NodeFacts(k), named)
  <2>1. Silent(NodeFacts(y), named) /\ Silent(NodeFacts(k), named)
    BY <1>2, NodeSilent
  <2> QED  BY <2>1 DEF Silent, Agree
<1>6. ToSet(m.nodes) = Swapped(ToSet(l.nodes), y, k) /\ m.placed = l.placed /\ m.drawn = l.drawn /\ m.disks = l.disks
      /\ ToSet(m.links) \subseteq ToSet(l.links)
  BY <1>1 DEF SwapsNode
<1> QED  BY <1>2, <1>4, <1>5, <1>6, SwapAbout

LEMMA UpdateWorkloadOnly ==
  ASSUME Ready(cur), NEW kind \in Workload, NEW ref, Resolve(cur, ref, {kind}) # None, NEW new, NEW path,
         NEW swRef, NEW extRef, NEW mac, UpdateWorkload(kind, ref, new, path, swRef, extRef, mac)
  PROVE  EditsOnly
<1> DEFINE id == Resolve(cur, ref, {kind})
           n == NodeOf(cur, kind, id)
           sw == Asked(swRef, "switch")
           ext == Asked(extRef, "external")
           to == IF new = None THEN id ELSE new
           netted == sw # None \/ ext # None
           paths == IF path = None THEN {} ELSE Words({path, n.disk})
           wires == IF netted \/ mac # None THEN {NodeName(id), NodeName(to), MacName(mac)} \union MacsOf(kind, id) ELSE {}
           named == paths \union wires
           m == Renamed(cur, kind, id, new)
           a == IF netted THEN WithoutNodeLinks(m, kind, to) ELSE m
           F(x) == [x EXCEPT !.disk = IF path = None THEN x.disk ELSE path, !.nics = WithNetwork(x.nics, sw, ext, mac)]
           nodes == [i \in DOMAIN a.nodes |-> IF a.nodes[i].kind = kind /\ a.nodes[i].id = to THEN F(a.nodes[i]) ELSE a.nodes[i]]
<1>1. cur' = [a EXCEPT !.nodes = nodes] /\ op' = Op(named, id, to) /\ MayRename(id, new)
  BY DEF UpdateWorkload, Apply, OnNode, OnNodes
<1>2. n \in ToSet(cur.nodes) /\ n.kind = kind /\ n.id = id
  BY ResolveId
<1>3. \A nic \in ToSet(n.nics) : MacName(nic.mac) \in MacsOf(kind, id)
  BY DEF MacsOf
<1> HIDE DEF n, id, sw, ext
<1>4. to # None /\ n.id # None /\ Retells(cur, m, n, to)
  BY <1>1, <1>2, FreeToTake
<1> HIDE DEF m, to
<1>5. PICK y \in ToSet(m.nodes) : y.id = to /\ Told(n, y, n.id, to)
  BY <1>4 DEF Retells
<1>6. WholeLab(m) /\ Firm(m) /\ Single(ToSet(m.nodes))
  BY <1>4 DEF Retells, Firm
<1>7. WholeNode(y) /\ IsNode(y) /\ y.kind = kind /\ y.disk = n.disk /\ DOMAIN y.nics = DOMAIN n.nics
      /\ \A j \in DOMAIN n.nics : y.nics[j].mac = n.nics[j].mac
  BY <1>2, <1>5, NICParts DEF Told, WholeNode
<1>8. WholeLab(a) /\ a.nodes = m.nodes
  BY <1>6, WithoutLinks
<1> DEFINE disk == IF path = None THEN y.disk ELSE path
           nics == WithNetwork(y.nics, sw, ext, mac)
           k == F(y)
<1>9. \A i \in DOMAIN a.nodes : a.nodes[i].kind = kind /\ a.nodes[i].id = to => a.nodes[i] = y
  BY <1>5, <1>6, <1>8, OnlyOne
<1>10. Alters(a.nodes, nodes, y, k)
  <2> HIDE DEF F
  <2> QED  BY <1>5, <1>7, <1>9 DEF Alters
<1>11. /\ IsSeq(nics) /\ \A j \in DOMAIN nics : IsNIC(nics[j]) /\ (nics[j].mac = mac \/ \E i \in DOMAIN y.nics : nics[j].mac = y.nics[i].mac)
       /\ ~netted /\ mac = None => nics = y.nics
  <2>1. Rewired(y, nics, mac, sw = None /\ ext = None /\ mac = None)
    BY <1>7, NetworkIs
  <2> HIDE DEF nics
  <2> QED  BY <2>1 DEF Rewired
<1>12. k = [[y EXCEPT !.disk = disk] EXCEPT !.nics = nics]
  <2> HIDE DEF disk, nics
  <2>1. k = [y EXCEPT !.disk = disk, !.nics = nics]
    BY DEF disk, nics
  <2> QED  BY <2>1
<1> HIDE DEF k, nodes, disk, nics, F
<1>13. /\ WholeNode(k) /\ k.id = y.id /\ k.kind = y.kind /\ k.disk = disk /\ k.nics = nics
       /\ k.mode = y.mode /\ k.desired = y.desired /\ k.caps = y.caps /\ k.uplinks = y.uplinks
  <2>1. Refitted(y, k, disk, nics)
    BY <1>7, <1>11, <1>12, DiskAndNICs
  <2> QED  BY <2>1 DEF Refitted
<1>14. SwapsNode(a, cur', y, k)
  <2>1. WholeLab(a) /\ Single(ToSet(a.nodes)) /\ y \in ToSet(a.nodes)
    BY <1>6, <1>8
  <2> HIDE DEF a
  <2> QED  BY <1>1, <1>10, <1>13, <2>1, SwapWhole
<1>15. WholeLab(cur')
  BY <1>14 DEF SwapsNode
<1>16. About(m, named) = About(cur', named) /\ (NodeName(n.id) \in named <=> NodeName(to) \in named)
  <2>1. CASE netted \/ mac # None
    <3>1. NodeName(id) \in named /\ NodeName(to) \in named /\ MacName(mac) \in named /\ MacsOf(kind, id) \subseteq named
      BY <2>1
    <3>2. \A i \in DOMAIN y.nics : MacName(y.nics[i].mac) \in named
      BY <1>3, <1>7, <3>1 DEF ToSet
    <3>3. \A j \in DOMAIN nics : MacName(nics[j].mac) \in named
      BY <1>11, <3>1, <3>2
    <3>4. a \in {m, WithoutNodeLinks(m, y.kind, y.id)}
      BY <1>5, <1>7
    <3> HIDE DEF named, a, netted
    <3>5. \A i \in DOMAIN y.nics : NameOfNIC(y, i) \in named
      BY <1>5, <3>1, <3>2 DEF NameOfNIC
    <3>6. \A i \in DOMAIN k.nics : NameOfNIC(k, i) \in named
      BY <1>5, <1>13, <3>1, <3>3 DEF NameOfNIC
    <3>7. About(m, named) = About(cur', named)
      BY <1>5, <1>6, <1>13, <1>14, <3>1, <3>4, <3>5, <3>6, SilentNode
    <3> QED  BY <1>2, <3>1, <3>7
  <2>2. CASE ~netted /\ mac = None
    <3>1. named = paths /\ a = m /\ k.nics = y.nics
      BY <1>11, <1>13, <2>2
    <3>2. NodeName(n.id) \notin named /\ NodeName(to) \notin named
      BY <3>1, WordsOnly
    <3>3. y.disk = k.disk \/ \A p \in {y.disk, k.disk} : p = None \/ Word(p) \in named
      BY <1>7, <1>13 DEF disk, Words
    <3> HIDE DEF named, a
    <3>4. Agree(OwnFacts(y), OwnFacts(k), named)
      BY <1>13, <3>3, OwnAgree DEF Effective, DesiredState
    <3>5. About(m, named) = About(cur', named)
      BY <1>6, <1>13, <1>14, <3>1, <3>4, OneNode
    <3> QED  BY <3>2, <3>5
  <2> QED  BY <2>1, <2>2
<1> HIDE DEF named, a
<1> QED  BY <1>1, <1>2, <1>4, <1>15, <1>16, RenameEdit

-----------------------------------------------------------------------------
(* Whatever is typed and chosen *)

LEMMA ArgKnown ==
  ASSUME NEW names, NEW args \in Args(names), NEW name, Given(args, name), Values(name) = Uplinks
  PROVE  Resolve(cur, Arg(args, name), {"external"}) # None
<1> DEFINE p == CHOOSE x \in args : x[1] = name
<1>1. p \in args /\ p[1] = name /\ Arg(args, name) = p[2]
  BY DEF Given, Arg
<1>2. \A x \in args : \E given \in names : x \in {given} \X Values(given)
  <2> DEFINE pairs == UNION {{given} \X Values(given) : given \in names}
  <2>1. \A x \in args : x \in pairs
    <3> HIDE DEF pairs
    <3> QED  BY DEF Args, pairs
  <2> QED  BY <2>1
<1> HIDE DEF p
<1>3. PICK given \in names : p \in {given} \X Values(given)
  BY <1>1, <1>2
<1>4. p[1] = given /\ p[2] \in Values(given)
  BY <1>3
<1> QED  BY <1>1, <1>4 DEF Uplinks, Known

\* The uplink that a command names is one that is there.
LEMMA UplinkKnown ==
  ASSUME NEW names, NEW args \in Args(names)
  PROVE  UplinkOf(args) = None \/ Resolve(cur, UplinkOf(args), {"external"}) # None
<1> DEFINE olds == <<"uplink", "external", "externallink">>
           given == Among(olds, {name \in ToSet(olds) : Given(args, name)})
<1>1. IsSeq(olds) /\ ToSet(olds) = {"uplink", "external", "externallink"}
  <2>1. IsSeq(olds)
    <3>1. olds \in Seq({"uplink", "external", "externallink"})
      OBVIOUS
    <3> HIDE DEF olds
    <3> QED  BY <3>1, IsSeqOf
  <2>2. DOMAIN olds = {1, 2, 3} /\ olds[1] = "uplink" /\ olds[2] = "external" /\ olds[3] = "externallink"
    OBVIOUS
  <2> HIDE DEF olds
  <2>3. ToSet(olds) = {olds[i] : i \in DOMAIN olds}
    BY DEF ToSet
  <2> QED  BY <2>1, <2>2, <2>3
<1>2. UplinkOf(args) = IF given = <<>> THEN None ELSE Arg(args, given[1])
  BY DEF UplinkOf, FirstArg
<1>3. IsSeq(given) /\ \A x \in ToSet(given) : x \in {"uplink", "external", "externallink"} /\ Given(args, x)
  <2> DEFINE some == {name \in ToSet(olds) : Given(args, name)}
  <2>1. \A x \in some : x \in {"uplink", "external", "externallink"} /\ Given(args, x)
    BY <1>1
  <2> HIDE DEF olds, some
  <2>2. IsSeq(Among(olds, some)) /\ \A x \in ToSet(Among(olds, some)) : x \in some
    BY <1>1, AmongIs
  <2> QED  BY <2>1, <2>2 DEF some
<1> HIDE DEF given
<1>4. CASE given # <<>>
  <2>1. 1 \in DOMAIN given
    BY <1>3, <1>4, NotEmpty
  <2>2. given[1] \in ToSet(given)
    BY <2>1 DEF ToSet
  <2>3. Given(args, given[1]) /\ Values(given[1]) = Uplinks
    BY <1>3, <2>2 DEF Values
  <2> QED  BY <1>2, <1>4, <2>3, ArgKnown
<1> QED  BY <1>2, <1>4

LEMMA CommandsOnly ==
  ASSUME Ready(cur), ExecuteCommand \/ ChooseItem
  PROVE  EditsOnly
<1>1. \A kinds, ref : ref \in Known(kinds) => Resolve(cur, ref, kinds) # None
  BY DEF Known
<1>2. ASSUME NEW kind \in Workload, NEW ref \in Known({kind}), NEW new, NEW path, NEW sw, NEW ext, NEW mac, NEW i
      PROVE  /\ UpdateWorkload(kind, ref, new, path, sw, ext, mac) => EditsOnly
             /\ DeleteWorkload(kind, ref) => EditsOnly
             /\ \A state \in {"running", "stopped"} : SetDesired(kind, ref, state) => EditsOnly
             /\ AddNIC(kind, ref, mac) => EditsOnly
             /\ DeleteNIC(kind, ref, i) => EditsOnly
             /\ \A to, kinds : ConnectNIC(kind, ref, i, to, kinds, mac) => EditsOnly
             /\ DisconnectNIC(kind, ref, i) => EditsOnly
  <2>1. Resolve(cur, ref, {kind}) # None
    BY <1>1
  <2>2. UpdateWorkload(kind, ref, new, path, sw, ext, mac) => EditsOnly
    BY <2>1, UpdateWorkloadOnly
  <2>3. (DeleteWorkload(kind, ref) => EditsOnly) /\ (\A state \in {"running", "stopped"} : SetDesired(kind, ref, state) => EditsOnly)
    BY <2>1, DeleteWorkloadOnly, SetDesiredOnly
  <2>4. (AddNIC(kind, ref, mac) => EditsOnly) /\ (DeleteNIC(kind, ref, i) => EditsOnly)
    BY <2>1, AddNICOnly, DeleteNICOnly
  <2>5. (\A to, kinds : ConnectNIC(kind, ref, i, to, kinds, mac) => EditsOnly) /\ (DisconnectNIC(kind, ref, i) => EditsOnly)
    BY <2>1, ConnectNICOnly, DisconnectOnly
  <2> QED  BY <2>2, <2>3, <2>4, <2>5
<1>3. ASSUME NEW kind \in Workload, NEW id, NEW path, NEW sw, NEW ext, NEW mac, CreateWorkload(kind, id, path, sw, ext, mac) PROVE EditsOnly
  BY <1>3, CreateWorkloadOnly
<1>4. "vm" \in Workload /\ "container" \in Workload
  BY DEF Workload
<1>5. CASE ExecuteVMCommand
  BY <1>2, <1>3, <1>4, <1>5
     DEF ExecuteVMCommand, VMCreate, VMSet, CreateVM, UpdateVM, VMDesiredState, VMDelete, AddVMNIC, ConnectVMNIC, DeleteVMNIC
<1>6. CASE ExecuteContainerCommand
  BY <1>2, <1>3, <1>4, <1>6
     DEF ExecuteContainerCommand, ContainerCreate, ContainerSet, CreateContainer, UpdateContainer,
         ContainerDesiredState, ContainerDelete, AddContainerNIC, ConnectContainerNIC, DeleteContainerNIC
<1>7. CASE ExecuteAddCommand
  BY <1>7, CreateDHCPOnly DEF ExecuteAddCommand
<1>8. CASE ExecuteSwitchCommand
  <2>1. ASSUME NEW id, NEW mode, NEW ref, CreateSwitch(id, mode, ref) PROVE EditsOnly
    BY <2>1, CreateNetworkOnly
  <2>2. ASSUME NEW ref \in Known({"switch"}), SwitchDelete(ref) PROVE EditsOnly
    BY <1>1, <2>2, SwitchDeleteOnly
  <2>3. ASSUME NEW ref \in Known({"switch"}), NEW args \in Args(SwitchArguments), UpdateSwitch(ref, Arg(args, "name"), Arg(args, "mode"), UplinkOf(args))
        PROVE  EditsOnly
    <3>1. UplinkOf(args) = None \/ Resolve(cur, UplinkOf(args), {"external"}) # None
      BY UplinkKnown
    <3>2. Resolve(cur, ref, {"switch"}) # None
      BY <1>1
    <3> QED  BY <2>3, <3>1, <3>2, UpdateSwitchOnly
  <2> QED  BY <1>8, <2>1, <2>2, <2>3 DEF ExecuteSwitchCommand
<1>9. CASE ExecuteExternalCommand
  <2>1. ASSUME NEW id, NEW mode, CreateExternal(id, mode) PROVE EditsOnly
    BY <2>1, CreateNetworkOnly
  <2>2. ASSUME NEW ref \in Uplinks, ExternalDelete(ref) PROVE EditsOnly
    BY <1>1, <2>2, ExternalDeleteOnly DEF Uplinks
  <2>3. ASSUME NEW ref \in Uplinks, NEW new, NEW mode, UpdateExternal(ref, new, mode) PROVE EditsOnly
    BY <1>1, <2>3, UpdateExternalOnly DEF Uplinks
  <2> QED  BY <1>9, <2>1, <2>2, <2>3 DEF ExecuteExternalCommand
<1>10. CASE ExecuteLinkCommand
  <2>1. ASSUME NEW kind \in Workload, NEW ref \in Known({kind}), NEW i, NEW toKind \in Workload, NEW toRef \in Known({toKind})
        PROVE  /\ ConnectDirectFirst(kind, ref, i, toKind, toRef) => EditsOnly
               /\ \A j : ConnectDirectNIC(kind, ref, i, toKind, toRef, j) => EditsOnly
    <3>1. Resolve(cur, ref, {kind}) # None /\ Resolve(cur, toRef, {toKind}) # None
      BY <1>1
    <3> QED  BY <3>1, ConnectFirstOnly, ConnectDirectOnly
  <2> QED  BY <1>2, <1>10, <2>1 DEF ExecuteLinkCommand, ExecuteLinkAddCommand, ExecuteLinkDeleteCommand
<1>11. CASE ChooseItem
  <2>1. ASSUME NEW ref \in Known({"switch"}), NEW ext, TakeUplink(ref, ext) PROVE EditsOnly
    BY <1>1, <2>1, SwitchDisconnectOnly DEF TakeUplink
  <2>2. ASSUME NEW ref \in Known({"container"}), NEW c, TogglePermission(ref, c) PROVE EditsOnly
    BY <1>1, <2>2, SetCapabilityOnly DEF TogglePermission
  <2>3. ASSUME NEW id, SaveActiveMove(id) PROVE EditsOnly
    BY <2>3, MoveOnly
  <2> QED  BY <1>11, <2>1, <2>2, <2>3 DEF ChooseItem
<1> QED  BY <1>5, <1>6, <1>7, <1>8, <1>9, <1>10, <1>11 DEF ExecuteCommand

\* A node that is there is found by its id.
LEMMA ResolveThere ==
  ASSUME NEW l, IsLab(l), Single(ToSet(l.nodes)), NEW n \in ToSet(l.nodes)
  PROVE  Resolve(l, n.id, {n.kind}) = n.id
<1> DEFINE of(field) == {x \in ToSet(l.nodes) : x.kind \in {n.kind} /\ x[field] = n.id}
           found == IF of("id") # {} THEN of("id") ELSE of("name")
<1>1. Resolve(l, n.id, {n.kind}) = IF Cardinality(found) = 1 THEN (CHOOSE x \in found : TRUE).id ELSE None
  BY DEF Resolve
<1>2. \A x \in ToSet(l.nodes) : x["id"] = x.id
  OBVIOUS
<1>3. of("id") = {n}
  BY <1>2 DEF Single
<1>4. found = {n}
  BY <1>3
<1> HIDE DEF found
<1>5. Cardinality(found) = 1
  BY <1>4, FS_Singleton
<1> QED  BY <1>1, <1>4, <1>5

LEMMA ThereIs ==
  ASSUME Ready(cur), NEW kind, NEW id, Exists(cur, kind, id)
  PROVE  /\ Resolve(cur, id, {kind}) = id /\ id # None
         /\ NodeOf(cur, kind, id).nics # <<>> => kind \in Workload
<1>1. PICK n \in ToSet(cur.nodes) : n.kind = kind /\ n.id = id
  BY DEF Exists, NodesOf
<1>2. IsLab(cur) /\ Single(ToSet(cur.nodes)) /\ n.id # None /\ WholeNode(n)
  BY <1>1, ReadyNode DEF Ready, Firm, WholeLab
<1>3. NodeOf(cur, kind, id) = n
  BY <1>1, <1>2, NodeFound
<1>4. Resolve(cur, id, {kind}) = id
  BY <1>1, <1>2, ResolveThere
<1> QED  BY <1>1, <1>2, <1>3, <1>4 DEF WholeNode

LEMMA ConnectsOnly ==
  ASSUME Ready(cur), ModeStages, Connects
  PROVE  EditsOnly \/ UNCHANGED vars
<1>1. ASSUME NEW kind \in Workload, NEW id, NEW i, StartConnectNICIndex(kind, id, i) PROVE EditsOnly \/ UNCHANGED vars
  <2>1. Resolve(cur, id, {kind}) # None
    BY <1>1, ThereIs DEF StartConnectNICIndex
  <2> QED  BY <1>1, <2>1, DisconnectOnly DEF StartConnectNICIndex
<1>2. ASSUME NEW kind, NEW id, StartConnectEndpoint(kind, id) PROVE UNCHANGED vars
  BY <1>2 DEF StartConnectEndpoint
<1>3. ASSUME NEW sw, NEW ext, ConnectSwitchExternal(sw, ext) PROVE EditsOnly \/ UNCHANGED vars
  BY <1>3, UpdateSwitchOnly DEF ConnectSwitchExternal, EndsWith
<1>4. ASSUME NEW n, ConnectSelectedEndpoint(n) PROVE EditsOnly \/ UNCHANGED vars
  <2>1. CASE Source.kind \in Workload /\ EndsWith(There(Source), ConnectNIC(Source.kind, Source.id, Source.nic, n.id, {n.kind}, None))
    <3>1. There(Source) => Resolve(cur, Source.id, {Source.kind}) # None
      BY ThereIs DEF There
    <3> QED  BY <2>1, <3>1, ConnectNICOnly DEF EndsWith
  <2> QED  BY <1>3, <1>4, <2>1 DEF ConnectSelectedEndpoint
<1>5. ASSUME NEW e, Exists(cur, e.kind, e.id), Has(e) PROVE e.kind \in Workload /\ Resolve(cur, e.id, {e.kind}) # None
  <2>1. DOMAIN <<>> = {}
    OBVIOUS
  <2>2. NodeOf(cur, e.kind, e.id).nics # <<>>
    BY <1>5, <2>1 DEF Has
  <2> QED  BY <1>5, <2>2, ThereIs
<1>6. ASSUME NEW f, Exists(cur, f.kind, f.id), Joins(f) PROVE EditsOnly \/ UNCHANGED vars
  <2>1. CASE There(Source) /\ Has(Source) /\ Has(f)
    <3>1. /\ Source.kind \in Workload /\ Resolve(cur, Source.id, {Source.kind}) # None
          /\ f.kind \in Workload /\ Resolve(cur, f.id, {f.kind}) # None
      BY <1>5, <1>6, <2>1 DEF There
    <3> QED  BY <1>6, <2>1, <3>1, ConnectDirectOnly DEF Joins, EndsWith
  <2>2. CASE ~(There(Source) /\ Has(Source) /\ Has(f))
    BY <1>6, <2>2 DEF Joins, EndsWith
  <2> QED  BY <2>1, <2>2
<1>7. \A j : TargetNIC(j).kind = connect.target.kind /\ TargetNIC(j).id = connect.target.id
  BY DEF TargetNIC, Endpoint
<1>8. CASE ConnectSelectedTargetNIC
  BY <1>6, <1>7, <1>8 DEF ConnectSelectedTargetNIC, AtTarget
<1>9. CASE JoinNewNIC
  <2>1. There(TargetNIC(then.nic)) => Exists(cur, TargetNIC(then.nic).kind, TargetNIC(then.nic).id)
    BY DEF There
  <2> QED  BY <1>6, <1>9, <2>1 DEF JoinNewNIC
<1>10. CASE NewNIC
  <2>1. connect.stage = "target" /\ Exists(cur, connect.target.kind, connect.target.id) /\ AddNIC(connect.target.kind, connect.target.id, None)
    BY <1>10 DEF NewNIC, AtTarget
  <2>2. connect.target.kind \in Workload /\ Resolve(cur, connect.target.id, {connect.target.kind}) # None
    BY <2>1, ThereIs DEF ModeStages
  <2> QED  BY <2>1, <2>2, AddNICOnly
<1>11. CASE Escape \/ OpenPalette
  BY <1>11 DEF Escape, OpenPalette
<1> QED  BY <1>1, <1>2, <1>4, <1>8, <1>9, <1>10, <1>11 DEF Connects

-----------------------------------------------------------------------------
(* The session holds a lab that edits may be made of. *)

\* What Validate has accepted, as Normalize leaves it.
LEMMA ValidReady ==
  ASSUME NEW l, WholeLab(l), Valid(l), Normalize(l) = l
  PROVE  Ready(l)
<1> DEFINE S == ToSet(l.nodes)
<1>1. IsLab(l) /\ \A i \in DOMAIN l.nodes : IsNode(l.nodes[i])
  BY DEF WholeLab, IsLab, AreNodes
<1>2. \A n \in S : n.id # None
  BY DEF Valid, IdentityProblems, ToSet
<1>3. Single(S)
  <2> SUFFICES ASSUME NEW i \in DOMAIN l.nodes, NEW j \in DOMAIN l.nodes, l.nodes[i].id = l.nodes[j].id, i # j PROVE FALSE
    BY DEF Single, ToSet
  <2>1. l.nodes[j] \in Others(l, i) /\ l.nodes[i].id # None
    BY <1>2 DEF Others, ToSet
  <2>2. l.nodes[i].id \in {l.nodes[i].id, l.nodes[i].name} \ {None} /\ Fold[l.nodes[i].id] \in {Fold[l.nodes[j].id], Fold[l.nodes[j].name]}
    BY <2>1
  <2>3. i \in IdentityProblems(l)
    BY <2>1, <2>2 DEF IdentityProblems
  <2> QED  BY <2>3 DEF Valid
<1>4. \A kind, id : id \in IdsOf(l, {kind}) => Present(S, kind, id)
  BY DEF IdsOf, Present
<1>5. ASSUME NEW e, FreeNIC(l, e) PROVE Ended(S, e)
  <2>1. PICK n \in S : n.kind \in {e.kind} \intersect Workload /\ n.id = e.id
    BY <1>5 DEF FreeNIC, IdsOf
  <2>2. NodeOf(l, e.kind, e.id) = n
    BY <1>3, <2>1, NodeFound
  <2>3. e.nic \in DOMAIN n.nics
    BY <1>5, <2>2 DEF FreeNIC
  <2> QED  BY <2>1, <2>3 DEF Ended
<1>6. \A link \in ToSet(l.links) : Ended(S, link.from) /\ Ended(S, link.to)
  <2> SUFFICES ASSUME NEW i \in DOMAIN l.links PROVE Ended(S, l.links[i].from) /\ Ended(S, l.links[i].to)
    BY DEF ToSet
  <2>1. \A e \in Ends(l.links[i]) : FreeNIC(l, e)
    BY DEF Valid, LinkProblems
  <2> QED  BY <1>5, <2>1 DEF Ends
<1>7. \A n \in S : n.kind = "switch" => n.legacy = None
  <2> DEFINE nodes == [i \in DOMAIN l.nodes |-> NormalizedNode(l.nodes[i])]
  <2>1. Normalize(l) = [l EXCEPT !.nodes = nodes]
    BY DEF Normalize
  <2>2. \A i \in DOMAIN l.nodes : nodes[i] = NormalizedNode(l.nodes[i])
    OBVIOUS
  <2> HIDE DEF nodes
  <2>3. l.nodes = nodes
    BY <1>1, <2>1 DEF IsLab, LabLike
  <2> SUFFICES ASSUME NEW i \in DOMAIN l.nodes, l.nodes[i].kind = "switch" PROVE l.nodes[i].legacy = None
    BY DEF ToSet
  <2> DEFINE n == l.nodes[i]
  <2>4. n = NormalizedNode(n)
    BY <2>2, <2>3
  <2>5. IsNode(n) /\ n.kind = "switch"
    BY <1>1
  <2> HIDE DEF n
  <2>6. NormalizedNode(n).legacy = NormalLegacy(n)
    BY <2>5, NormalizedIs
  <2> QED  BY <2>4, <2>5, <2>6 DEF NormalLegacy, n
<1>8. ASSUME NEW n \in S PROVE \A u \in ToSet(n.uplinks) : Present(S, "external", u)
  <2>1. WholeNode(n) /\ IsNode(n)
    BY DEF WholeLab, WholeNodes, WholeNode
  <2>2. CASE n.kind = "switch"
    <3>1. ToSet(SwitchUplinks(n)) \subseteq IdsOf(l, {"external"})
      BY <2>2 DEF Valid, SwitchProblems
    <3>2. ToSet(SwitchUplinks(n)) = ToSet(n.uplinks)
      BY <1>7, <2>1, <2>2, UplinksAre
    <3> QED  BY <1>4, <3>1, <3>2
  <2>3. CASE n.kind # "switch"
    <3>1. n.uplinks = <<>> /\ DOMAIN <<>> = {}
      BY <2>1, <2>3 DEF WholeNode
    <3> QED  BY <3>1 DEF ToSet
  <2> QED  BY <2>2, <2>3
<1>9. ASSUME NEW n \in S, NEW i \in DOMAIN n.nics
      PROVE  (n.nics[i].sw # None => Present(S, "switch", n.nics[i].sw)) /\ (n.nics[i].ext # None => Present(S, "external", n.nics[i].ext))
  <2>1. WholeNode(n)
    BY DEF WholeLab, WholeNodes
  <2>2. n.kind \in Workload
    <3>1. DOMAIN <<>> = {}
      OBVIOUS
    <3> QED  BY <1>9, <2>1, <3>1 DEF WholeNode
  <2>3. n \notin WorkloadProblems(l) /\ n.nics[i] \in ToSet(n.nics)
    BY DEF Valid, ToSet
  <2>4. /\ n.nics[i].sw # None => n.nics[i].sw \in IdsOf(l, {"switch"})
        /\ n.nics[i].ext # None => n.nics[i].ext \in IdsOf(l, {"external"})
    BY <2>2, <2>3 DEF WorkloadProblems
  <2> QED  BY <1>4, <2>4
<1>10. \A link \in l.drawn : Present(S, link.from.kind, link.from.id) /\ Present(S, link.to.kind, link.to.id)
  <2> SUFFICES ASSUME NEW link \in l.drawn PROVE Present(S, link.from.kind, link.from.id) /\ Present(S, link.to.kind, link.to.id)
    OBVIOUS
  <2>1. link.from \in UNION {Ends(x) : x \in l.drawn} /\ link.to \in UNION {Ends(x) : x \in l.drawn}
    BY DEF Ends
  <2>2. link.from.id \in IdsOf(l, {link.from.kind}) /\ link.to.id \in IdsOf(l, {link.to.kind})
    BY <2>1 DEF Valid, Undrawn
  <2> QED  BY <1>4, <2>2
<1>11. \A d \in l.disks : d.at = Nowhere \/ Present(S, d.at.kind, d.at.id)
  <2> SUFFICES ASSUME NEW d \in l.disks, d.at # Nowhere PROVE Present(S, d.at.kind, d.at.id)
    OBVIOUS
  <2>1. d \notin DiskProblems(l.disks, {n \in S : n.kind \in Workload})
    BY DEF Valid
  <2>2. PICK w \in {n \in S : n.kind \in Workload} : w.kind = d.at.kind /\ w.id = d.at.id
    BY <2>1 DEF DiskProblems
  <2> QED  BY <2>2 DEF Present
<1>12. Firm(l)
  BY <1>2, <1>3, <1>6 DEF Firm
<1>13. Closed(l)
  BY <1>8, <1>9, <1>10, <1>11 DEF Closed
<1> QED  BY <1>7, <1>12, <1>13 DEF Ready

LEMMA NormalWhole ==
  ASSUME NEW l, WholeLab(l)
  PROVE  WholeLab(Normalize(l))
<1> DEFINE nodes == [i \in DOMAIN l.nodes |-> NormalizedNode(l.nodes[i])]
           m == Normalize(l)
<1>1. m = [l EXCEPT !.nodes = nodes]
  BY DEF Normalize
<1>2. DOMAIN nodes = DOMAIN l.nodes /\ nodes = [i \in DOMAIN nodes |-> nodes[i]] /\ \A i \in DOMAIN nodes : nodes[i] = NormalizedNode(l.nodes[i])
  OBVIOUS
<1> HIDE DEF nodes
<1>3. ASSUME NEW n, WholeNode(n) PROVE WholeNode(NormalizedNode(n))
  <2> DEFINE k == NormalizedNode(n)
  <2>1. IsNode(n)
    BY <1>3 DEF WholeNode
  <2>2. k = [id |-> n.id, name |-> NormalName(n), kind |-> n.kind, mode |-> NormalMode(n), uplinks |-> NormalUplinks(n),
             legacy |-> NormalLegacy(n), nics |-> n.nics, dhcp |-> n.dhcp, desired |-> NormalDesired(n), caps |-> n.caps,
             disk |-> n.disk]
    BY <2>1, NormalizedIs
  <2>3. IsNode(k)
    BY <2>1, NormalizedAgain
  <2> HIDE DEF k
  <2>4. k.kind = n.kind /\ k.nics = n.nics /\ k.caps = n.caps /\ k.uplinks = NormalUplinks(n)
    BY <2>2
  <2>5. n.kind # "switch" => k.uplinks = <<>>
    BY <1>3, <2>4 DEF WholeNode, NormalUplinks
  <2>6. WholeNode(k)
    BY <1>3, <2>3, <2>4, <2>5 DEF WholeNode
  <2> QED  BY <2>6 DEF k
<1>4. \A i \in DOMAIN nodes : WholeNode(nodes[i])
  BY <1>2, <1>3 DEF WholeLab, WholeNodes, ToSet
<1> HIDE DEF m
<1>5. WholeLab(m)
  BY <1>1, <1>2, <1>4, MappedWhole
<1> QED  BY <1>5 DEF m

\* The session asks what Validate asks, and other programs leave whole labs.
OurChecks == \A l : IsLab(l) => Loads(l) = Valid(l)
WholeLabs == ~WholeLab(NoLab) /\ ~WholeLab(Torn) /\ \A l \in HandLabs : l = Torn \/ WholeLab(l)

\* What the session and the file hold are whole labs.
WholeInv ==
  /\ IF phase = "down" THEN cur = NoLab ELSE WholeLab(cur)
  /\ snap # NoLab => WholeLab(snap)
  /\ phase = "rename" => WholeLab(temp)
  /\ file = Torn \/ WholeLab(file)

\* The lab of before an edit is as Normalize leaves it: in the session between
\* edits, in the snapshot during one.
Tidy(l) == Normal(l) = l
Settled ==
  /\ phase \in {"idle", "done"} => Tidy(cur)
  /\ phase \in Busy => snap # NoLab /\ Tidy(snap)

LabsAre == WholeInv /\ Settled /\ SoundInv

LEMMA NormalTidy == ASSUME OurRules, NEW l, WholeLab(l) PROVE WholeLab(Normal(l)) /\ Tidy(Normal(l))
<1>1. IsLab(l) /\ IsLab(Normalize(l)) /\ Normalize(Normalize(l)) = Normalize(l)
  BY NormalizeAgain DEF WholeLab
<1>2. Normal(l) = Normalize(l) /\ Normal(Normalize(l)) = Normalize(l)
  BY <1>1 DEF OurRules
<1> QED  BY <1>2, NormalWhole DEF Tidy

LEMMA FileTidy == ASSUME OurRules, WholeInv, Readable(file) PROVE WholeLab(Normal(file)) /\ Tidy(Normal(file))
BY NormalTidy DEF WholeInv, Readable

LEMMA IdleReady ==
  ASSUME OurRules, OurChecks, LabsAre, phase = "idle"
  PROVE  Ready(cur)
<1>1. WholeLab(cur) /\ IsLab(cur) /\ Normal(cur) = cur /\ Loads(cur)
  BY DEF LabsAre, WholeInv, Settled, Tidy, SoundInv, Sound, Sane, WholeLab
<1>2. Valid(cur) /\ Normalize(cur) = cur
  BY <1>1 DEF OurRules, OurChecks
<1> QED  BY <1>1, <1>2, ValidReady

LEMMA WholeInit == ASSUME OurRules, WholeLabs, SessionInit PROVE WholeInv /\ Settled
<1>1. WholeLab(file)
  BY DEF SessionInit, Readable, WholeLabs
<1>2. WholeLab(Normal(file)) /\ Tidy(Normal(file))
  BY <1>1, NormalTidy
<1> QED  BY <1>1, <1>2 DEF SessionInit, WholeInv, Settled, Busy

LEMMA WholeStep ==
  ASSUME OurRules, WholeLabs, LabsAre,
         (Begin /\ WholeLab(cur')) \/ Save \/ Finish \/ Crash \/ Open \/ HandEdit \/ UNCHANGED sessionVars
  PROVE  WholeInv' /\ Settled'
<1> USE DEF WholeInv, Settled, Busy
<1>0. WholeInv /\ Settled
  BY DEF LabsAre
<1>1. CASE Begin /\ WholeLab(cur')
  <2>1. Sane(cur)
    BY <1>1 DEF LabsAre, SoundInv, Sound, Begin
  <2> QED  BY <1>0, <1>1, <2>1 DEF Begin, Sane, Tidy
<1>2. CASE CreateTemp
  BY <1>0, <1>2 DEF CreateTemp, Tidy
<1>3. CASE WriteTemp
  BY <1>0, <1>3, NormalTidy DEF WriteTemp, Tidy
<1>4. CASE Rename
  BY <1>0, <1>4 DEF Rename, Tidy
<1>5. CASE SaveFails
  BY <1>0, <1>5 DEF SaveFails, AfterFailedSave, Tidy
<1>6. CASE Reload
  BY <1>0, <1>6, FileTidy DEF Reload, Tidy
<1>7. CASE ReloadFails
  BY <1>0, <1>7 DEF ReloadFails, Tidy
<1>8. CASE Finish
  BY <1>0, <1>8 DEF Finish, Tidy
<1>9. CASE Crash
  BY <1>0, <1>9 DEF Crash
<1>10. CASE Open
  BY <1>0, <1>10, FileTidy DEF Open, Tidy
<1>11. CASE HandEdit
  BY <1>0, <1>11 DEF HandEdit, WholeLabs, Tidy
<1>12. CASE UNCHANGED sessionVars
  BY <1>0, <1>12 DEF sessionVars, Tidy
<1> QED  BY <1>1, <1>2, <1>3, <1>4, <1>5, <1>6, <1>7, <1>8, <1>9, <1>10, <1>11, <1>12 DEF Save

\* A step of the program: an edit of a ready lab that changes what it names,
\* or a step of the session.
LEMMA EditSteps ==
  ASSUME OurRules, OurChecks, LabsAre, ModeStages, [ModeNext]_allVars
  PROVE  (Begin /\ EditsOnly) \/ Save \/ Finish \/ Crash \/ Open \/ HandEdit \/ UNCHANGED sessionVars
<1>1. phase = "idle" => Ready(cur)
  BY IdleReady
<1>2. CASE Connects
  <2>1. CASE Begin
    BY <1>1, <1>2, <2>1, ConnectsOnly DEF Begin, vars
  <2>2. CASE UNCHANGED sessionVars
    BY <2>2
  <2> QED  BY <1>2, <2>1, <2>2, ConnectsEdit DEF Edits
<1>3. CASE OtherEdit
  BY <1>1, <1>3, CommandsEdit, CommandsOnly DEF OtherEdit, Edit, Edits
<1>4. CASE Answered \/ Mishaps \/ Saving
  BY <1>4 DEF Answered, Mishaps, Mishap, Saving, Save
<1>5. CASE UNCHANGED allVars
  BY <1>5 DEF allVars, vars
<1> QED  BY <1>2, <1>3, <1>4, <1>5 DEF ModeNext

\* Whatever is edited, with whatever names, in whatever lab that Validate
\* accepts: what the edit does not name says the same before and after, in the
\* new name where a node is renamed (renameNodeID, deleteNIC, SwitchDelete and
\* the other edits of internal/topology).
THEOREM EditsOnlyNamed ==
  ASSUME OurRules, OurChecks, WholeLabs
  PROVE  ModeSpec => OnlyNamed
<1>1. ModeInit => LabsAre /\ ModeStages
  BY WholeInit, SoundInit, StagesInit DEF ModeInit, Init, LabsAre
<1>2. LabsAre /\ ModeStages /\ [SessionNext]_sessionVars /\ [ModeNext]_allVars => LabsAre' /\ ModeStages'
  <2> SUFFICES ASSUME LabsAre, ModeStages, [SessionNext]_sessionVars, [ModeNext]_allVars PROVE LabsAre' /\ ModeStages'
    OBVIOUS
  <2>1. (Begin /\ WholeLab(cur')) \/ Save \/ Finish \/ Crash \/ Open \/ HandEdit \/ UNCHANGED sessionVars
    BY EditSteps DEF EditsOnly
  <2>2. WholeInv' /\ Settled'
    BY <2>1, WholeStep
  <2>3. SoundInv' /\ ModeStages'
    BY SoundStep, StagesStep DEF LabsAre
  <2> QED  BY <2>2, <2>3 DEF LabsAre
<1>3. LabsAre /\ ModeStages /\ [ModeNext]_allVars =>
        [phase = "idle" /\ phase' = "save" =>
           {Carried(f, op'.from, op'.to) : f \in About(cur, op'.names)} = About(cur', op'.names)]_vars
  <2> SUFFICES ASSUME LabsAre, ModeStages, [ModeNext]_allVars, phase = "idle", phase' = "save"
               PROVE  {Carried(f, op'.from, op'.to) : f \in About(cur, op'.names)} = About(cur', op'.names)
    OBVIOUS
  <2>1. (Begin /\ EditsOnly) \/ Save \/ Finish \/ Crash \/ Open \/ HandEdit \/ UNCHANGED sessionVars
    BY EditSteps
  <2>2. EditsOnly
    BY <2>1 DEF Save, CreateTemp, WriteTemp, Rename, SaveFails, Reload, ReloadFails, Finish, Crash, Open, HandEdit, sessionVars
  <2> QED  BY <2>2 DEF EditsOnly
<1> QED  BY <1>1, <1>2, <1>3, EditsSession, PTL DEF ModeSpec, SessionSpec, OnlyNamed
=============================================================================
