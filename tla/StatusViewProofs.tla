-------------------------- MODULE StatusViewProofs --------------------------
(***************************************************************************)
(* The proof that no status shown goes back behind an edit.  The inductive   *)
(* invariant says that nothing was asked for under a revision to come: the   *)
(* status shown was asked for under the session's revision or an earlier     *)
(* one, and so was the read under way.  Current does the rest.               *)
(***************************************************************************)
EXTENDS StatusView, TLAPS

\* What is shown and what was asked for are not of the future.
Asked ==
  /\ revision \in Nat /\ shownFor \in Nat /\ shownFor <= revision
  /\ refresh.for \in Nat /\ refresh.for <= revision

\* Reads, which keep the revision; Sends keeps the one that was asked for.
LEMMA ReadsKeep ==
  ASSUME Asked, Query \/ ReadLiveStatus \/ AskSystemd \/ StartStatusRefresh
  PROVE  Asked' /\ shownFor' = shownFor
<1>1. CASE StartStatusRefresh
  BY <1>1 DEF Asked, StartStatusRefresh, ui
<1>2. CASE Query
  <2>1. refresh'.for = refresh.for
    BY <1>2 DEF Query, Sends
  <2> QED
    BY <1>2, <2>1 DEF Asked, Query, ui
<1>3. CASE ReadLiveStatus
  <2>1. refresh'.for = refresh.for
    BY <1>3 DEF ReadLiveStatus, Sends
  <2> QED
    BY <1>3, <2>1 DEF Asked, ReadLiveStatus, ui
<1>4. CASE AskSystemd
  <2>1. refresh'.for = refresh.for
    BY <1>4 DEF AskSystemd, Sends
  <2> QED
    BY <1>4, <2>1 DEF Asked, AskSystemd, ui
<1> QED
  BY <1>1, <1>2, <1>3, <1>4

\* An answer is shown under the revision of its question, or not at all.
LEMMA ShowsFor ==
  ASSUME NEW r, NEW for, NEW clear, Shows(r, for, clear)
  PROVE  shownFor' \in {shownFor, for}
BY DEF Shows

\* The answer of a read in the background is shown only if it is current.
LEMMA DrainKeeps ==
  ASSUME Asked, DrainStatusUpdates
  PROVE  Asked' /\ shownFor' >= shownFor
<1>1. revision' = revision /\ refresh' = NoRefresh
  BY DEF DrainStatusUpdates, Received
<1>2. shownFor' \in {shownFor, revision}
  BY ShowsFor DEF DrainStatusUpdates, Current, ui
<1> QED
  BY <1>1, <1>2 DEF Asked, NoRefresh

\* A read that the UI waits for is of the revision that it has.
LEMMA RefreshKeeps ==
  ASSUME Asked, RefreshWorkloadStates
  PROVE  Asked' /\ shownFor' >= shownFor
<1>1. revision' = revision /\ refresh' = refresh
  BY DEF RefreshWorkloadStates
<1>2. shownFor' \in {shownFor, revision}
  BY ShowsFor DEF RefreshWorkloadStates
<1> QED
  BY <1>1, <1>2 DEF Asked

\* An edit raises the revision and shows nothing that was asked for since.
LEMMA EditKeeps ==
  ASSUME Asked, Mutate \/ \E w \in Workloads, asked \in {"running", "stopped"} : SetDesired(w, asked)
  PROVE  Asked' /\ shownFor' = shownFor
<1>1. revision' = revision + 1 /\ refresh' = refresh /\ shownFor' = shownFor
  BY DEF Mutate, SetDesired
<1> QED
  BY <1>1 DEF Asked

\* The daemon, its surroundings and systemd touch neither.
LEMMA OthersKeep ==
  ASSUME Asked, ApplyOpenLab \/ Apply \/ PassBegins \/ PassEnds \/ PassFails \/ Leaves \/ Drifts
  PROVE  Asked' /\ shownFor' = shownFor
<1>1. revision' = revision /\ refresh' = refresh /\ shownFor' = shownFor
  BY DEF ApplyOpenLab, Apply, PassBegins, PassEnds, PassFails, Leaves, Drifts, ui
<1> QED
  BY <1>1 DEF Asked

LEMMA StepKeeps ==
  ASSUME Asked, [Next]_vars
  PROVE  Asked' /\ shownFor' >= shownFor
<1>1. CASE Reads
  BY <1>1, ReadsKeep, DrainKeeps DEF Reads, Asked
<1>2. CASE Thread
  BY <1>2, OthersKeep, RefreshKeeps DEF Thread, Asked
<1>3. CASE Mutate \/ \E w \in Workloads, asked \in {"running", "stopped"} : SetDesired(w, asked)
  BY <1>3, EditKeeps DEF Asked
<1>4. CASE ApplyOpenLab \/ PassBegins \/ PassEnds \/ PassFails \/ Leaves \/ Drifts
  BY <1>4, OthersKeep DEF Asked
<1>5. CASE UNCHANGED vars
  BY <1>5 DEF vars, ui, Asked
<1> QED
  BY <1>1, <1>2, <1>3, <1>4, <1>5 DEF Next

\* A status that was asked for before an edit never replaces one that was
\* asked for after it: drainStatusUpdates compares the revisions, and only the
\* UI's thread, which shows the states, raises the session's.
THEOREM NeverGoesBack == Spec => NeverBack
<1>1. Init => Asked
  BY DEF Init, NoRefresh, Asked
<1>2. Asked /\ [Next]_vars => Asked'
  BY StepKeeps
<1>3. Asked /\ [Next]_vars => [shownFor' >= shownFor]_vars
  BY StepKeeps
<1> QED
  BY <1>1, <1>2, <1>3, PTL DEF Spec, NeverBack
=============================================================================
