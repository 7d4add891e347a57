----------------------------- MODULE LabSession -----------------------------
(***************************************************************************)
(* The session that owns the loaded lab (internal/lab, session.go and       *)
(* io.go) and the transactions on it (internal/topology, transaction.go).   *)
(* An edit changes the lab in memory, which is then written beside the      *)
(* file, renamed over it and read back; on any failure the lab of before    *)
(* the edit comes back.  What an edit does is left open: Begin does not say *)
(* what cur becomes, so LabEdits and DiskOps each implement this module.    *)
(***************************************************************************)
CONSTANTS
  Loads(_),    \* Validate finds nothing wrong with a normalised lab
  Normal(_),   \* what Normalize makes of a lab
  HandLabs,    \* what other programs may leave in the lab file
  Torn,        \* a file that was written in part
  NoLab        \* no lab, or no file

VARIABLES
  file,    \* the lab file
  temp,    \* the file that is written beside it
  cur,     \* Session.current
  snap,    \* the labMutation's snapshot, NoLab outside a transaction
  was,     \* file and cur when the edit began; another program may change the file since
  phase,   \* where the save is: idle, save, write, rename, reload, done; down without a process
  result   \* of the last save: ok, refused, or unread when it could not be read back

sessionVars == <<file, temp, cur, snap, was, phase, result>>

\* A lab that SaveFile would write and LoadFile accept.
Sane(l) == l # NoLab /\ Loads(l)
Readable(f) == f # Torn /\ Sane(Normal(f))

SessionInit ==
  /\ file \in HandLabs /\ Readable(file)
  /\ cur = Normal(file) /\ was = [file |-> file, cur |-> cur]
  /\ temp = NoLab /\ snap = NoLab
  /\ phase = "idle" /\ result = "ok"

\* Mutant: the snapshot shares the lab's slices instead of cloning them.
BeginAliased ==
  /\ phase = "idle" /\ phase' = "save"
  /\ snap' = cur' /\ was' = [file |-> file, cur |-> cur]
  /\ UNCHANGED <<file, temp, result>>

\* beginLabMutation and the change that follows it, up to Commit.
Begin ==
  /\ phase = "idle" /\ phase' = "save"
  /\ snap' = cur /\ was' = [file |-> file, cur |-> cur]
  /\ UNCHANGED <<file, temp, result>>

\* SaveAndRefresh outside a transaction, of a lab that the session held before.
SaveAgain ==
  /\ phase = "idle" /\ phase' = "save" /\ Sane(cur')
  /\ snap' = NoLab /\ was' = [file |-> file, cur |-> cur]
  /\ UNCHANGED <<file, temp, result>>

\* Mutant: the lab file itself is truncated and written.
CreateTempInPlace ==
  /\ phase = "save" /\ Sane(Normal(cur))
  /\ temp' = Torn /\ file' = Torn /\ phase' = "write"
  /\ UNCHANGED <<cur, snap, was, result>>

\* SaveFile up to the temporary file: a lab that is not valid is never written.
CreateTemp ==
  /\ phase = "save" /\ Sane(Normal(cur))
  /\ temp' = Torn /\ phase' = "write"
  /\ UNCHANGED <<file, cur, snap, was, result>>

WriteTemp ==
  /\ phase = "write"
  /\ temp' = Normal(cur) /\ phase' = "rename"
  /\ UNCHANGED <<file, cur, snap, was, result>>

Rename ==
  /\ phase = "rename"
  /\ file' = temp /\ temp' = NoLab /\ phase' = "reload"
  /\ UNCHANGED <<cur, snap, was, result>>

\* Mutant: a failed edit stays in memory.
AfterFailedSaveKeeps == cur

\* What a failed save leaves in memory: Rollback's snapshot, or, outside a
\* transaction, what can be read from the file.
AfterFailedSave ==
  IF snap # NoLab THEN snap
  ELSE IF Readable(file) THEN Normal(file) ELSE cur

\* Mutant: the temporary file of a failed save is left behind.
SaveFailsLeaks ==
  /\ phase \in {"save", "write", "rename"}
  /\ cur' = AfterFailedSave
  /\ phase' = "done" /\ result' = "refused"
  /\ UNCHANGED <<file, temp, snap, was>>

\* The lab is not valid, or a system call fails; the temporary file is removed.
SaveFails ==
  /\ phase \in {"save", "write", "rename"}
  /\ temp' = NoLab /\ cur' = AfterFailedSave
  /\ phase' = "done" /\ result' = "refused"
  /\ UNCHANGED <<file, snap, was>>

Reload ==
  /\ phase = "reload" /\ Readable(file)
  /\ cur' = Normal(file)
  /\ phase' = "done" /\ result' = "ok"
  /\ UNCHANGED <<file, temp, snap, was>>

\* The file cannot be opened or read, or another program has spoilt it.
ReloadFails ==
  /\ phase = "reload"
  /\ cur' = IF snap = NoLab THEN cur ELSE snap
  /\ phase' = "done" /\ result' = "unread"
  /\ UNCHANGED <<file, temp, snap, was>>

\* The handler has its answer and ends.
Finish ==
  /\ phase = "done" /\ phase' = "idle" /\ snap' = NoLab
  /\ result' = "ok" /\ was' = [file |-> file, cur |-> cur]
  /\ UNCHANGED <<file, temp, cur>>

Save == CreateTemp \/ WriteTemp \/ Rename \/ SaveFails \/ Reload \/ ReloadFails

\* The program is killed, and started again on the file.
Crash ==
  /\ phase # "down" /\ phase' = "down"
  /\ temp' = NoLab /\ cur' = NoLab /\ snap' = NoLab
  /\ result' = "ok" /\ was' = [file |-> file, cur |-> NoLab]
  /\ UNCHANGED file

Open ==
  /\ phase = "down" /\ Readable(file)
  /\ cur' = Normal(file) /\ phase' = "idle"
  /\ was' = [file |-> file, cur |-> cur']
  /\ UNCHANGED <<file, temp, snap, result>>

\* An editor, or another foxlab, replaces the file.
HandEdit ==
  /\ \E l \in HandLabs : file' = l
  /\ was' = [was EXCEPT !.file = file']
  /\ UNCHANGED <<temp, cur, snap, phase, result>>

SessionNext == Begin \/ SaveAgain \/ Save \/ Finish \/ Crash \/ Open \/ HandEdit

SessionSpec == SessionInit /\ [][SessionNext]_sessionVars

-----------------------------------------------------------------------------
(* Properties *)

\* Between edits the session holds a lab that Validate accepts, whatever an
\* edit made of it and wherever its save failed.
Sound == phase \in {"idle", "done"} => Sane(cur)

\* What is in the lab file can be read, by the daemon too, at every moment of
\* a save: only another program can spoil it.
FileReads == file \in HandLabs \/ Readable(file)

\* An edit that fails takes back everything and one that succeeds is what the
\* file holds; only a lab that was saved and not read back is in the file
\* while the session holds the one before.
AllOrNothing ==
  [][phase # "done" /\ phase' = "done" =>
       /\ result' = "ok" => cur' = Normal(file')
       /\ result' = "refused" => file' = was.file /\ (snap # NoLab => cur' = was.cur)
       /\ result' = "unread" /\ snap # NoLab => cur' = was.cur]_sessionVars
=============================================================================
