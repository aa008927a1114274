------------------------------ MODULE FileStore ------------------------------
(***************************************************************************)
(* internal/store/store.go: one JSON file per tunnel record.  A record is  *)
(* written to a temporary file, synced, renamed over its file, and the     *)
(* directory is synced; a deletion removes the file and syncs.  When the   *)
(* directory sync fails the previous content is put back the same way.     *)
(*                                                                         *)
(* FileStore.mu is held for a whole operation, so that at most one is      *)
(* under way and a reader never sees its inside; a crash does.  Between    *)
(* two directory syncs a journaling filesystem keeps renames and unlinks   *)
(* in order, so a crash leaves the directory as it was after one of them;  *)
(* a file renamed before its data was synced may come back torn.           *)
(*                                                                         *)
(* Abstracted: a record is its generation and its name, which stands for   *)
(* everything checkNamesLocked keeps unique.  The SRv6 program cache that  *)
(* Delete removes first is left out, its failure is DeleteRefused.         *)
(***************************************************************************)
EXTENDS Naturals

CONSTANTS
  Ids, Names, MaxRecords, MaxGen, None,   \* as in RecordStore
  Torn,         \* the content of a file whose data never reached the disk
  MaxFault,     \* bound: failing system calls
  MaxCrash      \* bound: crashes of the machine

VARIABLES
  dir,       \* the directory, as the running system sees it
  durable,   \* the directories a crash may leave
  tmp,       \* the temporary file: "none", "written" or "synced"
  pc,        \* where the operation under way is
  arg,       \* the operation under way
  result,    \* of the last operation: "ok", "refused" or "doubt" (history)
  before,    \* the directory when that operation began (history)
  faults, crashes   \* what is left of the bounds

memory == <<result, before>>
vars == <<dir, durable, tmp, pc, arg, memory, faults, crashes>>

\* The map readers see: what an operation has changed is hidden by the mutex.
Visible == IF pc = "idle" THEN dir ELSE before

\* The maps a crash may leave instead.
Doubts == IF pc = "idle" THEN durable \ {dir} ELSE arg.doubts

Abstract == INSTANCE RecordStore WITH records <- Visible, doubts <- Doubts

Record == Abstract!Record

ASSUME FileStoreAssumption ==
  /\ MaxRecords \in Nat /\ MaxGen \in Nat \ {0}
  /\ MaxFault \in Nat /\ MaxCrash \in Nat
  /\ {None, Torn} \cap Record = {} /\ Torn # None

-----------------------------------------------------------------------------
\* The operation under way: the record, its new and its previous content, and
\* the directories that were in doubt when it began.
Begin(id, new, first) ==
  /\ pc = "idle"
  /\ pc' = first
  /\ arg' = [id |-> id, new |-> new, prev |-> dir[id], doubts |-> durable \ {dir}]
  /\ before' = dir
  /\ UNCHANGED <<dir, durable, tmp, result, faults, crashes>>

CreateRecord(id, name) ==
  /\ dir[id] = None
  /\ Abstract!Room(dir)
  /\ Abstract!NameFree(dir, id, name)
  /\ Begin(id, [gen |-> 1, name |-> name], "temp")

\* Fault: the caller's generation is not compared with the stored one.
UpdateUnchecked(id, name, expected) ==
  /\ dir[id] # None
  /\ expected < MaxGen
  /\ Abstract!NameFree(dir, id, name)
  /\ Begin(id, [gen |-> expected + 1, name |-> name], "temp")

UpdateRecord(id, name, expected) ==
  /\ dir[id] # None
  /\ dir[id].gen = expected /\ expected < MaxGen
  /\ Abstract!NameFree(dir, id, name)
  /\ Begin(id, [gen |-> expected + 1, name |-> name], "temp")

DeleteRecord(id, expected) ==
  /\ dir[id] # None
  /\ dir[id].gen = expected
  /\ Begin(id, None, "unlink")

Return(r) == pc' = "idle" /\ result' = r /\ UNCHANGED <<arg, before>>
Goto(next) == pc' = next /\ UNCHANGED <<arg, memory>>
Fault == faults > 0 /\ faults' = faults - 1 /\ UNCHANGED crashes

\* Fault: the temporary file is renamed without having been synced.
WriteTempUnsynced ==
  /\ pc \in {"temp", "redoTemp"}
  /\ tmp' = "written"
  /\ Goto(IF pc = "temp" THEN "rename" ELSE "redoRename")
  /\ UNCHANGED <<dir, durable, faults, crashes>>

\* replaceRecordLocked up to the rename; "redo" steps put the previous record back.
WriteTemp ==
  /\ pc \in {"temp", "redoTemp"}
  /\ tmp' = "synced"
  /\ Goto(IF pc = "temp" THEN "rename" ELSE "redoRename")
  /\ UNCHANGED <<dir, durable, faults, crashes>>

\* Either of its steps fails before the rename: nothing has changed, or the
\* previous record could not be put back.
ReplaceFails ==
  /\ pc \in {"temp", "rename", "redoTemp", "redoRename"}
  /\ Fault
  /\ tmp' = "none"
  /\ Return(IF pc \in {"temp", "rename"} THEN "refused" ELSE "doubt")
  /\ UNCHANGED <<dir, durable>>

\* A directory operation takes effect at once, on disk with the next sync.
Change(content) ==
  /\ dir' = [dir EXCEPT ![arg.id] = content]
  /\ durable' = durable \cup {dir'}
       \cup (IF tmp = "written" THEN {[dir EXCEPT ![arg.id] = Torn]} ELSE {})
  /\ tmp' = "none"

Rename ==
  /\ pc \in {"rename", "redoRename"}
  /\ Change(IF pc = "rename" THEN arg.new ELSE arg.prev)
  /\ Goto(IF pc = "rename" THEN "sync" ELSE "redoSync")
  /\ UNCHANGED <<faults, crashes>>

\* os.Remove, of a deleted record or of a created one that is rolled back.
Unlink ==
  /\ pc \in {"unlink", "redoUnlink"}
  /\ Change(None)
  /\ Goto(IF pc = "unlink" THEN "sync" ELSE "redoSync")
  /\ UNCHANGED <<faults, crashes>>

UnlinkFails ==
  /\ pc \in {"unlink", "redoUnlink"}
  /\ Fault
  /\ Return(IF pc = "unlink" THEN "refused" ELSE "doubt")
  /\ UNCHANGED <<dir, durable, tmp>>

\* Fault: success is reported without a directory sync.
SyncSkipped ==
  /\ pc \in {"sync", "redoSync"}
  /\ Return(IF pc = "sync" THEN "ok" ELSE "refused")
  /\ UNCHANGED <<dir, durable, tmp, faults, crashes>>

SyncDirectory ==
  /\ pc \in {"sync", "redoSync"}
  /\ durable' = {dir}
  /\ Return(IF pc = "sync" THEN "ok" ELSE "refused")
  /\ UNCHANGED <<dir, tmp, faults, crashes>>

\* The first failure starts the rollback, a second one ends it.
SyncFails ==
  /\ pc \in {"sync", "redoSync"}
  /\ Fault
  /\ IF pc = "redoSync" THEN Return("doubt")
     ELSE Goto(IF arg.prev = None THEN "redoUnlink" ELSE "redoTemp")
  /\ UNCHANGED <<dir, durable, tmp>>

\* A crash, and the daemon started again: Open reads what is there.
Crash ==
  /\ crashes > 0
  /\ crashes' = crashes - 1
  /\ dir' \in durable
  /\ durable' = {dir'}
  /\ tmp' = "none"
  /\ pc' = "idle" /\ result' = "doubt"
  /\ UNCHANGED <<arg, before, faults>>

-----------------------------------------------------------------------------
NoOperation == [id |-> None, new |-> None, prev |-> None, doubts |-> {}]

Init ==
  /\ dir = [id \in Ids |-> None]
  /\ durable = {dir}
  /\ tmp = "none"
  /\ pc = "idle"
  /\ arg = NoOperation
  /\ result = "ok" /\ before = dir
  /\ faults = MaxFault /\ crashes = MaxCrash

Operation ==
  \/ \E id \in Ids, name \in Names : CreateRecord(id, name)
  \/ \E id \in Ids, name \in Names, expected \in 1..MaxGen : UpdateRecord(id, name, expected)
  \/ \E id \in Ids, expected \in 1..MaxGen : DeleteRecord(id, expected)

Next ==
  \/ Operation
  \/ WriteTemp \/ ReplaceFails \/ Rename \/ Unlink \/ UnlinkFails
  \/ SyncDirectory \/ SyncFails
  \/ Crash

Spec == Init /\ [][Next]_vars

-----------------------------------------------------------------------------
(* Properties.                                                             *)

Directory == [Ids -> Record \cup {None}]

TypeOK ==
  /\ dir \in Directory
  /\ durable \subseteq [Ids -> Record \cup {None, Torn}]
  /\ tmp \in {"none", "written", "synced"}
  /\ pc \in {"idle", "temp", "rename", "unlink", "sync",
             "redoTemp", "redoRename", "redoUnlink", "redoSync"}
  /\ result \in {"ok", "refused", "doubt"}
  /\ before \in Directory
  /\ faults \in Nat /\ crashes \in Nat

\* Whatever instant the machine stops at, the daemon starts again from whole
\* records of which no two claim the same name: an update that frees a name and
\* the one that takes it never come back together (checkNamesLocked, writeLocked).
CrashConsistent == \A d \in durable : d \in Directory /\ Abstract!Unique(d)

\* A change that was acknowledged survives a crash; one that was refused is not
\* there, and no crash brings it back (the rollback is made durable as well).
Acknowledged ==
  pc = "idle" =>
    /\ result = "ok" => durable = {dir}
    /\ result = "refused" => dir = before /\ durable \subseteq {dir} \cup arg.doubts

\* The files implement the map the Manager relies on.
ImplementsRecordStore == Abstract!Spec
=============================================================================
