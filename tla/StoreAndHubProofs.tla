-------------------------- MODULE StoreAndHubProofs --------------------------
(***************************************************************************)
(* Proofs about FileStore and about EventHub, two components that share    *)
(* nothing.                                                                *)
(*                                                                         *)
(* FileStore, for every set of ids and names and every bound: type         *)
(* correctness, CrashConsistent, Acknowledged, and that the files          *)
(* implement RecordStore.  They rest on one invariant: at every step of an *)
(* operation the disk may hold the directory from before it, the one after *)
(* it, and those that were in doubt when it began, and no other.           *)
(*                                                                         *)
(* EventHub, for every set of clients, every capacity and every bound:     *)
(* Delivered.  Its invariant says of each client that the items on its way *)
(* rise, come after what it received, and close up to what it knows.       *)
(***************************************************************************)
EXTENDS FileStore, EventHub, FiniteSetTheorems, SequenceTheorems, WellFoundedInduction, TLAPS

-----------------------------------------------------------------------------
(* FileStore.                                                              *)

Unique(m) == Abstract!Unique(m)

\* The directory when the operation under way succeeds.
Result == [before EXCEPT ![arg.id] = arg.new]

Good(d) == d \in Directory /\ Unique(d)

Undone == {"temp", "rename", "unlink"}
Done == {"sync", "redoTemp", "redoRename", "redoUnlink"}

\* The operation under way is a valid one of the map it found.
Valid ==
  /\ arg.id \in Ids
  /\ arg.new \in Record \cup {None} /\ arg.prev = before[arg.id]
  /\ Good(before) /\ Good(Result)
  /\ Result \in Abstract!Successors(before)
  /\ before \notin arg.doubts
  /\ \A d \in arg.doubts : Good(d)

\* How far it is, and what may be on disk by then.
Progress ==
  /\ pc \in Undone => dir = before /\ durable = {before} \cup arg.doubts
  /\ pc \in Done => dir = Result /\ durable = {before, Result} \cup arg.doubts
  /\ pc = "redoSync" => dir = before /\ durable = {before, Result} \cup arg.doubts

\* A rollback by renaming has a record to put back, one by removing has none.
Rollback ==
  /\ pc = "unlink" => arg.new = None
  /\ pc \in {"redoTemp", "redoRename"} => arg.prev # None
  /\ pc = "redoUnlink" => arg.prev = None

IInv ==
  /\ TypeOK /\ CrashConsistent /\ Acknowledged
  /\ dir \in durable
  /\ tmp # "written"
  /\ pc # "idle" => Valid /\ Progress /\ Rollback

-----------------------------------------------------------------------------
(* The map.                                                                *)

LEMMA PutUnique ==
  ASSUME NEW m \in Directory, Unique(m), NEW id \in Ids, NEW rec \in Record,
         Abstract!NameFree(m, id, rec.name)
  PROVE  [m EXCEPT ![id] = rec] \in Directory /\ Unique([m EXCEPT ![id] = rec])
<1> DEFINE d == [m EXCEPT ![id] = rec]
<1>1. d \in Directory
  BY DEF Directory
<1>2. Abstract!Stored(d) \subseteq Abstract!Stored(m) \cup {id}
  BY DEF Directory, Abstract!Stored
<1>3. \A i \in Abstract!Stored(d) \ {id} : d[i] = m[i] /\ d[i].name # rec.name
  BY <1>2 DEF Directory, Abstract!Stored, Abstract!NameFree
<1>4. d[id] = rec
  BY DEF Directory
<1> QED
  BY <1>1, <1>2, <1>3, <1>4 DEF Unique, Abstract!Unique

LEMMA RemoveUnique ==
  ASSUME NEW m \in Directory, Unique(m), NEW id \in Ids
  PROVE  [m EXCEPT ![id] = None] \in Directory /\ Unique([m EXCEPT ![id] = None])
<1> DEFINE d == [m EXCEPT ![id] = None]
<1>1. d \in Directory
  BY DEF Directory
<1>2. \A i \in Abstract!Stored(d) : i \in Abstract!Stored(m) /\ d[i] = m[i]
  BY DEF Directory, Abstract!Stored
<1> QED
  BY <1>1, <1>2 DEF Unique, Abstract!Unique

\* The guards of an operation make its result one of the valid maps.
LEMMA CreatedMap ==
  ASSUME NEW m \in Directory, NEW id \in Ids, NEW name \in Names, m[id] = None,
         Abstract!Room(m), Abstract!NameFree(m, id, name)
  PROVE  [m EXCEPT ![id] = [gen |-> 1, name |-> name]] \in Abstract!Successors(m)
BY DEF Abstract!Successors, Abstract!Created, Abstract!Put

LEMMA UpdatedMap ==
  ASSUME NEW m \in Directory, NEW id \in Ids, NEW name \in Names, m[id] # None,
         m[id].gen < MaxGen, Abstract!NameFree(m, id, name)
  PROVE  [m EXCEPT ![id] = [gen |-> m[id].gen + 1, name |-> name]] \in Abstract!Successors(m)
BY DEF Abstract!Successors, Abstract!Updated, Abstract!Put, Abstract!Stored

LEMMA DeletedMap ==
  ASSUME NEW m \in Directory, NEW id \in Ids, m[id] # None
  PROVE  [m EXCEPT ![id] = None] \in Abstract!Successors(m)
BY DEF Abstract!Successors, Abstract!Deleted, Abstract!Put, Abstract!Stored

-----------------------------------------------------------------------------
(* The steps of an operation.                                              *)

LEMMA BeginInv ==
  ASSUME IInv, NEW id \in Ids, NEW new \in Record \cup {None}, NEW first \in {"temp", "unlink"},
         first = "unlink" => new = None,
         Good([dir EXCEPT ![id] = new]),
         [dir EXCEPT ![id] = new] \in Abstract!Successors(dir),
         Begin(id, new, first)
  PROVE  IInv'
<1>1. Valid'
  BY DEF IInv, TypeOK, CrashConsistent, Begin, Valid, Good, Result, Unique
<1>2. Progress' /\ Rollback'
  BY DEF IInv, Begin, Progress, Rollback, Undone, Done
<1>3. TypeOK' /\ CrashConsistent' /\ Acknowledged'
  BY DEF IInv, TypeOK, CrashConsistent, Acknowledged, Begin
<1> QED
  BY <1>1, <1>2, <1>3 DEF IInv, Begin

LEMMA OperationInv == ASSUME IInv, Operation PROVE IInv'
<1> dir \in Directory /\ Unique(dir)
  BY DEF IInv, TypeOK, CrashConsistent, Unique
<1>1. ASSUME NEW id \in Ids, NEW name \in Names, CreateRecord(id, name) PROVE IInv'
  <2> DEFINE rec == [gen |-> 1, name |-> name]
  <2>1. rec \in Record
    BY FileStoreAssumption DEF Record, Abstract!Record
  <2>2. Good([dir EXCEPT ![id] = rec])
    BY <1>1, <2>1, PutUnique DEF CreateRecord, Good
  <2>3. [dir EXCEPT ![id] = rec] \in Abstract!Successors(dir)
    BY <1>1, CreatedMap DEF CreateRecord
  <2> QED
    BY <1>1, <2>1, <2>2, <2>3, BeginInv DEF CreateRecord
<1>2. ASSUME NEW id \in Ids, NEW name \in Names, NEW expected \in 1..MaxGen,
             UpdateRecord(id, name, expected)
      PROVE  IInv'
  <2> DEFINE rec == [gen |-> expected + 1, name |-> name]
  <2>1. rec \in Record
    BY <1>2, FileStoreAssumption DEF Record, Abstract!Record, UpdateRecord
  <2>2. Good([dir EXCEPT ![id] = rec])
    BY <1>2, <2>1, PutUnique DEF UpdateRecord, Good
  <2>3. [dir EXCEPT ![id] = rec] \in Abstract!Successors(dir)
    BY <1>2, UpdatedMap DEF UpdateRecord
  <2> QED
    BY <1>2, <2>1, <2>2, <2>3, BeginInv DEF UpdateRecord
<1>3. ASSUME NEW id \in Ids, NEW expected \in 1..MaxGen, DeleteRecord(id, expected) PROVE IInv'
  <2>1. Good([dir EXCEPT ![id] = None])
    BY RemoveUnique DEF Good
  <2>2. [dir EXCEPT ![id] = None] \in Abstract!Successors(dir)
    BY <1>3, DeletedMap DEF DeleteRecord
  <2> QED
    BY <1>3, <2>1, <2>2, BeginInv DEF DeleteRecord
<1> QED
  BY <1>1, <1>2, <1>3 DEF Operation

\* Everything that may be on disk before, during and after an operation is good.
LEMMA GoodDurable ==
  ASSUME IInv, pc # "idle"
  PROVE  /\ Good(before) /\ Good(Result) /\ Good(dir)
         /\ \A d \in durable : Good(d)
         /\ durable \subseteq {before, Result} \cup arg.doubts
BY DEF IInv, TypeOK, CrashConsistent, Valid, Progress, Good, Unique, Undone, Done

LEMMA WriteTempInv == ASSUME IInv, WriteTemp PROVE IInv'
<1>1. Valid' /\ Progress' /\ Rollback'
  BY DEF IInv, Valid, Good, Unique, Result, Progress, Rollback, Undone, Done, WriteTemp, Goto, memory
<1> QED
  BY <1>1 DEF IInv, TypeOK, CrashConsistent, Acknowledged, WriteTemp, Goto, memory

LEMMA ReplaceFailsInv == ASSUME IInv, ReplaceFails PROVE IInv'
<1>1. TypeOK' /\ CrashConsistent'
  BY DEF IInv, TypeOK, CrashConsistent, ReplaceFails, Return, Fault
<1>2. Acknowledged'
  BY DEF IInv, Acknowledged, Valid, Progress, Undone, ReplaceFails, Return
<1> QED
  BY <1>1, <1>2 DEF IInv, ReplaceFails, Return

\* Renaming the new record or removing the old one leads to the result.
LEMMA ChangeInv ==
  ASSUME IInv, NEW content \in Record \cup {None}, Change(content),
         \/ (pc \in Undone /\ content = arg.new /\ pc' = "sync")
         \/ (pc \in Done /\ content = arg.prev /\ pc' = "redoSync"),
         UNCHANGED <<arg, memory, faults, crashes>>
  PROVE  IInv'
<1> USE DEF memory
<1>1. pc \in Undone => dir' = Result
  BY DEF IInv, Progress, Change, Result, Undone, Done
<1>2. pc \in Done => dir' = before
  BY DEF IInv, TypeOK, Valid, Progress, Change, Result, Undone, Done, Directory
<1>3. durable' = {before, Result} \cup arg.doubts
  BY <1>1, <1>2 DEF IInv, Progress, Change, Undone, Done
<1>4. Valid' /\ Progress' /\ Rollback'
  BY <1>1, <1>2, <1>3 DEF IInv, Valid, Good, Unique, Result, Progress, Rollback, Undone, Done
<1>5. Good(dir') /\ \A d \in durable' : Good(d)
  BY <1>1, <1>2, <1>3 DEF IInv, Valid, Undone, Done
<1>6. TypeOK' /\ CrashConsistent' /\ Acknowledged'
  BY <1>5 DEF IInv, TypeOK, CrashConsistent, Acknowledged, Good, Unique, Change, Directory
<1> QED
  BY <1>4, <1>6, <1>3, <1>1, <1>2 DEF IInv, Change, Undone, Done

LEMMA RenameInv == ASSUME IInv, Rename PROVE IInv'
<1>1. arg.new \in Record \cup {None} /\ arg.prev \in Record \cup {None}
  BY DEF IInv, Valid, Good, Directory, Rename
<1>2. CASE pc = "rename"
  <2>1. pc \in Undone /\ pc' = "sync" /\ Change(arg.new) /\ UNCHANGED <<arg, memory, faults, crashes>>
    BY <1>2 DEF Rename, Goto, Undone
  <2> QED
    BY <1>1, <2>1, ChangeInv
<1>3. CASE pc = "redoRename"
  BY <1>1, <1>3, ChangeInv DEF Rename, Goto, Done
<1> QED
  BY <1>2, <1>3 DEF Rename

LEMMA UnlinkInv == ASSUME IInv, Unlink PROVE IInv'
<1>1. CASE pc = "unlink"
  <2>1. pc \in Undone /\ pc' = "sync" /\ Change(None) /\ UNCHANGED <<arg, memory, faults, crashes>>
    BY <1>1 DEF Unlink, Goto, Undone
  <2>2. arg.new = None
    BY <1>1 DEF IInv, Rollback
  <2> QED
    BY <2>1, <2>2, ChangeInv
<1>2. CASE pc = "redoUnlink"
  BY <1>2, ChangeInv DEF Unlink, Goto, Done, IInv, Rollback
<1> QED
  BY <1>1, <1>2 DEF Unlink

LEMMA UnlinkFailsInv == ASSUME IInv, UnlinkFails PROVE IInv'
<1>1. TypeOK' /\ CrashConsistent'
  BY DEF IInv, TypeOK, CrashConsistent, UnlinkFails, Return, Fault
<1>2. Acknowledged'
  BY DEF IInv, Acknowledged, Valid, Progress, Undone, UnlinkFails, Return
<1> QED
  BY <1>1, <1>2 DEF IInv, UnlinkFails, Return

LEMMA SyncDirectoryInv == ASSUME IInv, SyncDirectory PROVE IInv'
<1>1. Good(dir)
  BY GoodDurable DEF SyncDirectory
<1>2. TypeOK' /\ CrashConsistent'
  BY <1>1 DEF IInv, TypeOK, CrashConsistent, Good, Unique, Directory, SyncDirectory, Return
<1>3. Acknowledged'
  BY DEF IInv, Acknowledged, Progress, SyncDirectory, Return
<1> QED
  BY <1>2, <1>3 DEF IInv, SyncDirectory, Return

LEMMA SyncFailsInv == ASSUME IInv, SyncFails PROVE IInv'
<1>1. TypeOK' /\ CrashConsistent' /\ Acknowledged'
  BY DEF IInv, TypeOK, CrashConsistent, Acknowledged, SyncFails, Return, Goto, Fault, memory
<1>2. CASE pc = "redoSync"
  BY <1>1, <1>2 DEF IInv, SyncFails, Return
<1>3. CASE pc = "sync"
  <2>1. Valid' /\ Progress' /\ Rollback'
    BY <1>3 DEF IInv, Valid, Good, Unique, Result, Progress, Rollback, Undone, Done, SyncFails, Goto, memory
  <2> QED
    BY <1>1, <1>3, <2>1 DEF IInv, SyncFails
<1> QED
  BY <1>2, <1>3 DEF SyncFails

LEMMA CrashInv == ASSUME IInv, Crash PROVE IInv'
<1>1. Good(dir')
  BY DEF IInv, CrashConsistent, Crash, Good, Unique
<1>2. TypeOK' /\ CrashConsistent' /\ Acknowledged'
  BY <1>1 DEF IInv, TypeOK, CrashConsistent, Acknowledged, Good, Unique, Directory, Crash
<1> QED
  BY <1>2 DEF IInv, Crash

-----------------------------------------------------------------------------
(* Safety.                                                                 *)

LEMMA InitInv == Init => IInv
<1> SUFFICES ASSUME Init PROVE IInv
  OBVIOUS
<1>1. Good(dir)
  BY DEF Init, Good, Directory, Unique, Abstract!Unique, Abstract!Stored
<1> QED
  BY <1>1, FileStoreAssumption
  DEF Init, IInv, TypeOK, CrashConsistent, Acknowledged, Good, Unique, Directory, NoOperation

LEMMA InductiveInv == IInv /\ [Next]_vars => IInv'
<1> SUFFICES ASSUME IInv, [Next]_vars PROVE IInv'
  OBVIOUS
<1>1. CASE UNCHANGED vars
  BY <1>1 DEF IInv, TypeOK, CrashConsistent, Acknowledged, Valid, Good, Unique, Result,
              Progress, Rollback, vars, memory
<1>2. CASE Next
  BY <1>2, OperationInv, WriteTempInv, ReplaceFailsInv, RenameInv, UnlinkInv, UnlinkFailsInv,
     SyncDirectoryInv, SyncFailsInv, CrashInv
  DEF Next
<1> QED
  BY <1>1, <1>2

LEMMA Invariant == Spec => []IInv
  BY InitInv, InductiveInv, PTL DEF Spec

\* Every variable keeps its type, through failures, rollbacks and crashes.
THEOREM TypeCorrect == Spec => []TypeOK
<1>1. IInv => TypeOK
  BY DEF IInv
<1> QED
  BY Invariant, <1>1, PTL

\* At whatever instant the machine stops, what is on disk are whole records of
\* which no two have the same name (writeLocked, checkNamesLocked).
THEOREM CrashConsistentCorrect == Spec => []CrashConsistent
<1>1. IInv => CrashConsistent
  BY DEF IInv
<1> QED
  BY Invariant, <1>1, PTL

\* What the store reports of an operation is what a crash leaves of it
\* (writeLocked, rollbackWriteLocked, Delete).
THEOREM AcknowledgedCorrect == Spec => []Acknowledged
<1>1. IInv => Acknowledged
  BY DEF IInv
<1> QED
  BY Invariant, <1>1, PTL

-----------------------------------------------------------------------------
(* Refinement: what a step of the files is to the map.                     *)

\* Steps inside an operation are hidden by the mutex.
LEMMA Hidden ==
  ASSUME IInv, pc # "idle", pc' # "idle", UNCHANGED <<arg, before>>
  PROVE  UNCHANGED <<Visible, Doubts>>
BY DEF Visible, Doubts

LEMMA BeginHidden ==
  ASSUME IInv, Operation
  PROVE  UNCHANGED <<Visible, Doubts>>
<1>1. PICK id, new, first : Begin(id, new, first) /\ first \in {"temp", "unlink"}
  BY DEF Operation, CreateRecord, UpdateRecord, DeleteRecord
<1>2. pc = "idle" /\ pc' # "idle" /\ before' = dir /\ arg'.doubts = durable \ {dir}
  BY <1>1 DEF Begin
<1> QED
  BY <1>2 DEF Visible, Doubts

\* A rollback that fails leaves the operation done, or undone but not on disk.
LEMMA DoubtWavers ==
  ASSUME IInv, pc \in {"redoTemp", "redoRename", "redoUnlink", "redoSync"},
         pc' = "idle", UNCHANGED <<dir, durable>>
  PROVE  Abstract!Waver
<1>1. Visible = before /\ Doubts = arg.doubts /\ Visible' = dir /\ Doubts' = durable \ {dir}
  BY DEF Visible, Doubts
<1>2. dir \in {before, Result} /\ durable = {before, Result} \cup arg.doubts
  BY DEF IInv, Progress, Done
<1>3. Result \in Abstract!Successors(before)
  BY DEF IInv, Valid
<1> QED
  BY <1>1, <1>2, <1>3 DEF Abstract!Waver

\* An operation that fails before it changed the directory never happened.
LEMMA UndoneHidden ==
  ASSUME IInv, pc \in Undone, pc' = "idle", UNCHANGED <<dir, durable>>
  PROVE  UNCHANGED <<Visible, Doubts>>
BY DEF IInv, Valid, Progress, Undone, Visible, Doubts

LEMMA SyncSimulation == ASSUME IInv, SyncDirectory PROVE [Abstract!Next]_<<Visible, Doubts>>
<1>1. Visible = before /\ Doubts = arg.doubts /\ Visible' = dir /\ Doubts' = {}
  BY DEF SyncDirectory, Return, Visible, Doubts
<1>2. CASE pc = "sync"
  <2>1. dir = Result /\ Result \in Abstract!Successors(before)
    BY <1>2 DEF IInv, Progress, Valid, Done
  <2> QED
    BY <1>1, <2>1 DEF Abstract!Next, Abstract!Commit
<1>3. CASE pc = "redoSync"
  <2>1. dir = before
    BY <1>3 DEF IInv, Progress
  <2> QED
    BY <1>1, <2>1 DEF Abstract!Next, Abstract!Refuse
<1> QED
  BY <1>2, <1>3 DEF SyncDirectory

LEMMA CrashSimulation == ASSUME IInv, Crash PROVE Abstract!Crash
<1>1. Visible' = dir' /\ Doubts' = {} /\ dir' \in durable
  BY DEF Crash, Visible, Doubts
<1>2. CASE pc = "idle"
  BY <1>1, <1>2 DEF Abstract!Crash, Visible, Doubts
<1>3. CASE pc # "idle"
  <2>1. durable \subseteq {before, Result} \cup arg.doubts /\ Result \in Abstract!Successors(before)
    BY <1>3, GoodDurable DEF IInv, Valid
  <2> QED
    BY <1>1, <1>3, <2>1 DEF Abstract!Crash, Visible, Doubts
<1> QED
  BY <1>2, <1>3

LEMMA Simulation == IInv /\ [Next]_vars => [Abstract!Next]_<<Visible, Doubts>>
<1> SUFFICES ASSUME IInv, [Next]_vars PROVE [Abstract!Next]_<<Visible, Doubts>>
  OBVIOUS
<1>1. CASE UNCHANGED vars
  BY <1>1 DEF vars, memory, Visible, Doubts
<1>2. CASE Operation
  BY <1>2, BeginHidden
<1>3. CASE WriteTemp
  BY <1>3, Hidden DEF WriteTemp, Goto, memory
<1>4. CASE ReplaceFails
  <2>1. CASE pc \in Undone
    BY <1>4, <2>1, UndoneHidden DEF ReplaceFails, Return
  <2>2. CASE pc \in {"redoTemp", "redoRename"}
    BY <1>4, <2>2, DoubtWavers DEF ReplaceFails, Return, Abstract!Next
  <2> QED
    BY <1>4, <2>1, <2>2 DEF ReplaceFails, Undone
<1>5. CASE Rename
  BY <1>5, Hidden DEF Rename, Goto, memory
<1>6. CASE Unlink
  BY <1>6, Hidden DEF Unlink, Goto, memory
<1>7. CASE UnlinkFails
  <2>1. CASE pc \in Undone
    BY <1>7, <2>1, UndoneHidden DEF UnlinkFails, Return
  <2>2. CASE pc = "redoUnlink"
    BY <1>7, <2>2, DoubtWavers DEF UnlinkFails, Return, Abstract!Next
  <2> QED
    BY <1>7, <2>1, <2>2 DEF UnlinkFails, Undone
<1>8. CASE SyncDirectory
  BY <1>8, SyncSimulation
<1>9. CASE SyncFails
  <2>1. CASE pc = "sync"
    BY <1>9, <2>1, Hidden DEF SyncFails, Goto, memory
  <2>2. CASE pc = "redoSync"
    BY <1>9, <2>2, DoubtWavers DEF SyncFails, Return, Abstract!Next
  <2> QED
    BY <1>9, <2>1, <2>2 DEF SyncFails
<1>10. CASE Crash
  BY <1>10, CrashSimulation DEF Abstract!Next
<1> QED
  BY <1>1, <1>2, <1>3, <1>4, <1>5, <1>6, <1>7, <1>8, <1>9, <1>10 DEF Next

\* The files, their renames, syncs and rollbacks implement the map the Manager
\* relies on: every step changes it as one of its operations does, or not at all.
THEOREM Implementation == Spec => ImplementsRecordStore
<1>1. Init => Abstract!Init
  BY DEF Init, Abstract!Init, Visible, Doubts
<1> QED
  BY Invariant, Simulation, <1>1, PTL DEF Spec, ImplementsRecordStore, Abstract!Spec

-----------------------------------------------------------------------------
(* EventHub: the invariant.                                                *)

Rising(q) == \A i, j \in 1..Len(q) : i < j => q[i] < q[j]

\* What is on its way comes after what the client has; only the first item may be
\* the one that a stream begins with.
Ordered(q, taken, a, n) ==
  /\ Rising(q) /\ \A i \in 1..Len(q) : q[i] <= n
  /\ \A i \in 1..Len(q) : q[i] <= Connected => i = 1 /\ q[i] \in {Connected, ConnectedGap}
  /\ Rising(taken) /\ \A i \in 1..Len(taken) : taken[i] \in 1..n /\ taken[i] <= a
  /\ \A i \in 1..Len(taken), j \in 1..Len(q) : q[j] > Connected => taken[i] < q[j]

\* What the client knows, and what it was never told that it lost.
Met(w) == known[w] \cup lost[w]

\* The client has met all up to the sequence it has reached, and what is on its way
\* has no hole and, for a subscriber, reaches the last event; or it will reload.
Covered(q, seen, a, n, reload, subscribed) ==
  /\ a <= n
  /\ reload \/ 1..a \subseteq seen
  /\ \/ reload
     \/ ConnectedGap \in ToSet(q)
     \/ /\ \A x \in ToSet(q) : 1..x \subseteq seen \cup ToSet(q)
        /\ subscribed => 1..n \subseteq seen \cup ToSet(q)

HubTypes ==
  /\ next \in Nat /\ history \in Seq(Int) /\ subs \subseteq Watchers
  /\ chan \in [Watchers -> Seq(Int)] /\ pend \in [Watchers -> Seq(Int)] /\ wire \in [Watchers -> Seq(Int)]
  /\ got \in [Watchers -> Seq(Int)] /\ after \in [Watchers -> Nat] /\ known \in [Watchers -> SUBSET Int]
  /\ lost \in [Watchers -> SUBSET Int]
  /\ conn \in [Watchers -> BOOLEAN] /\ closed \in [Watchers -> BOOLEAN] /\ owed \in [Watchers -> BOOLEAN]

\* The history is the last events that were published, in their order.
HistoryInv ==
  /\ Len(history) <= next
  /\ \A i \in 1..Len(history) : history[i] = next - Len(history) + i

StreamAt(w) ==
  /\ ~ conn[w] => w \notin subs /\ wire[w] = <<>> /\ pend[w] = <<>> /\ chan[w] = <<>>
  /\ w \in subs => ~ closed[w]
  /\ Ordered(InFlight(w), got[w], after[w], next)
  /\ w \notin stale => Covered(InFlight(w), Met(w), after[w], next, owed[w], w \in subs)

StreamInv == \A w \in Watchers : StreamAt(w)

HubInv == HubTypes /\ HistoryInv /\ StreamInv

-----------------------------------------------------------------------------
(* Queues.                                                                 *)

LEMMA ItemsOf ==
  ASSUME NEW q \in Seq(Int)
  PROVE  \A x : x \in ToSet(q) <=> \E i \in 1..Len(q) : q[i] = x
BY DEF ToSet

LEMMA ItemsTyped ==
  ASSUME NEW q \in Seq(Int)
  PROVE  Len(q) \in Nat /\ \A i \in 1..Len(q) : q[i] \in Int
BY ElementOfSeq, LenProperties

LEMMA ItemsAppend ==
  ASSUME NEW q \in Seq(Int), NEW x \in Int
  PROVE  ToSet(Append(q, x)) = ToSet(q) \cup {x}
<1>1. Append(q, x) \in Seq(Int) /\ Len(Append(q, x)) = Len(q) + 1 /\ Len(q) \in Nat
      BY AppendProperties
<1>2. (\A i \in 1..Len(q) : Append(q, x)[i] = q[i]) /\ Append(q, x)[Len(q) + 1] = x
      BY AppendProperties
<1>3. \A y : y \in ToSet(Append(q, x)) <=> \E i \in 1..(Len(q) + 1) : Append(q, x)[i] = y
      BY <1>1, ItemsOf
<1>4. \A y : y \in ToSet(Append(q, x)) <=> y \in ToSet(q) \/ y = x
      BY <1>1, <1>2, <1>3, ItemsOf
<1> QED BY <1>4

LEMMA ItemsTail ==
  ASSUME NEW q \in Seq(Int), q # <<>>
  PROVE  /\ Tail(q) \in Seq(Int) /\ Len(q) \in Nat \ {0} /\ Len(Tail(q)) = Len(q) - 1
         /\ Head(q) = q[1] /\ q[1] \in Int
         /\ \A i \in 1..(Len(q) - 1) : Tail(q)[i] = q[i + 1]
         /\ ToSet(q) = {q[1]} \cup ToSet(Tail(q))
<1>1. /\ Tail(q) \in Seq(Int) /\ Len(q) \in Nat \ {0} /\ Len(Tail(q)) = Len(q) - 1
      /\ Head(q) = q[1] /\ q[1] \in Int
      /\ \A i \in 1..(Len(q) - 1) : Tail(q)[i] = q[i + 1]
      BY HeadTailProperties, EmptySeq
<1>2. \A y : y \in ToSet(q) <=> y = q[1] \/ \E i \in 1..(Len(q) - 1) : q[i + 1] = y
  <2>1. ASSUME NEW y, NEW i \in 1..Len(q), q[i] = y, i # 1
        PROVE  \E j \in 1..(Len(q) - 1) : q[j + 1] = y
    <3>1. i - 1 \in 1..(Len(q) - 1) /\ q[(i - 1) + 1] = y
          BY <1>1, <2>1
    <3> QED BY <3>1
  <2>2. 1 \in 1..Len(q) /\ \A i \in 1..(Len(q) - 1) : i + 1 \in 1..Len(q)
        BY <1>1
  <2> QED BY <2>1, <2>2, ItemsOf
<1>3. \A y : y \in ToSet(Tail(q)) <=> \E i \in 1..(Len(q) - 1) : q[i + 1] = y
  <2>1. \A y : y \in ToSet(Tail(q)) <=> \E i \in 1..Len(Tail(q)) : Tail(q)[i] = y
        BY <1>1, ItemsOf
  <2>2. \A y : (\E i \in 1..(Len(q) - 1) : Tail(q)[i] = y) <=> \E i \in 1..(Len(q) - 1) : q[i + 1] = y
        BY <1>1
  <2> QED BY <1>1, <2>1, <2>2
<1> QED BY <1>1, <1>2, <1>3

LEMMA ItemsPrepend ==
  ASSUME NEW q \in Seq(Int), NEW x \in Int
  PROVE  /\ <<x>> \o q \in Seq(Int) /\ Len(<<x>> \o q) = Len(q) + 1 /\ Len(q) \in Nat
         /\ (<<x>> \o q)[1] = x
         /\ \A i \in 1..Len(q) : (<<x>> \o q)[i + 1] = q[i]
         /\ ToSet(<<x>> \o q) = {x} \cup ToSet(q)
<1> DEFINE p == <<x>> \o q
<1>1. <<x>> \in Seq(Int) /\ Len(<<x>>) = 1 /\ <<x>>[1] = x
      OBVIOUS
<1>2. p \in Seq(Int) /\ Len(p) = Len(q) + 1 /\ Len(q) \in Nat
      BY <1>1, ConcatProperties, LenProperties
<1>3. \A i \in 1..(Len(q) + 1) : p[i] = IF i <= 1 THEN <<x>>[i] ELSE q[i - 1]
      BY <1>1, <1>2, ConcatProperties
<1>4. \A i \in 1..Len(q) : i + 1 \in 1..(Len(q) + 1) /\ ~ (i + 1 <= 1) /\ (i + 1) - 1 = i
      BY <1>2
<1>5. \A i \in 1..Len(q) : p[i + 1] = q[i]
      BY <1>3, <1>4
<1>6. p[1] = x
      BY <1>1, <1>2, <1>3
<1> HIDE DEF p
<1>7. \A y : y \in ToSet(p) <=> y = x \/ y \in ToSet(q)
  <2>1. ASSUME NEW y, NEW i \in 1..Len(p), p[i] = y, i # 1 PROVE \E j \in 1..Len(q) : q[j] = y
    <3>1. i - 1 \in 1..Len(q) /\ (i - 1) + 1 = i
          BY <1>2, <2>1
    <3> QED BY <1>5, <2>1, <3>1
  <2>2. 1 \in 1..Len(p) /\ \A i \in 1..Len(q) : i + 1 \in 1..Len(p)
        BY <1>2
  <2>3. \A y : y \in ToSet(p) <=> \E i \in 1..Len(p) : p[i] = y
        BY <1>2, ItemsOf
  <2>4. \A y : y \in ToSet(q) <=> \E i \in 1..Len(q) : q[i] = y
        BY ItemsOf
  <2> QED BY <1>5, <1>6, <2>1, <2>2, <2>3, <2>4
<1>8. ToSet(p) = {x} \cup ToSet(q)
      BY <1>7
<1> QED BY <1>2, <1>5, <1>6, <1>8 DEF p

LEMMA RisingAppend ==
  ASSUME NEW q, NEW p, Rising(q), Len(p) = Len(q) + 1, Len(q) \in Nat,
         \A i \in 1..Len(q) : p[i] = q[i] /\ q[i] \in Int /\ q[i] < p[Len(q) + 1]
  PROVE  Rising(p)
<1> SUFFICES ASSUME NEW i \in 1..Len(p), NEW j \in 1..Len(p), i < j PROVE p[i] < p[j]
    BY DEF Rising
<1>1. i \in 1..Len(q)
      OBVIOUS
<1>2. CASE j \in 1..Len(q)
      BY <1>1, <1>2 DEF Rising
<1>3. CASE j = Len(q) + 1
      BY <1>1, <1>3
<1> QED BY <1>2, <1>3

LEMMA RisingPrepend ==
  ASSUME NEW q, NEW p, Rising(q), Len(p) = Len(q) + 1, Len(q) \in Nat, p[1] \in Int,
         \A i \in 1..Len(q) : p[i + 1] = q[i] /\ q[i] \in Int /\ p[1] < q[i]
  PROVE  Rising(p)
<1> SUFFICES ASSUME NEW i \in 1..Len(p), NEW j \in 1..Len(p), i < j PROVE p[i] < p[j]
    BY DEF Rising
<1>1. j - 1 \in 1..Len(q) /\ p[j] = q[j - 1] /\ p[1] < q[j - 1]
  <2>1. j - 1 \in 1..Len(q) /\ (j - 1) + 1 = j
        OBVIOUS
  <2> QED BY <2>1
<1>2. CASE i = 1
      BY <1>1, <1>2
<1>3. CASE i # 1
  <2>1. i - 1 \in 1..Len(q) /\ (i - 1) + 1 = i /\ i - 1 < j - 1
        BY <1>3
  <2>2. p[i] = q[i - 1]
        BY <2>1
  <2>3. q[i - 1] < q[j - 1]
        BY <1>1, <2>1 DEF Rising
  <2> QED BY <1>1, <2>2, <2>3
<1> QED BY <1>2, <1>3

\* An item that is handed on stays on its way.
LEMMA HandedOn ==
  ASSUME NEW a \in Seq(Int), NEW b \in Seq(Int), b # <<>>
  PROVE  Append(a, Head(b)) \o Tail(b) = a \o b
<1>1. Head(b) \in Int /\ Tail(b) \in Seq(Int) /\ <<Head(b)>> \in Seq(Int)
      BY ItemsTail
<1>2. Append(a, Head(b)) = a \o <<Head(b)>>
      BY <1>1, AppendIsConcat
<1>3. <<Head(b)>> \o Tail(b) = b
      BY ItemsTail
<1> QED BY <1>1, <1>2, <1>3, ConcatAssociative

-----------------------------------------------------------------------------
(* What comes out of the hub, and what goes into the client.               *)

LEMMA OrderedTaken ==
  ASSUME NEW q \in Seq(Int), q # <<>>, NEW g \in Seq(Int), NEW a \in Nat, NEW n \in Nat, Ordered(q, g, a, n)
  PROVE  /\ q[1] <= Connected => Ordered(Tail(q), g, a, n)
         /\ q[1] > Connected => Ordered(Tail(q), Append(g, q[1]), IF q[1] > a THEN q[1] ELSE a, n)
<1>1. /\ Tail(q) \in Seq(Int) /\ Len(q) \in Nat \ {0} /\ Len(Tail(q)) = Len(q) - 1 /\ q[1] \in Int
      /\ \A i \in 1..(Len(q) - 1) : Tail(q)[i] = q[i + 1] /\ i + 1 \in 1..Len(q) /\ q[i + 1] \in Int
      BY ItemsTail
<1>2. \A i \in 1..(Len(q) - 1) : q[i + 1] > Connected
      BY <1>1 DEF Ordered, Connected
<1>3. Rising(Tail(q))
  <2> SUFFICES ASSUME NEW i \in 1..Len(Tail(q)), NEW j \in 1..Len(Tail(q)), i < j PROVE Tail(q)[i] < Tail(q)[j]
      BY DEF Rising
  <2>1. q[i + 1] < q[j + 1]
      BY <1>1 DEF Ordered, Rising
  <2> QED BY <1>1, <2>1
<1>4. /\ \A i \in 1..Len(Tail(q)) : Tail(q)[i] <= n /\ Tail(q)[i] > Connected
      /\ \A i \in 1..Len(g), j \in 1..Len(Tail(q)) : g[i] < Tail(q)[j]
      BY <1>1, <1>2 DEF Ordered
<1>5. Ordered(Tail(q), g, a, n)
      BY <1>1, <1>3, <1>4 DEF Ordered, Connected
<1>6. ASSUME q[1] > Connected
      PROVE  Ordered(Tail(q), Append(g, q[1]), IF q[1] > a THEN q[1] ELSE a, n)
  <2> DEFINE h == Append(g, q[1])
  <2>1. /\ h \in Seq(Int) /\ Len(h) = Len(g) + 1 /\ Len(g) \in Nat
        /\ (\A i \in 1..Len(g) : h[i] = g[i] /\ g[i] \in Int) /\ h[Len(g) + 1] = q[1]
        BY <1>1, AppendProperties
  <2>2. 1 \in 1..Len(q) /\ q[1] <= n /\ \A i \in 1..Len(g) : g[i] < q[1]
        BY <1>1, <1>6 DEF Ordered
  <2>3. \A j \in 1..Len(Tail(q)) : q[1] < Tail(q)[j]
        BY <1>1, <2>2 DEF Ordered, Rising
  <2> HIDE DEF h
  <2>4. Rising(h)
        BY <2>1, <2>2, RisingAppend DEF Ordered
  <2>5. \A i \in 1..Len(h) : h[i] \in 1..n /\ h[i] <= IF q[1] > a THEN q[1] ELSE a
    <3>1. \A i \in 1..Len(h) : i \in 1..Len(g) \/ i = Len(g) + 1
          BY <2>1
    <3>2. q[1] \in 1..n /\ q[1] <= IF q[1] > a THEN q[1] ELSE a
          BY <1>1, <1>6, <2>2 DEF Connected
    <3>3. \A i \in 1..Len(g) : g[i] \in 1..n /\ g[i] <= a
          BY DEF Ordered
    <3>4. \A i \in 1..Len(g) : g[i] <= IF q[1] > a THEN q[1] ELSE a
          BY <1>1, <3>3
    <3> QED BY <2>1, <3>1, <3>2, <3>3, <3>4
  <2>6. \A i \in 1..Len(h), j \in 1..Len(Tail(q)) : h[i] < Tail(q)[j]
        BY <1>1, <1>4, <2>1, <2>3
  <2>7. Ordered(Tail(q), h, IF q[1] > a THEN q[1] ELSE a, n)
        BY <1>1, <1>3, <1>4, <2>4, <2>5, <2>6 DEF Ordered, Connected
  <2> QED BY <2>7 DEF h
<1> QED BY <1>5, <1>6

LEMMA OrderedPublished ==
  ASSUME NEW q \in Seq(Int), NEW g \in Seq(Int), NEW a \in Nat, NEW n \in Nat, Ordered(q, g, a, n)
  PROVE  Ordered(q, g, a, n + 1) /\ Ordered(Append(q, n + 1), g, a, n + 1)
<1> DEFINE p == Append(q, n + 1)
<1>1. Len(p) = Len(q) + 1 /\ Len(q) \in Nat
      BY AppendProperties
<1>2. \A i \in 1..Len(q) : p[i] = q[i] /\ q[i] \in Int
      BY AppendProperties, ItemsTyped
<1>3. p[Len(q) + 1] = n + 1
      BY AppendProperties
<1>4. \A i \in 1..Len(q) : q[i] <= n
      BY DEF Ordered
<1>5. \A i \in 1..Len(g) : g[i] \in 1..n
      BY DEF Ordered
<1>6. \A i \in 1..Len(g) : g[i] \in 1..(n + 1) /\ g[i] < n + 1
      BY <1>5
<1>7. \A i \in 1..Len(q) : q[i] <= n + 1
      BY <1>2, <1>4
<1> HIDE DEF p
<1>8. Rising(p)
  <2>1. \A i \in 1..Len(q) : q[i] < p[Len(q) + 1]
        BY <1>2, <1>3, <1>4
  <2> QED BY <1>1, <1>2, <2>1, RisingAppend DEF Ordered
<1>9. Ordered(p, g, a, n + 1)
  <2>1. \A i \in 1..Len(p) : i \in 1..Len(q) \/ i = Len(q) + 1
        BY <1>1
  <2>2. \A i \in 1..Len(p) : p[i] <= n + 1
        BY <1>2, <1>3, <1>7, <2>1
  <2>3. \A i \in 1..Len(p) : p[i] <= Connected => i = 1 /\ p[i] \in {Connected, ConnectedGap}
    <3>1. ~ (p[Len(q) + 1] <= Connected)
          BY <1>3 DEF Connected
    <3>2. \A i \in 1..Len(q) : q[i] <= Connected => i = 1 /\ q[i] \in {Connected, ConnectedGap}
          BY DEF Ordered
    <3> QED BY <1>2, <2>1, <3>1, <3>2
  <2>4. \A i \in 1..Len(g), j \in 1..Len(p) : p[j] > Connected => g[i] < p[j]
    <3>1. \A i \in 1..Len(g), j \in 1..Len(q) : q[j] > Connected => g[i] < q[j]
          BY DEF Ordered
    <3> QED BY <1>2, <1>3, <1>6, <2>1, <3>1
  <2>5. Rising(g) /\ \A i \in 1..Len(g) : g[i] <= a
        BY DEF Ordered
  <2> QED BY <1>6, <1>8, <2>2, <2>3, <2>4, <2>5 DEF Ordered
<1>10. Ordered(q, g, a, n + 1)
       BY <1>6, <1>7 DEF Ordered
<1> QED BY <1>9, <1>10 DEF p

LEMMA OrderedBegun ==
  ASSUME NEW q \in Seq(Int), NEW c \in {Connected, ConnectedGap}, NEW g \in Seq(Int), NEW a \in Nat, NEW n \in Nat,
         Ordered(<<>>, g, a, n), Rising(q), \A i \in 1..Len(q) : q[i] <= n /\ q[i] > a
  PROVE  Ordered(<<c>> \o q, g, a, n)
<1> DEFINE p == <<c>> \o q
<1>1. /\ p \in Seq(Int) /\ Len(p) = Len(q) + 1 /\ Len(q) \in Nat /\ p[1] = c /\ c \in Int /\ c <= 0
      /\ \A i \in 1..Len(q) : p[i + 1] = q[i] /\ q[i] \in Int
  <2>1. c \in Int /\ c <= 0
        BY DEF Connected, ConnectedGap
  <2>2. /\ p \in Seq(Int) /\ Len(p) = Len(q) + 1 /\ Len(q) \in Nat /\ p[1] = c
        /\ \A i \in 1..Len(q) : p[i + 1] = q[i]
        BY <2>1, ItemsPrepend
  <2>3. \A i \in 1..Len(q) : q[i] \in Int
        BY ItemsTyped
  <2> HIDE DEF p
  <2> QED BY <2>1, <2>2, <2>3
<1> HIDE DEF p
<1>2. Rising(p)
  <2>1. \A i \in 1..Len(q) : p[1] < q[i]
    <3> SUFFICES ASSUME NEW i \in 1..Len(q) PROVE p[1] < q[i]
        OBVIOUS
    <3>1. q[i] \in Int /\ q[i] > a /\ p[1] \in Int /\ p[1] <= 0
          BY <1>1
    <3> QED BY <3>1
  <2> QED BY <1>1, <2>1, RisingPrepend
<1>3. \A i \in 1..Len(p) : p[i] <= n /\ (p[i] <= Connected => i = 1 /\ p[i] \in {Connected, ConnectedGap})
  <2>1. \A i \in 1..Len(p) : i = 1 \/ (i - 1 \in 1..Len(q) /\ p[i] = q[i - 1])
    <3> SUFFICES ASSUME NEW i \in 1..Len(p), i # 1 PROVE i - 1 \in 1..Len(q) /\ p[i] = q[i - 1]
        OBVIOUS
    <3>1. i - 1 \in 1..Len(q) /\ (i - 1) + 1 = i
          BY <1>1
    <3> QED BY <1>1, <3>1
  <2>2. \A i \in 1..Len(q) : q[i] <= n /\ ~ (q[i] <= Connected)
    <3>1. \A i \in 1..Len(q) : q[i] \in Int
          BY <1>1
    <3> QED BY <3>1 DEF Connected
  <2>3. p[1] <= n /\ p[1] \in {Connected, ConnectedGap}
        BY <1>1
  <2> QED BY <2>1, <2>2, <2>3
<1>4. \A i \in 1..Len(g), j \in 1..Len(p) : p[j] > Connected => g[i] < p[j]
  <2> SUFFICES ASSUME NEW i \in 1..Len(g), NEW j \in 1..Len(p), p[j] > Connected PROVE g[i] < p[j]
      OBVIOUS
  <2>1. g[i] <= a /\ g[i] \in Int
        BY DEF Ordered
  <2>2. p[j] > a /\ p[j] \in Int
    <3>1. j # 1
          BY <1>1 DEF Connected
    <3>2. j - 1 \in 1..Len(q) /\ (j - 1) + 1 = j
          BY <1>1, <3>1
    <3>3. p[j] = q[j - 1] /\ q[j - 1] \in Int
          BY <1>1, <3>2
    <3> QED BY <3>2, <3>3
  <2> QED BY <2>1, <2>2
<1>5. Ordered(p, g, a, n)
      BY <1>2, <1>3, <1>4 DEF Ordered
<1> QED BY <1>5 DEF p

LEMMA OrderedLost ==
  ASSUME NEW q, NEW g \in Seq(Int), NEW a, NEW n, Ordered(q, g, a, n)
  PROVE  Ordered(<<>>, g, a, n)
<1>1. Len(<<>>) = 0
      OBVIOUS
<1> QED BY <1>1 DEF Ordered, Rising

-----------------------------------------------------------------------------
(* What the client knows and what is on its way.                           *)

LEMMA CoveredLost ==
  ASSUME NEW q, NEW seen, NEW a, NEW n, NEW r, NEW s, Covered(q, seen, a, n, r, s)
  PROVE  Covered(<<>>, seen, a, n, r, FALSE)
<1>1. ToSet(<<>>) = {}
      BY DEF ToSet
<1> QED BY <1>1 DEF Covered

LEMMA CoveredPublished ==
  ASSUME NEW q \in Seq(Int), NEW seen, NEW a \in Nat, NEW n \in Nat, NEW r \in BOOLEAN, NEW s \in BOOLEAN,
         Covered(q, seen, a, n, r, s), \A i \in 1..Len(q) : q[i] <= n
  PROVE  /\ Covered(q, seen, a, n + 1, r, FALSE)
         /\ s => Covered(Append(q, n + 1), seen, a, n + 1, r, TRUE)
<1>1. a <= n + 1 /\ 1..(n + 1) = 1..n \cup {n + 1}
      BY DEF Covered
<1>2. Covered(q, seen, a, n + 1, r, FALSE)
      BY <1>1 DEF Covered
<1>3. ToSet(Append(q, n + 1)) = ToSet(q) \cup {n + 1}
      BY ItemsAppend
<1>4. ASSUME s PROVE Covered(Append(q, n + 1), seen, a, n + 1, r, TRUE)
  <2>1. CASE r \/ ConnectedGap \in ToSet(q)
        BY <1>1, <1>3, <2>1 DEF Covered
  <2>2. CASE ~ r /\ ConnectedGap \notin ToSet(q)
    <3>1. 1..n \subseteq seen \cup ToSet(q) /\ 1..a \subseteq seen
          BY <1>4, <2>2 DEF Covered
    <3>2. 1..(n + 1) \subseteq seen \cup ToSet(Append(q, n + 1))
          BY <1>1, <1>3, <3>1
    <3>3. \A x \in ToSet(Append(q, n + 1)) : 1..x \subseteq 1..(n + 1)
      <4>1. \A x \in ToSet(q) : x \in Int /\ x <= n
            BY ItemsOf, ItemsTyped
      <4> QED BY <1>3, <4>1
    <3> QED BY <1>1, <3>1, <3>2, <3>3 DEF Covered
  <2> QED BY <2>1, <2>2
<1> QED BY <1>2, <1>4

LEMMA CoveredReload ==
  ASSUME NEW q \in Seq(Int), NEW seen, NEW a \in Nat, NEW n \in Nat, NEW r, NEW s, a <= n,
         \A i \in 1..Len(q) : q[i] <= n
  PROVE  Covered(q, 1..n, a, n, FALSE, s)
<1>1. \A x \in ToSet(q) : x \in Int /\ x <= n
      BY ItemsOf, ItemsTyped
<1>2. (\A x \in ToSet(q) : 1..x \subseteq 1..n) /\ 1..a \subseteq 1..n
      BY <1>1
<1> QED BY <1>2 DEF Covered

LEMMA CoveredTaken ==
  ASSUME NEW q \in Seq(Int), q # <<>>, NEW g \in Seq(Int), NEW seen, NEW a \in Nat, NEW n \in Nat,
         NEW r \in BOOLEAN, NEW s \in BOOLEAN, Ordered(q, g, a, n), Covered(q, seen, a, n, r, s),
         NEW told \in BOOLEAN, NEW b, NEW k,
         q[1] <= Connected => (told <=> r \/ q[1] = ConnectedGap) /\ b = a /\ k = seen,
         q[1] > Connected => (told <=> r) /\ k = seen \cup {q[1]} /\ (q[1] > a => b = q[1]) /\ (~ (q[1] > a) => b = a)
  PROVE  Covered(Tail(q), k, b, n, told, s)
<1>1. q[1] \in Int /\ ToSet(q) = {q[1]} \cup ToSet(Tail(q)) /\ Tail(q) \in Seq(Int) /\ Len(q) \in Nat \ {0}
      BY ItemsTail
<1>2. (\A x \in ToSet(q) : x \in Int /\ x <= n) /\ q[1] <= n
  <2>1. \A i \in 1..Len(q) : q[i] \in Int /\ q[i] <= n
        BY ItemsTyped DEF Ordered
  <2>2. \A x \in ToSet(q) : x \in Int /\ x <= n
    <3> SUFFICES ASSUME NEW x \in ToSet(q) PROVE x \in Int /\ x <= n
        OBVIOUS
    <3>1. PICK i \in 1..Len(q) : q[i] = x
          BY ItemsOf
    <3> QED BY <2>1, <3>1
  <2> QED BY <1>1, <2>2
<1>3. ASSUME q[1] <= Connected
      PROVE  Covered(Tail(q), seen, a, n, r \/ q[1] = ConnectedGap, s)
  <2>1. CASE r \/ q[1] = ConnectedGap
        BY <2>1 DEF Covered
  <2>2. CASE ~ r /\ q[1] # ConnectedGap
    <3>1. \A x : q[1] \notin 1..x
          BY <1>1, <1>3 DEF Connected
    <3>2. ConnectedGap \in ToSet(q) <=> ConnectedGap \in ToSet(Tail(q))
          BY <1>1, <2>2
    <3>3. CASE ConnectedGap \in ToSet(q)
          BY <2>2, <3>2, <3>3 DEF Covered
    <3>4. CASE ConnectedGap \notin ToSet(q)
      <4>1. /\ \A x \in ToSet(q) : 1..x \subseteq seen \cup ToSet(q)
            /\ s => 1..n \subseteq seen \cup ToSet(q)
            /\ a <= n /\ 1..a \subseteq seen
            BY <2>2, <3>4 DEF Covered
      <4>2. /\ \A x \in ToSet(Tail(q)) : 1..x \subseteq seen \cup ToSet(Tail(q))
            /\ s => 1..n \subseteq seen \cup ToSet(Tail(q))
            BY <1>1, <3>1, <4>1
      <4> QED BY <2>2, <4>1, <4>2 DEF Covered
    <3> QED BY <3>3, <3>4
  <2> QED BY <2>1, <2>2
<1>4. ASSUME q[1] > Connected
      PROVE  Covered(Tail(q), seen \cup {q[1]}, IF q[1] > a THEN q[1] ELSE a, n, r, s)
  <2> DEFINE c == IF q[1] > a THEN q[1] ELSE a
  <2>1. c <= n /\ c \in Nat /\ (c = a \/ c = q[1])
        BY <1>1, <1>2, <1>4 DEF Covered, Connected
  <2> SUFFICES Covered(Tail(q), seen \cup {q[1]}, c, n, r, s)
      OBVIOUS
  <2> HIDE DEF c
  <2>2. \A x \in ToSet(q) : q[1] <= x
    <3>1. \A i \in 1..Len(q) : i = 1 \/ (1 < i /\ 1 \in 1..Len(q))
          BY <1>1
    <3>2. \A i \in 1..Len(q) : i # 1 => q[1] < q[i]
          BY <3>1 DEF Ordered, Rising
    <3>3. \A i \in 1..Len(q) : q[i] \in Int /\ q[1] <= q[i]
          BY <1>1, <3>2, ItemsTyped
    <3> QED BY <3>3, ItemsOf
  <2>3. ConnectedGap \notin ToSet(q)
        BY <1>1, <1>4, <2>2 DEF Connected, ConnectedGap
  <2>4. CASE r
        BY <2>1, <2>4 DEF Covered
  <2>5. CASE ~ r
    <3>1. /\ \A x \in ToSet(q) : 1..x \subseteq seen \cup ToSet(q)
          /\ s => 1..n \subseteq seen \cup ToSet(q)
          /\ 1..a \subseteq seen
          BY <2>3, <2>5 DEF Covered
    <3>2. 1..q[1] \subseteq seen \cup {q[1]}
      <4>1. 1..q[1] \subseteq seen \cup ToSet(q)
            BY <1>1, <3>1
      <4>2. \A x \in 1..q[1] : x \in ToSet(q) => x = q[1]
            BY <1>1, <2>2
      <4> QED BY <4>1, <4>2
    <3>3. 1..c \subseteq seen \cup {q[1]}
          BY <2>1, <3>1, <3>2
    <3>4. /\ \A x \in ToSet(Tail(q)) : 1..x \subseteq (seen \cup {q[1]}) \cup ToSet(Tail(q))
          /\ s => 1..n \subseteq (seen \cup {q[1]}) \cup ToSet(Tail(q))
          BY <1>1, <3>1
    <3> QED BY <2>1, <3>3, <3>4 DEF Covered
  <2> QED BY <2>4, <2>5
<1>5. CASE q[1] <= Connected
  <2>1. k = seen /\ b = a /\ (told <=> r \/ q[1] = ConnectedGap)
        BY <1>5
  <2> QED BY <1>3, <1>5, <2>1 DEF Covered
<1>6. CASE q[1] > Connected
  <2>1. k = seen \cup {q[1]} /\ b = (IF q[1] > a THEN q[1] ELSE a) /\ (told <=> r)
        BY <1>6
  <2>2. Covered(Tail(q), k, b, n, r, s)
        BY <1>4, <1>6, <2>1
  <2> QED BY <2>1, <2>2 DEF Covered
<1> QED BY <1>1, <1>5, <1>6 DEF Connected

LEMMA CoveredBegun ==
  ASSUME NEW q \in Seq(Int), NEW seen, NEW a \in Nat, NEW n \in Nat, NEW r \in BOOLEAN, NEW o \in 1..(n + 1),
         ToSet(q) = {x \in o..n : x > a}, Covered(<<>>, seen, a, n, r, FALSE)
  PROVE  Covered(<<IF a # 0 /\ o > 1 /\ a < o - 1 THEN ConnectedGap ELSE Connected>> \o q,
                 IF a = 0 THEN seen \cup 1..(o - 1) ELSE seen, a, n, r, TRUE)
<1> DEFINE c == IF a # 0 /\ o > 1 /\ a < o - 1 THEN ConnectedGap ELSE Connected
           kn == IF a = 0 THEN seen \cup 1..(o - 1) ELSE seen
<1>1. c \in Int /\ c \in {Connected, ConnectedGap}
      BY DEF Connected, ConnectedGap
<1>2. ToSet(<<c>> \o q) = {c} \cup ToSet(q)
      BY <1>1, ItemsPrepend
<1>3. a <= n /\ (r \/ 1..a \subseteq seen) /\ seen \subseteq kn
      BY DEF Covered
<1>4. CASE r \/ c = ConnectedGap
      BY <1>2, <1>3, <1>4 DEF Covered
<1>5. CASE ~ r /\ c # ConnectedGap
  <2>1. a = 0 \/ o <= 1 \/ a >= o - 1
        BY <1>5
  <2>2. 1..n \subseteq kn \cup {x \in o..n : x > a}
    <3> SUFFICES ASSUME NEW x \in 1..n, x \notin kn PROVE x \in o..n /\ x > a
        OBVIOUS
    <3>1. x > a
          BY <1>3, <1>5
    <3>2. x >= o
      <4>1. CASE a = 0
            BY <4>1
      <4>2. CASE a # 0
            BY <2>1, <3>1, <4>2
      <4> QED BY <4>1, <4>2
    <3> QED BY <3>1, <3>2
  <2>3. \A x \in ToSet(<<c>> \o q) : 1..x \subseteq 1..n
        BY <1>1, <1>2 DEF Connected, ConnectedGap
  <2>4. /\ 1..n \subseteq kn \cup ToSet(<<c>> \o q) /\ 1..a \subseteq kn
        BY <1>2, <1>3, <1>5, <2>2
  <2> SUFFICES Covered(<<c>> \o q, kn, a, n, r, TRUE)
      OBVIOUS
  <2> HIDE DEF c, kn
  <2> QED BY <1>3, <2>3, <2>4 DEF Covered
<1> QED BY <1>4, <1>5

-----------------------------------------------------------------------------
(* The history.                                                            *)

\* The least-number principle, from the order of the finite sets.
LEMMA Smallest ==
  ASSUME NEW T, T \subseteq Nat, T # {}
  PROVE  \E x \in T : \A y \in T : x <= y
<1> DEFINE U == {0..n : n \in T}
<1>1. U # {} /\ U \subseteq FiniteSubsetsOf(Nat)
  <2>1. ASSUME NEW n \in T PROVE 0..n \in FiniteSubsetsOf(Nat)
    BY FS_Interval, n \in Nat DEF FiniteSubsetsOf
  <2> QED  BY <2>1
<1>2. PICK u \in U : \A v \in U : <<v, u>> \notin StrictSubsetOrdering(Nat)
  <2> HIDE DEF U
  <2> QED  BY <1>1, FS_StrictSubsetOrderingWellFounded, WFMin
<1>3. PICK x \in T : u = 0..x
  BY DEF U
<1>4. ASSUME NEW y \in T, ~ (x <= y) PROVE FALSE
  <2>1. x \in Nat /\ y \in Nat /\ y < x
    BY <1>4
  <2>2. <<0..y, 0..x>> \notin StrictSubsetOrdering(Nat)
    BY <1>2, <1>3
  <2>3. 0..y \subseteq 0..x /\ 0..x # 0..y /\ 0..x \subseteq Nat
    <3>1. x \in 0..x /\ x \notin 0..y
      BY <2>1
    <3> QED  BY <2>1, <3>1
  <2> QED  BY <2>2, <2>3 DEF StrictSubsetOrdering
<1> QED  BY <1>3, <1>4

\* The history is what the hub published last.
LEMMA HistoryKept ==
  ASSUME next \in Nat, history \in Seq(Int), HistoryInv
  PROVE  /\ Trim(Append(history, next + 1)) \in Seq(Int)
         /\ Len(Trim(Append(history, next + 1))) <= next + 1
         /\ \A i \in 1..Len(Trim(Append(history, next + 1))) :
              Trim(Append(history, next + 1))[i] = (next + 1) - Len(Trim(Append(history, next + 1))) + i
<1> DEFINE h == Append(history, next + 1)
           len == Len(history) + 1
<1>1. h \in Seq(Int) /\ Len(h) = len /\ Len(history) \in Nat /\ len <= next + 1 /\ len \in Nat
      BY AppendProperties, LenProperties DEF HistoryInv
<1>2. \A i \in 1..len : h[i] = (next + 1) - len + i
  <2>1. \A i \in 1..Len(history) : h[i] = next - Len(history) + i
        BY AppendProperties DEF HistoryInv
  <2>2. h[len] = next + 1
        BY AppendProperties
  <2> HIDE DEF h
  <2> SUFFICES ASSUME NEW i \in 1..len PROVE h[i] = (next + 1) - len + i
      OBVIOUS
  <2>3. CASE i = len
        BY <1>1, <2>2, <2>3
  <2>4. CASE i # len
    <3>1. i \in 1..Len(history)
          BY <1>1, <2>4
    <3>2. h[i] = next - Len(history) + i
          BY <2>1, <3>1
    <3> QED BY <1>1, <3>2
  <2> QED BY <2>3, <2>4
<1> SUFFICES /\ Trim(h) \in Seq(Int) /\ Len(Trim(h)) <= next + 1
             /\ \A i \in 1..Len(Trim(h)) : Trim(h)[i] = (next + 1) - Len(Trim(h)) + i
    OBVIOUS
<1> HIDE DEF h, len
<1>3. CASE len <= Capacity
  <2>1. Trim(h) = h
        BY <1>1, <1>3, EventHubAssumption DEF Trim, EventHubAssumption
  <2> QED BY <1>1, <1>2, <2>1
<1>4. CASE len > Capacity
  <2> DEFINE m == len - Capacity + 1
             t == SubSeq(h, m, len)
  <2>1. Trim(h) = t /\ Capacity \in Nat /\ m \in 1..len
        BY <1>1, <1>4, EventHubAssumption DEF Trim, EventHubAssumption
  <2>2. \A i \in m..len : h[i] \in Int
        BY <1>1, <2>1, ItemsTyped
  <2>3. t \in Seq(Int) /\ Len(t) = (IF m <= len THEN len - m + 1 ELSE 0) /\ \A i \in 1..(len - m + 1) : t[i] = h[m + i - 1]
        BY <1>1, <2>1, <2>2, SubSeqProperties
  <2> HIDE DEF t
  <2>4. Len(t) = Capacity /\ len - m + 1 = Capacity
        BY <1>1, <2>1, <2>3
  <2>5. \A i \in 1..Capacity : t[i] = (next + 1) - Capacity + i
    <3> SUFFICES ASSUME NEW i \in 1..Capacity PROVE t[i] = (next + 1) - Capacity + i
        OBVIOUS
    <3>1. m + i - 1 \in 1..len /\ t[i] = h[m + i - 1]
          BY <1>1, <1>4, <2>1, <2>3, <2>4
    <3>2. h[m + i - 1] = (next + 1) - len + (m + i - 1)
          BY <1>2, <3>1
    <3> QED BY <1>1, <2>1, <3>1, <3>2
  <2> QED BY <1>1, <1>4, <2>1, <2>3, <2>4, <2>5
<1> QED BY <1>1, <1>3, <1>4, EventHubAssumption DEF EventHubAssumption

LEMMA OldestRight ==
  ASSUME next \in Nat, history \in Seq(Int), HistoryInv
  PROVE  Oldest = next - Len(history) + 1 /\ Len(history) \in Nat /\ Oldest \in 1..(next + 1)
<1>1. Len(history) \in Nat /\ (history = <<>> <=> Len(history) = 0) /\ Len(history) <= next
      BY LenProperties, EmptySeq DEF HistoryInv
<1>2. CASE history = <<>>
      BY <1>1, <1>2 DEF Oldest
<1>3. CASE history # <<>>
      BY <1>1, <1>3 DEF Oldest, HistoryInv
<1> QED BY <1>1, <1>2, <1>3

\* The replay is the rest of the history after a sequence.
LEMMA ReplayRight ==
  ASSUME next \in Nat, history \in Seq(Int), HistoryInv, NEW a \in Nat
  PROVE  /\ Replay(a) \in Seq(Int) /\ Rising(Replay(a))
         /\ \A i \in 1..Len(Replay(a)) : Replay(a)[i] \in Oldest..next /\ Replay(a)[i] > a
         /\ ToSet(Replay(a)) = {x \in Oldest..next : x > a}
<1> DEFINE len == Len(history)
           base == next - len
           skip == IF a <= base THEN 0 ELSE IF a >= next THEN len ELSE a - base
           g == [i \in 0..len |-> [j \in 1..(i - skip) |-> base + skip + j]]
           later == CHOOSE f : f = [i \in 0..len |->
                      IF i = 0 THEN <<>>
                      ELSE IF history[i] > a THEN Append(f[i - 1], history[i]) ELSE f[i - 1]]
<1>1. Replay(a) = later[len]
      BY DEF Replay
<1>2. len \in Nat /\ base \in Nat /\ skip \in 0..len /\ Oldest = base + 1
      BY OldestRight DEF HistoryInv
<1>3. \A i \in 1..len : history[i] = base + i /\ (history[i] > a <=> i > skip)
  <2>1. \A i \in 1..len : history[i] = base + i
        BY DEF HistoryInv
  <2>2. \A i \in 1..len : base + i > a <=> i > skip
        BY <1>2
  <2> QED BY <2>1, <2>2
<1> HIDE DEF base, skip
<1>4. \A i \in 0..len : g[i] = [j \in 1..(i - skip) |-> base + skip + j] /\ (i <= skip => g[i] = <<>>)
      BY <1>2
<1>5. \A i \in 1..len : g[i] = IF history[i] > a THEN Append(g[i - 1], history[i]) ELSE g[i - 1]
  <2> SUFFICES ASSUME NEW i \in 1..len
               PROVE  g[i] = IF history[i] > a THEN Append(g[i - 1], history[i]) ELSE g[i - 1]
      OBVIOUS
  <2>1. i - 1 \in 0..len /\ i \in 0..len
        BY <1>2
  <2>2. CASE i <= skip
        BY <1>2, <1>3, <1>4, <2>1, <2>2
  <2>3. CASE i > skip
    <3> DEFINE b == [j \in 1..(i - 1 - skip) |-> base + skip + j]
    <3>1. g[i - 1] = b /\ g[i] = [j \in 1..(i - skip) |-> base + skip + j]
          BY <1>4, <2>1
    <3>2. i - 1 - skip \in Nat /\ base + skip \in Nat
          BY <1>2, <2>3
    <3>3. b \in Seq(Int) /\ Len(b) = i - 1 - skip
          BY <3>2
    <3>4. Append(b, history[i]) = [j \in 1..(i - skip) |-> base + skip + j]
          BY <1>2, <1>3, <3>2, <3>3
    <3> QED BY <1>3, <2>3, <3>1, <3>4
  <2> QED BY <1>2, <2>2, <2>3
<1>6. g = [i \in 0..len |-> IF i = 0 THEN <<>>
                            ELSE IF history[i] > a THEN Append(g[i - 1], history[i]) ELSE g[i - 1]]
  <2>1. g[0] = <<>>
        BY <1>2, <1>4
  <2>2. g = [i \in 0..len |-> g[i]]
        OBVIOUS
  <2> HIDE DEF g, len
  <2>3. \A i \in 0..len : i = 0 \/ i \in 1..len
        BY <1>2
  <2>4. \A i \in 0..len : g[i] = IF i = 0 THEN <<>>
                            ELSE IF history[i] > a THEN Append(g[i - 1], history[i]) ELSE g[i - 1]
        BY <1>5, <2>1, <2>3
  <2> QED BY <2>2, <2>4
<1> HIDE DEF g, len
<1>7. later = [i \in 0..len |-> IF i = 0 THEN <<>>
                 ELSE IF history[i] > a THEN Append(later[i - 1], history[i]) ELSE later[i - 1]]
      BY <1>6
<1> HIDE DEF later
<1>8. \A i \in 0..len : later[i] = IF i = 0 THEN <<>>
                 ELSE IF history[i] > a THEN Append(later[i - 1], history[i]) ELSE later[i - 1]
      BY <1>7
<1> DEFINE T == {i \in 0..len : later[i] # g[i]}
<1>9. ASSUME T # {} PROVE FALSE
  <2>1. T \subseteq Nat
        BY <1>2
  <2>2. PICK k \in T : \A j \in T : k <= j
    <3> HIDE DEF T
    <3> QED BY <1>9, <2>1, Smallest
  <2>3. CASE k = 0
    <3>1. 0 \in 0..len /\ 0 <= skip
          BY <1>2
    <3>2. g[0] = <<>> /\ later[0] = <<>>
          BY <1>4, <1>8, <3>1
    <3> QED BY <2>2, <2>3, <3>2
  <2>4. CASE k # 0
    <3>1. k \in 1..len /\ k - 1 \in 0..len /\ k - 1 \notin T
          BY <1>2, <2>2, <2>4
    <3>2. later[k - 1] = g[k - 1]
          BY <3>1
    <3>3. later[k] = g[k]
          BY <1>5, <1>8, <2>4, <3>1, <3>2
    <3> QED BY <2>2, <3>3
  <2> QED BY <2>3, <2>4
<1> DEFINE r == [j \in 1..(len - skip) |-> base + skip + j]
<1>10. Replay(a) = r
  <2>1. len \in 0..len /\ len \notin T
        BY <1>2, <1>9
  <2> QED BY <1>1, <1>4, <2>1
<1>11. len - skip \in Nat /\ r \in Seq(Int) /\ Len(r) = len - skip /\ \A i \in 1..(len - skip) : r[i] = base + skip + i
       BY <1>2
<1> HIDE DEF r
<1>12. base + len = next /\ \A x \in (base + 1)..next : x > a <=> x > base + skip
       BY <1>2 DEF base, skip, len
<1>13. Rising(r)
       BY <1>2, <1>11 DEF Rising
<1>14. \A i \in 1..Len(r) : r[i] \in Oldest..next /\ r[i] > a
  <2> SUFFICES ASSUME NEW i \in 1..(len - skip) PROVE r[i] \in Oldest..next /\ r[i] > a
      BY <1>11
  <2>1. r[i] = base + skip + i /\ base + skip + i \in (base + 1)..next /\ base + skip + i > base + skip
        BY <1>2, <1>11, <1>12
  <2> QED BY <1>2, <1>12, <2>1
<1>15. \A x \in Oldest..next : x > a => \E i \in 1..Len(r) : r[i] = x
  <2> SUFFICES ASSUME NEW x \in Oldest..next, x > a PROVE \E i \in 1..Len(r) : r[i] = x
      OBVIOUS
  <2>1. x - (base + skip) \in 1..(len - skip)
    <3>1. x \in (base + 1)..next /\ x > base + skip
          BY <1>2, <1>12
    <3> QED BY <1>2, <1>12, <3>1
  <2>2. r[x - (base + skip)] = x
        BY <1>2, <1>11, <2>1
  <2> QED BY <1>11, <2>1, <2>2
<1>16. ToSet(r) = {x \in Oldest..next : x > a}
       BY <1>11, <1>14, <1>15, ItemsOf
<1> QED BY <1>10, <1>11, <1>13, <1>14, <1>16

-----------------------------------------------------------------------------
(* The steps of EventHub.                                                  *)

LEMMA FlightTyped ==
  ASSUME HubTypes, NEW w \in Watchers
  PROVE  /\ InFlight(w) \in Seq(Int)
         /\ wire[w] \in Seq(Int) /\ pend[w] \in Seq(Int) /\ chan[w] \in Seq(Int) /\ wire[w] \o pend[w] \in Seq(Int)
         /\ got[w] \in Seq(Int) /\ after[w] \in Nat /\ Met(w) \in SUBSET Int /\ owed[w] \in BOOLEAN
<1>1. wire[w] \in Seq(Int) /\ pend[w] \in Seq(Int) /\ chan[w] \in Seq(Int)
      BY DEF HubTypes
<1>2. wire[w] \o pend[w] \in Seq(Int)
      BY <1>1, ConcatProperties
<1>3. InFlight(w) \in Seq(Int)
      BY <1>1, <1>2, ConcatProperties DEF InFlight
<1> QED BY <1>1, <1>2, <1>3 DEF HubTypes, Met

LEMMA Reassociated ==
  ASSUME NEW a \in Seq(Int), NEW b \in Seq(Int), NEW c \in Seq(Int)
  PROVE  a \o (b \o c) = (a \o b) \o c
<1>1. (a \o b) \o c = a \o (b \o c)
      BY ConcatAssociative
<1> QED BY <1>1

LEMMA NothingThere ==
  <<>> \o <<>> \o <<>> = <<>> /\ \A q \in Seq(Int) : <<>> \o q \o <<>> = q
<1>1. <<>> \in Seq(Int)
      BY EmptySeq
<1> QED BY <1>1, ConcatEmptySeq

\* A step that does not touch a client and its stream.
LEMMA Untouched ==
  ASSUME NEW v \in Watchers, StreamAt(v), next' = next, v \in subs' <=> v \in subs, v \in stale' <=> v \in stale,
         chan'[v] = chan[v], pend'[v] = pend[v], wire'[v] = wire[v], conn'[v] = conn[v], closed'[v] = closed[v],
         got'[v] = got[v], after'[v] = after[v], Met(v)' = Met(v), owed'[v] = owed[v]
  PROVE  StreamAt(v)'
<1>1. InFlight(v)' = InFlight(v)
      BY DEF InFlight
<1> QED BY <1>1 DEF StreamAt

LEMMA PublishKeeps ==
  ASSUME HubInv, Publish
  PROVE  HubInv'
<1>1. next \in Nat /\ history \in Seq(Int) /\ HistoryInv /\ next' = next + 1
      BY DEF HubInv, HubTypes, Publish
<1>2. history' \in Seq(Int) /\ HistoryInv'
      BY <1>1, HistoryKept DEF HistoryInv, Publish
<1>3. HubTypes'
  <2>1. \A w \in Watchers : chan[w] \in Seq(Int) /\ Append(chan[w], next') \in Seq(Int)
        BY <1>1, AppendProperties DEF HubInv, HubTypes
  <2>2. chan' \in [Watchers -> Seq(Int)]
        BY <2>1 DEF Publish
  <2>3. closed' \in [Watchers -> BOOLEAN] /\ subs' \subseteq Watchers
        BY DEF HubInv, HubTypes, Publish
  <2> QED BY <1>1, <1>2, <2>2, <2>3 DEF HubInv, HubTypes, Publish, stream, client, ghosts
<1>4. ASSUME NEW w \in Watchers PROVE StreamAt(w)'
  <2>1. /\ conn'[w] = conn[w] /\ wire'[w] = wire[w] /\ pend'[w] = pend[w] /\ got'[w] = got[w] /\ after'[w] = after[w]
        /\ Met(w)' = Met(w) /\ owed'[w] = owed[w] /\ stale' = stale
        BY DEF Publish, stream, client, ghosts, Met
  <2>2. HubTypes /\ StreamAt(w)
        BY DEF HubInv, StreamInv
  <2>3. InFlight(w) \in Seq(Int) /\ got[w] \in Seq(Int) /\ after[w] \in Nat /\ owed[w] \in BOOLEAN
        BY <2>2, FlightTyped
  <2>4. \A i \in 1..Len(InFlight(w)) : InFlight(w)[i] <= next
        BY <2>2 DEF StreamAt, Ordered
  <2>5. Ordered(InFlight(w), got[w], after[w], next)
        BY <2>2 DEF StreamAt
  <2>6. w \notin stale => Covered(InFlight(w), Met(w), after[w], next, owed[w], w \in subs)
        BY <2>2 DEF StreamAt
  <2>7. CASE w \in subs /\ ~ Full(w)
    <3>1. chan'[w] = Append(chan[w], next + 1) /\ w \in subs' /\ closed'[w] = closed[w]
          BY <1>1, <2>7 DEF Publish, HubInv, HubTypes
    <3>2. conn[w] /\ ~ closed[w]
          BY <2>2, <2>7, <1>1 DEF StreamAt
    <3>3. InFlight(w)' = Append(InFlight(w), next + 1)
      <4>1. next + 1 \in Int /\ <<next + 1>> \in Seq(Int)
            BY <1>1
      <4>2. Append(chan[w], next + 1) = chan[w] \o <<next + 1>>
            BY <2>2, <4>1, FlightTyped, AppendIsConcat
      <4>3. Append(InFlight(w), next + 1) = InFlight(w) \o <<next + 1>>
            BY <2>2, <4>1, FlightTyped, AppendIsConcat
      <4>4. (wire[w] \o pend[w]) \o (chan[w] \o <<next + 1>>) = InFlight(w) \o <<next + 1>>
        <5>1. wire[w] \o pend[w] \in Seq(Int) /\ chan[w] \in Seq(Int)
              BY <2>2, FlightTyped
        <5> QED BY <4>1, <5>1, Reassociated DEF InFlight
      <4> QED BY <2>1, <3>1, <4>2, <4>3, <4>4 DEF InFlight
    <3>4. Ordered(InFlight(w)', got[w], after[w], next + 1)
          BY <1>1, <2>3, <2>5, <3>3, OrderedPublished
    <3>5. w \notin stale => Covered(InFlight(w)', Met(w), after[w], next + 1, owed[w], TRUE)
          BY <1>1, <2>3, <2>4, <2>6, <2>7, <3>3, CoveredPublished
    <3> QED BY <1>1, <2>1, <3>1, <3>2, <3>4, <3>5 DEF StreamAt
  <2>8. CASE ~ (w \in subs /\ ~ Full(w))
    <3>1. chan'[w] = chan[w] /\ w \notin subs'
          BY <2>8 DEF Publish
    <3>2. InFlight(w)' = InFlight(w)
          BY <2>1, <3>1 DEF InFlight
    <3>3. Ordered(InFlight(w)', got[w], after[w], next + 1)
          BY <1>1, <2>3, <2>5, <3>2, OrderedPublished
    <3>4. w \notin stale => Covered(InFlight(w)', Met(w), after[w], next + 1, owed[w], FALSE)
      <4>1. SUFFICES ASSUME w \notin stale PROVE Covered(InFlight(w), Met(w), after[w], next + 1, owed[w], FALSE)
            BY <3>2
      <4>2. (w \in subs) \in BOOLEAN
            OBVIOUS
      <4> QED BY <1>1, <2>3, <2>4, <2>6, <4>1, <4>2, CoveredPublished
    <3>5. w \notin stale => Covered(InFlight(w)', Met(w), after[w], next + 1, owed[w], w \in subs')
          BY <3>1, <3>4 DEF Covered
    <3>6. ~ conn[w] => wire[w] = <<>> /\ pend[w] = <<>> /\ chan[w] = <<>>
          BY <2>2 DEF StreamAt
    <3> QED BY <1>1, <2>1, <3>1, <3>3, <3>5, <3>6 DEF StreamAt
  <2> QED BY <2>7, <2>8
<1> QED BY <1>2, <1>3, <1>4 DEF HubInv, StreamInv

LEMMA SubscribeKeeps ==
  ASSUME HubInv, NEW w \in Watchers, Subscribe(w)
  PROVE  HubInv'
<1> DEFINE a == after[w]
           c == IF Gap(a) THEN ConnectedGap ELSE Connected
           q == <<c>> \o Replay(a)
           kn == IF a = 0 THEN Met(w) \cup 1..(Oldest - 1) ELSE Met(w)
<1>1. /\ next \in Nat /\ history \in Seq(Int) /\ HistoryInv /\ HubTypes /\ StreamAt(w) /\ a \in Nat
      /\ next' = next /\ history' = history
      BY DEF HubInv, HubTypes, StreamInv, Subscribe
<1>2. /\ Replay(a) \in Seq(Int) /\ Rising(Replay(a))
      /\ \A i \in 1..Len(Replay(a)) : Replay(a)[i] \in Oldest..next /\ Replay(a)[i] > a
      /\ ToSet(Replay(a)) = {x \in Oldest..next : x > a}
      /\ Oldest \in 1..(next + 1)
      BY <1>1, ReplayRight, OldestRight
<1>3. c \in {Connected, ConnectedGap} /\ c \in Int /\ q \in Seq(Int)
  <2>1. c \in {Connected, ConnectedGap} /\ c \in Int
        BY DEF Connected, ConnectedGap
  <2> HIDE DEF c
  <2> QED BY <1>2, <2>1, ItemsPrepend
<1>4. /\ conn'[w] = TRUE /\ subs' = subs \cup {w} /\ chan'[w] = <<>> /\ closed'[w] = FALSE /\ pend'[w] = q /\ wire'[w] = <<>>
      /\ after' = after /\ got' = got /\ owed' = owed /\ stale' = stale
      BY DEF HubInv, HubTypes, Subscribe
<1>5. \A v \in Watchers \ {w} : /\ conn'[v] = conn[v] /\ chan'[v] = chan[v] /\ closed'[v] = closed[v]
                                /\ pend'[v] = pend[v] /\ wire'[v] = wire[v] /\ Met(v)' = Met(v)
      BY DEF HubInv, HubTypes, Subscribe, Met
<1>6. HubTypes'
  <2>1. known' \in [Watchers -> SUBSET Int] /\ lost' \in [Watchers -> SUBSET Int]
    <3>1. 1..(Oldest - 1) \in SUBSET Int
          OBVIOUS
    <3> QED BY <1>1, <3>1 DEF HubTypes, Subscribe
  <2>2. q \in Seq(Int) /\ <<>> \in Seq(Int)
        BY <1>3
  <2>3. /\ conn' = [conn EXCEPT ![w] = TRUE] /\ chan' = [chan EXCEPT ![w] = <<>>] /\ closed' = [closed EXCEPT ![w] = FALSE]
        /\ pend' = [pend EXCEPT ![w] = q] /\ wire' = [wire EXCEPT ![w] = <<>>]
        BY DEF Subscribe
  <2> HIDE DEF q
  <2> QED BY <1>1, <1>4, <2>1, <2>2, <2>3 DEF HubTypes
<1>7. Met(w)' = kn
  <2>1. known'[w] = IF a = 0 /\ w \notin begun THEN known[w] \cup 1..(Oldest - 1) ELSE known[w]
        BY <1>1 DEF HubTypes, Subscribe
  <2>2. lost'[w] = IF a = 0 /\ w \in begun THEN lost[w] \cup (1..(Oldest - 1) \ known[w]) ELSE lost[w]
        BY <1>1 DEF HubTypes, Subscribe
  <2> QED BY <2>1, <2>2 DEF Met
<1>8. ASSUME NEW v \in Watchers PROVE StreamAt(v)'
  <2>1. CASE v # w
    <3>1. StreamAt(v) /\ (v \in subs' <=> v \in subs)
          BY <1>4, <2>1 DEF HubInv, StreamInv
    <3> QED BY <1>1, <1>4, <1>5, <2>1, <3>1, Untouched
  <2>2. CASE v = w
    <3>1. ~ conn[w] /\ InFlight(w) = <<>>
      <4>1. ~ conn[w]
            BY DEF Subscribe
      <4> QED BY <1>1, <4>1, NothingThere DEF StreamAt, InFlight
    <3>2. InFlight(w)' = q
      <4> HIDE DEF q
      <4> QED BY <1>3, <1>4, NothingThere DEF InFlight
    <3>3. Ordered(<<>>, got[w], a, next)
          BY <1>1, <3>1 DEF StreamAt
    <3>4. Ordered(q, got[w], a, next)
      <4>1. got[w] \in Seq(Int)
            BY <1>1, FlightTyped
      <4>2. \A i \in 1..Len(Replay(a)) : Replay(a)[i] <= next /\ Replay(a)[i] > a
            BY <1>2
      <4> HIDE DEF a, c
      <4> QED BY <1>1, <1>2, <1>3, <3>3, <4>1, <4>2, OrderedBegun
    <3>5. w \notin stale => Covered(q, kn, a, next, owed[w], TRUE)
      <4>1. SUFFICES ASSUME w \notin stale PROVE Covered(q, kn, a, next, owed[w], TRUE)
            OBVIOUS
      <4>2. Covered(<<>>, Met(w), a, next, owed[w], FALSE)
            BY <1>1, <3>1, <4>1, CoveredLost DEF StreamAt
      <4>3. c = IF a # 0 /\ Oldest > 1 /\ a < Oldest - 1 THEN ConnectedGap ELSE Connected
            BY DEF Gap
      <4>4. owed[w] \in BOOLEAN
            BY <1>1, FlightTyped
      <4> HIDE DEF a, c
      <4> QED BY <1>1, <1>2, <4>2, <4>3, <4>4, CoveredBegun
    <3> HIDE DEF a, q, kn
    <3> QED BY <1>1, <1>4, <1>7, <2>2, <3>2, <3>4, <3>5 DEF StreamAt, a
  <2> QED BY <2>1, <2>2
<1>9. HistoryInv'
      BY <1>1 DEF HistoryInv
<1> QED BY <1>6, <1>8, <1>9 DEF HubInv, StreamInv

\* The handler passes an item on: what is on its way stays as it is.
LEMMA WriteKeeps ==
  ASSUME HubInv, NEW w \in Watchers, WritePending(w) \/ WriteLive(w)
  PROVE  HubInv'
<1>1. HubTypes /\ StreamAt(w) /\ HistoryInv
      BY DEF HubInv, StreamInv
<1>2. /\ InFlight(w) \in Seq(Int) /\ wire[w] \in Seq(Int) /\ pend[w] \in Seq(Int) /\ chan[w] \in Seq(Int)
      BY <1>1, FlightTyped
<1>3. /\ next' = next /\ history' = history /\ subs' = subs /\ closed' = closed /\ conn' = conn
      /\ after' = after /\ known' = known /\ lost' = lost /\ got' = got /\ owed' = owed /\ stale' = stale
      /\ conn[w] /\ \A v \in Watchers : Met(v)' = Met(v)
      BY DEF WritePending, WriteLive, hub, client, ghosts, Met
<1>4. HubTypes' /\ HistoryInv'
  <2>1. wire' \in [Watchers -> Seq(Int)] /\ pend' \in [Watchers -> Seq(Int)] /\ chan' \in [Watchers -> Seq(Int)]
    <3>1. CASE WritePending(w)
      <4>1. Append(wire[w], Head(pend[w])) \in Seq(Int) /\ Tail(pend[w]) \in Seq(Int)
            BY <1>2, <3>1, ItemsTail, AppendProperties DEF WritePending
      <4> QED BY <1>1, <3>1, <4>1 DEF WritePending, HubTypes, hub
    <3>2. CASE WriteLive(w)
      <4>1. Append(wire[w], Head(chan[w])) \in Seq(Int) /\ Tail(chan[w]) \in Seq(Int)
            BY <1>2, <3>2, ItemsTail, AppendProperties DEF WriteLive
      <4> QED BY <1>1, <3>2, <4>1 DEF WriteLive, HubTypes
    <3> QED BY <3>1, <3>2
  <2> QED BY <1>1, <1>3, <2>1 DEF HubTypes, HistoryInv
<1>5. \A v \in Watchers \ {w} : wire'[v] = wire[v] /\ pend'[v] = pend[v] /\ chan'[v] = chan[v]
      BY <1>1 DEF WritePending, WriteLive, HubTypes, hub
<1>6. InFlight(w)' = InFlight(w)
  <2>1. CASE WritePending(w)
    <3>1. wire'[w] = Append(wire[w], Head(pend[w])) /\ pend'[w] = Tail(pend[w]) /\ chan'[w] = chan[w] /\ pend[w] # <<>>
          BY <1>1, <2>1 DEF WritePending, HubTypes, hub
    <3>2. wire'[w] \o pend'[w] = wire[w] \o pend[w]
          BY <1>2, <3>1, HandedOn
    <3> QED BY <3>1, <3>2 DEF InFlight
  <2>2. CASE WriteLive(w)
    <3>1. /\ wire'[w] = Append(wire[w], Head(chan[w])) /\ chan'[w] = Tail(chan[w])
          /\ pend'[w] = <<>> /\ pend[w] = <<>> /\ chan[w] # <<>>
          BY <1>1, <2>2 DEF WriteLive, HubTypes
    <3>2. wire'[w] \in Seq(Int)
          BY <1>4 DEF HubTypes
    <3>3. wire'[w] \o <<>> = wire'[w] /\ wire[w] \o <<>> = wire[w]
          BY <1>2, <3>2, ConcatEmptySeq
    <3>4. wire'[w] \o chan'[w] = wire[w] \o chan[w]
          BY <1>2, <3>1, HandedOn
    <3> QED BY <3>1, <3>3, <3>4 DEF InFlight
  <2> QED BY <2>1, <2>2
<1>7. ASSUME NEW v \in Watchers PROVE StreamAt(v)'
  <2>1. CASE v # w
    <3>1. StreamAt(v)
          BY DEF HubInv, StreamInv
    <3> QED BY <1>3, <1>5, <2>1, <3>1, Untouched
  <2>2. CASE v = w
        BY <1>1, <1>3, <1>6, <2>2 DEF StreamAt
  <2> QED BY <2>1, <2>2
<1> QED BY <1>4, <1>7 DEF HubInv, StreamInv

\* A stream that is gone, with all that was on its way.
LEMMA EndKeeps ==
  ASSUME HubInv, NEW w \in Watchers, StreamEnds(w) \/ StreamBreaks(w)
  PROVE  HubInv'
<1>1. HubTypes /\ StreamAt(w) /\ HistoryInv
      BY DEF HubInv, StreamInv
<1>2. /\ next' = next /\ history' = history /\ closed' = closed /\ after' = after /\ known' = known /\ lost' = lost
      /\ got' = got /\ owed' = owed /\ stale' = stale /\ \A v \in Watchers : Met(v)' = Met(v)
      BY DEF StreamEnds, StreamBreaks, hub, client, ghosts, Met
<1>3. /\ ~ conn'[w] /\ w \notin subs' /\ wire'[w] = <<>> /\ pend'[w] = <<>> /\ chan'[w] = <<>>
  <2>1. CASE StreamEnds(w)
        BY <1>1, <2>1 DEF StreamEnds, StreamAt, HubTypes, hub
  <2>2. CASE StreamBreaks(w)
        BY <1>1, <2>2 DEF StreamBreaks, HubTypes
  <2> QED BY <2>1, <2>2
<1>4. \A v \in Watchers \ {w} : /\ conn'[v] = conn[v] /\ wire'[v] = wire[v] /\ pend'[v] = pend[v] /\ chan'[v] = chan[v]
                                /\ (v \in subs' <=> v \in subs)
      BY <1>1 DEF StreamEnds, StreamBreaks, HubTypes, hub
<1>5. HubTypes' /\ HistoryInv'
  <2>1. <<>> \in Seq(Int)
        BY EmptySeq
  <2>2. /\ subs' \subseteq Watchers /\ chan' \in [Watchers -> Seq(Int)] /\ pend' \in [Watchers -> Seq(Int)]
        /\ wire' \in [Watchers -> Seq(Int)] /\ conn' \in [Watchers -> BOOLEAN]
    <3>1. CASE StreamEnds(w)
          BY <1>1, <2>1, <3>1 DEF StreamEnds, HubTypes, hub
    <3>2. CASE StreamBreaks(w)
          BY <1>1, <2>1, <3>2 DEF StreamBreaks, HubTypes
    <3> QED BY <3>1, <3>2
  <2> QED BY <1>1, <1>2, <2>2 DEF HubTypes, HistoryInv
<1>6. ASSUME NEW v \in Watchers PROVE StreamAt(v)'
  <2>1. CASE v # w
    <3>1. StreamAt(v)
          BY DEF HubInv, StreamInv
    <3> QED BY <1>2, <1>4, <2>1, <3>1, Untouched
  <2>2. CASE v = w
    <3>1. InFlight(w)' = <<>>
          BY <1>3, NothingThere DEF InFlight
    <3>2. got[w] \in Seq(Int)
          BY <1>1, FlightTyped
    <3>3. Ordered(<<>>, got[w], after[w], next)
          BY <1>1, <3>2, OrderedLost DEF StreamAt
    <3>4. w \notin stale => Covered(<<>>, Met(w), after[w], next, owed[w], FALSE)
          BY <1>1, CoveredLost DEF StreamAt
    <3>5. w \notin stale => Covered(<<>>, Met(w), after[w], next, owed[w], w \in subs')
          BY <1>3, <3>4 DEF Covered
    <3> QED BY <1>2, <1>3, <2>2, <3>1, <3>3, <3>5 DEF StreamAt
  <2> QED BY <2>1, <2>2
<1> QED BY <1>5, <1>6 DEF HubInv, StreamInv

LEMMA TailOfConcat ==
  ASSUME NEW a \in Seq(Int), NEW b \in Seq(Int), a # <<>>
  PROVE  Tail(a \o b) = Tail(a) \o b /\ (a \o b)[1] = Head(a) /\ a \o b # <<>>
<1> DEFINE x == Head(a)
           t == Tail(a) \o b
<1>1. x \in Int /\ Tail(a) \in Seq(Int) /\ <<x>> \in Seq(Int) /\ t \in Seq(Int) /\ a = <<x>> \o Tail(a)
      BY ItemsTail
<1>2. a \o b = <<x>> \o t
      BY <1>1, ConcatAssociative
<1> HIDE DEF x, t
<1>3. Tail(<<x>> \o t) = t /\ (<<x>> \o t)[1] = x /\ <<x>> \o t # <<>>
      BY <1>1
<1> QED BY <1>2, <1>3 DEF x, t

LEMMA ReceiveKeeps ==
  ASSUME HubInv, NEW w \in Watchers, Receive(w)
  PROVE  HubInv'
<1> DEFINE q == InFlight(w)
           item == Head(wire[w])
<1>1. HubTypes /\ StreamAt(w) /\ HistoryInv /\ next \in Nat
      BY DEF HubInv, StreamInv, HubTypes
<1>2. /\ q \in Seq(Int) /\ wire[w] \in Seq(Int) /\ pend[w] \in Seq(Int) /\ chan[w] \in Seq(Int)
      /\ wire[w] \o pend[w] \in Seq(Int)
      /\ got[w] \in Seq(Int) /\ after[w] \in Nat /\ Met(w) \in SUBSET Int /\ owed[w] \in BOOLEAN
      BY <1>1, FlightTyped
<1>3. /\ next' = next /\ history' = history /\ subs' = subs /\ closed' = closed /\ chan' = chan
      /\ conn' = conn /\ pend' = pend /\ lost' = lost /\ stale' = stale /\ conn[w] /\ wire[w] # <<>>
      /\ wire' = [wire EXCEPT ![w] = Tail(wire[w])]
      BY <1>1 DEF Receive, hub
<1>4. item \in Int /\ Tail(wire[w]) \in Seq(Int) /\ wire'[w] = Tail(wire[w]) /\ \A v \in Watchers \ {w} : wire'[v] = wire[v]
      BY <1>1, <1>2, <1>3, ItemsTail DEF HubTypes
<1>5. InFlight(w)' = Tail(q) /\ q[1] = item /\ q # <<>>
  <2>1. Tail(wire[w] \o pend[w]) = Tail(wire[w]) \o pend[w] /\ (wire[w] \o pend[w])[1] = item /\ wire[w] \o pend[w] # <<>>
        BY <1>2, <1>3, TailOfConcat
  <2>2. /\ Tail((wire[w] \o pend[w]) \o chan[w]) = Tail(wire[w] \o pend[w]) \o chan[w]
        /\ ((wire[w] \o pend[w]) \o chan[w])[1] = Head(wire[w] \o pend[w])
        /\ (wire[w] \o pend[w]) \o chan[w] # <<>>
        BY <1>2, <2>1, TailOfConcat
  <2>3. Head(wire[w] \o pend[w]) = item
        BY <1>2, <2>1, ItemsTail
  <2> QED BY <1>3, <1>4, <2>1, <2>2, <2>3 DEF InFlight
<1>6. Ordered(q, got[w], after[w], next) /\ (w \notin stale => Covered(q, Met(w), after[w], next, owed[w], w \in subs))
      BY <1>1 DEF StreamAt
<1>7. (w \in subs) \in BOOLEAN /\ (w \in subs => ~ closed[w])
      BY <1>1 DEF StreamAt
<1>8. wire' \in [Watchers -> Seq(Int)] /\ HistoryInv'
      BY <1>1, <1>3, <1>4 DEF HubTypes, HistoryInv
<1>9. CASE item <= Connected
  <2>1. /\ after' = after /\ known' = known /\ got' = got /\ owed' = [owed EXCEPT ![w] = owed[w] \/ item = ConnectedGap]
        /\ \A v \in Watchers : Met(v)' = Met(v)
        BY <1>1, <1>3, <1>9 DEF Receive, Met
  <2>2. owed'[w] = (owed[w] \/ item = ConnectedGap) /\ \A v \in Watchers \ {w} : owed'[v] = owed[v]
        BY <1>1, <2>1 DEF HubTypes
  <2>3. HubTypes'
    <3>1. owed' \in [Watchers -> BOOLEAN]
          BY <1>1, <2>1 DEF HubTypes
    <3> QED BY <1>1, <1>3, <1>8, <2>1, <3>1 DEF HubTypes
  <2>4. Ordered(Tail(q), got[w], after[w], next)
    <3> HIDE DEF q, item
    <3> QED BY <1>1, <1>2, <1>5, <1>6, <1>9, OrderedTaken
  <2>5. w \notin stale => Covered(Tail(q), Met(w)', after'[w], next, owed'[w], w \in subs)
    <3>1. owed'[w] \in BOOLEAN /\ after'[w] = after[w] /\ Met(w)' = Met(w)
          BY <2>1, <2>3 DEF HubTypes
    <3>2. PICK b \in BOOLEAN : b <=> w \in subs
          OBVIOUS
    <3> HIDE DEF q, item
    <3> SUFFICES ASSUME w \notin stale PROVE Covered(Tail(q), Met(w)', after'[w], next, owed'[w], b)
        BY <3>2 DEF Covered
    <3>3. Covered(q, Met(w), after[w], next, owed[w], b)
          BY <1>6, <3>2 DEF Covered
    <3>4. q[1] <= Connected /\ ~ (q[1] > Connected) /\ q[1] = item
          BY <1>4, <1>5, <1>9 DEF Connected
    <3>5. (owed'[w] <=> owed[w] \/ q[1] = ConnectedGap) /\ after'[w] = after[w] /\ Met(w)' = Met(w)
          BY <2>2, <3>1, <3>4, Zenon
    <3>6. /\ q \in Seq(Int) /\ q # <<>> /\ got[w] \in Seq(Int) /\ after[w] \in Nat /\ next \in Nat /\ owed[w] \in BOOLEAN
          /\ Ordered(q, got[w], after[w], next)
          BY <1>1, <1>2, <1>5, <1>6
    <3>7. PICK told, c, k : told \in BOOLEAN /\ told = owed'[w] /\ c = after'[w] /\ k = Met(w)'
          BY <3>1
    <3>8. Covered(Tail(q), k, c, next, told, b)
          BY <3>2, <3>3, <3>4, <3>5, <3>6, <3>7, CoveredTaken
    <3> QED BY <3>7, <3>8
  <2>6. StreamAt(w)'
    <3> HIDE DEF q, item
    <3> QED BY <1>3, <1>5, <1>7, <2>1, <2>2, <2>4, <2>5 DEF StreamAt
  <2>7. ASSUME NEW v \in Watchers \ {w} PROVE StreamAt(v)'
    <3>1. StreamAt(v)
          BY DEF HubInv, StreamInv
    <3> QED BY <1>3, <1>4, <2>1, <2>2, <3>1, Untouched
  <2> QED BY <1>8, <2>3, <2>6, <2>7 DEF HubInv, StreamInv
<1>10. CASE item > Connected
  <2>1. /\ owed' = owed /\ after' = [after EXCEPT ![w] = IF item > after[w] THEN item ELSE after[w]]
        /\ known' = [known EXCEPT ![w] = known[w] \cup {item}] /\ got' = [got EXCEPT ![w] = Append(got[w], item)]
        BY <1>1, <1>4, <1>10 DEF Receive, Connected
  <2>2. /\ after'[w] = (IF item > after[w] THEN item ELSE after[w]) /\ known'[w] = known[w] \cup {item}
        /\ got'[w] = Append(got[w], item)
        /\ \A v \in Watchers \ {w} : after'[v] = after[v] /\ Met(v)' = Met(v) /\ got'[v] = got[v]
        /\ Met(w)' = Met(w) \cup {item}
        BY <1>1, <1>3, <2>1 DEF HubTypes, Met
  <2>3. HubTypes'
    <3>1. /\ (IF item > after[w] THEN item ELSE after[w]) \in Nat /\ known[w] \cup {item} \in SUBSET Int
          /\ Append(got[w], item) \in Seq(Int)
          BY <1>1, <1>2, <1>4, <1>10, AppendProperties DEF Connected, HubTypes
    <3>2. after' \in [Watchers -> Nat] /\ known' \in [Watchers -> SUBSET Int] /\ got' \in [Watchers -> Seq(Int)]
      <4> HIDE DEF item
      <4> QED BY <1>1, <2>1, <3>1 DEF HubTypes
    <3> QED BY <1>1, <1>3, <1>8, <2>1, <3>2 DEF HubTypes
  <2>4. Ordered(Tail(q), Append(got[w], item), IF item > after[w] THEN item ELSE after[w], next)
    <3> HIDE DEF q, item
    <3> QED BY <1>1, <1>2, <1>5, <1>6, <1>10, OrderedTaken
  <2>5. w \notin stale => Covered(Tail(q), Met(w)', after'[w], next, owed'[w], w \in subs)
    <3>1. owed'[w] \in BOOLEAN /\ owed'[w] = owed[w]
          BY <2>1, <2>3 DEF HubTypes
    <3>2. PICK b \in BOOLEAN : b <=> w \in subs
          OBVIOUS
    <3> HIDE DEF q, item
    <3> SUFFICES ASSUME w \notin stale PROVE Covered(Tail(q), Met(w)', after'[w], next, owed'[w], b)
        BY <3>2 DEF Covered
    <3>3. Covered(q, Met(w), after[w], next, owed[w], b)
          BY <1>6, <3>2 DEF Covered
    <3>4. q[1] > Connected /\ ~ (q[1] <= Connected) /\ q[1] = item
          BY <1>4, <1>5, <1>10 DEF Connected
    <3>5. /\ (owed'[w] <=> owed[w]) /\ (q[1] > after[w] => after'[w] = q[1]) /\ (~ (q[1] > after[w]) => after'[w] = after[w])
          /\ Met(w)' = Met(w) \cup {q[1]}
          BY <2>2, <3>1, <3>4, Zenon
    <3>6. /\ q \in Seq(Int) /\ q # <<>> /\ got[w] \in Seq(Int) /\ after[w] \in Nat /\ next \in Nat /\ owed[w] \in BOOLEAN
          /\ Ordered(q, got[w], after[w], next)
          BY <1>1, <1>2, <1>5, <1>6
    <3>7. PICK told, c, k : told \in BOOLEAN /\ told = owed'[w] /\ c = after'[w] /\ k = Met(w)'
          BY <3>1
    <3>8. Covered(Tail(q), k, c, next, told, b)
          BY <3>2, <3>3, <3>4, <3>5, <3>6, <3>7, CoveredTaken
    <3> QED BY <3>7, <3>8
  <2>6. StreamAt(w)'
    <3> HIDE DEF q, item
    <3> QED BY <1>3, <1>5, <1>7, <2>1, <2>2, <2>4, <2>5 DEF StreamAt
  <2>7. ASSUME NEW v \in Watchers \ {w} PROVE StreamAt(v)'
    <3>1. StreamAt(v)
          BY DEF HubInv, StreamInv
    <3> QED BY <1>3, <1>4, <2>1, <2>2, <3>1, Untouched
  <2> QED BY <1>8, <2>3, <2>6, <2>7 DEF HubInv, StreamInv
<1> QED BY <1>4, <1>9, <1>10 DEF Connected

LEMMA ReloadKeeps ==
  ASSUME HubInv, NEW w \in Watchers, Reload(w)
  PROVE  HubInv'
<1>1. HubTypes /\ StreamAt(w) /\ HistoryInv /\ next \in Nat
      BY DEF HubInv, StreamInv, HubTypes
<1>2. /\ next' = next /\ history' = history /\ subs' = subs /\ closed' = closed /\ chan' = chan
      /\ conn' = conn /\ pend' = pend /\ wire' = wire /\ after' = after /\ got' = got /\ stale' = stale
      /\ known' = [known EXCEPT ![w] = 1..next] /\ lost' = [lost EXCEPT ![w] = {}] /\ owed' = [owed EXCEPT ![w] = FALSE]
      BY DEF Reload, hub, stream
<1>3. /\ Met(w)' = 1..next /\ ~ owed'[w] /\ owed'[w] = FALSE
      /\ \A v \in Watchers \ {w} : Met(v)' = Met(v) /\ owed'[v] = owed[v]
      BY <1>1, <1>2 DEF HubTypes, Met
<1>4. HubTypes' /\ HistoryInv'
  <2>1. known' \in [Watchers -> SUBSET Int] /\ lost' \in [Watchers -> SUBSET Int] /\ owed' \in [Watchers -> BOOLEAN]
        BY <1>1, <1>2 DEF HubTypes
  <2> QED BY <1>1, <1>2, <2>1 DEF HubTypes, HistoryInv
<1>5. InFlight(w)' = InFlight(w) /\ InFlight(w) \in Seq(Int) /\ after[w] \in Nat
      BY <1>1, <1>2, FlightTyped DEF InFlight
<1>6. w \notin stale => Covered(InFlight(w), 1..next, after[w], next, FALSE, w \in subs)
  <2> SUFFICES ASSUME w \notin stale PROVE Covered(InFlight(w), 1..next, after[w], next, FALSE, w \in subs)
      OBVIOUS
  <2>1. after[w] <= next
        BY <1>1 DEF StreamAt, Covered
  <2>2. \A i \in 1..Len(InFlight(w)) : InFlight(w)[i] <= next
        BY <1>1 DEF StreamAt, Ordered
  <2> QED BY <1>1, <1>5, <2>1, <2>2, CoveredReload
<1>7. StreamAt(w)'
      BY <1>1, <1>2, <1>3, <1>5, <1>6 DEF StreamAt
<1>8. ASSUME NEW v \in Watchers \ {w} PROVE StreamAt(v)'
  <2>1. StreamAt(v)
        BY DEF HubInv, StreamInv
  <2> QED BY <1>2, <1>3, <2>1, Untouched
<1> QED BY <1>4, <1>7, <1>8 DEF HubInv, StreamInv

\* No event, and no client that is connected or has received any.
LEMMA FreshHub ==
  ASSUME next \in Nat, next = 0, history = <<>>, subs = {}, after \in [Watchers -> Nat], owed \in [Watchers -> BOOLEAN],
         chan = [w \in Watchers |-> <<>>], closed = [w \in Watchers |-> FALSE], conn = [w \in Watchers |-> FALSE],
         pend = [w \in Watchers |-> <<>>], wire = [w \in Watchers |-> <<>>], known = [w \in Watchers |-> {}],
         lost = [w \in Watchers |-> {}],
         got = [w \in Watchers |-> <<>>], \A w \in Watchers : after[w] # 0 => w \in stale
  PROVE  HubInv
<1>1. <<>> \in Seq(Int) /\ Len(<<>>) = 0 /\ ToSet(<<>>) = {} /\ 1..0 = {}
      BY DEF ToSet
<1>2. HubTypes /\ HistoryInv
      BY <1>1 DEF HubTypes, HistoryInv
<1>3. ASSUME NEW w \in Watchers PROVE StreamAt(w)
  <2>1. wire[w] = <<>> /\ pend[w] = <<>> /\ chan[w] = <<>> /\ got[w] = <<>> /\ Met(w) = {} /\ InFlight(w) = <<>>
        BY NothingThere DEF InFlight, Met
  <2>2. Ordered(<<>>, <<>>, after[w], 0)
        BY <1>1 DEF Ordered, Rising
  <2>3. w \notin stale => Covered(<<>>, {}, after[w], 0, owed[w], w \in subs)
        BY <1>1 DEF Covered
  <2> QED BY <2>1, <2>2, <2>3 DEF StreamAt
<1> QED BY <1>2, <1>3 DEF HubInv, StreamInv

LEMMA HubStep ==
  ASSUME HubInv, [HubNext]_hubVars
  PROVE  HubInv'
<1>1. CASE Publish
      BY <1>1, PublishKeeps
<1>2. CASE Restart
  <2>1. /\ next' = 0 /\ history' = <<>> /\ subs' = {} /\ after' = after /\ owed' = owed
        /\ chan' = [w \in Watchers |-> <<>>] /\ closed' = [w \in Watchers |-> FALSE] /\ conn' = [w \in Watchers |-> FALSE]
        /\ pend' = [w \in Watchers |-> <<>>] /\ wire' = [w \in Watchers |-> <<>>] /\ known' = [w \in Watchers |-> {}]
        /\ got' = [w \in Watchers |-> <<>>] /\ lost' = [w \in Watchers |-> {}] /\ stale' = {w \in Watchers : after[w] # 0}
        BY <1>2 DEF Restart
  <2>2. after' \in [Watchers -> Nat] /\ owed' \in [Watchers -> BOOLEAN] /\ \A w \in Watchers : after'[w] # 0 => w \in stale'
        BY <2>1 DEF HubInv, HubTypes
  <2>3. <<>> \in Seq(Int) /\ Len(<<>>) = 0 /\ ToSet(<<>>) = {} /\ 1..0 = {}
        BY DEF ToSet
  <2>4. HubTypes' /\ HistoryInv'
        BY <2>1, <2>2, <2>3 DEF HubTypes, HistoryInv
  <2>5. ASSUME NEW w \in Watchers PROVE StreamAt(w)'
    <3>1. /\ wire'[w] = <<>> /\ pend'[w] = <<>> /\ chan'[w] = <<>> /\ got'[w] = <<>>
          /\ Met(w)' = {} /\ InFlight(w)' = <<>> /\ ~ closed'[w]
          BY <2>1, NothingThere DEF InFlight, Met
    <3>2. Ordered(<<>>, <<>>, after'[w], 0)
          BY <2>3 DEF Ordered, Rising
    <3>3. w \notin stale' => Covered(<<>>, {}, after'[w], 0, owed'[w], w \in subs')
          BY <2>2, <2>3 DEF Covered
    <3> QED BY <2>1, <3>1, <3>2, <3>3 DEF StreamAt
  <2> QED BY <2>4, <2>5 DEF HubInv, StreamInv
<1>3. ASSUME NEW w \in Watchers, Handler(w) \/ Loop(w) \/ StreamBreaks(w)
      PROVE  HubInv'
      BY <1>3, WriteKeeps, EndKeeps, SubscribeKeeps, ReceiveKeeps, ReloadKeeps DEF Handler, Loop
<1>4. CASE UNCHANGED hubVars
  <2>1. \A w \in Watchers : InFlight(w)' = InFlight(w)
        BY <1>4 DEF hubVars, hub, stream, client, ghosts, InFlight
  <2>2. HubTypes' /\ HistoryInv'
        BY <1>4 DEF HubInv, HubTypes, HistoryInv, hubVars, hub, stream, client, ghosts
  <2>3. \A w \in Watchers : StreamAt(w)'
        BY <1>4, <2>1 DEF HubInv, StreamInv, StreamAt, Met, hubVars, hub, stream, client, ghosts
  <2> QED BY <2>2, <2>3 DEF HubInv, StreamInv
<1> QED BY <1>1, <1>2, <1>3, <1>4 DEF HubNext

LEMMA HubInvDelivers ==
  ASSUME HubInv
  PROVE  Delivered
<1>1. ASSUME NEW w \in subs \ stale, conn[w] PROVE Accounted(w)
  <2>1. w \in Watchers /\ StreamAt(w)
        BY DEF HubInv, StreamInv, HubTypes
  <2>2. Covered(InFlight(w), Met(w), after[w], next, owed[w], w \in subs)
        BY <2>1 DEF StreamAt
  <2> QED BY <2>2 DEF Covered, Accounted, Met
<1>2. ASSUME NEW w \in Watchers
      PROVE  LET s == got[w] \o InFlight(w) IN
             \A i, j \in 1..Len(s) : i < j /\ s[i] > Connected /\ s[j] > Connected => s[i] < s[j]
  <2> DEFINE g == got[w]
             q == InFlight(w)
             s == g \o q
  <2>1. HubTypes /\ Ordered(q, g, after[w], next)
        BY DEF HubInv, StreamInv, StreamAt
  <2>2. g \in Seq(Int) /\ q \in Seq(Int)
        BY <2>1, FlightTyped
  <2>3. Rising(g) /\ Rising(q) /\ \A i \in 1..Len(g), j \in 1..Len(q) : q[j] > Connected => g[i] < q[j]
        BY <2>1 DEF Ordered
  <2>4. Len(s) = Len(g) + Len(q) /\ Len(g) \in Nat /\ Len(q) \in Nat
        BY <2>2, ConcatProperties, LenProperties
  <2>5. \A i \in 1..(Len(g) + Len(q)) : s[i] = IF i <= Len(g) THEN g[i] ELSE q[i - Len(g)]
        BY <2>2, ConcatProperties
  <2> HIDE DEF g, q, s
  <2>6. \A i \in 1..Len(s) : \/ i \in 1..Len(g) /\ s[i] = g[i]
                             \/ i > Len(g) /\ i - Len(g) \in 1..Len(q) /\ s[i] = q[i - Len(g)]
        BY <2>4, <2>5
  <2>7. ASSUME NEW i \in 1..Len(s), NEW j \in 1..Len(s), i < j, s[i] > Connected, s[j] > Connected
        PROVE  s[i] < s[j]
    <3>1. CASE i \in 1..Len(g) /\ s[i] = g[i] /\ j \in 1..Len(g) /\ s[j] = g[j]
          BY <2>3, <2>7, <3>1 DEF Rising
    <3>2. CASE i \in 1..Len(g) /\ s[i] = g[i] /\ j - Len(g) \in 1..Len(q) /\ s[j] = q[j - Len(g)]
          BY <2>3, <2>7, <3>2
    <3>3. CASE i - Len(g) \in 1..Len(q) /\ s[i] = q[i - Len(g)] /\ j - Len(g) \in 1..Len(q) /\ s[j] = q[j - Len(g)]
      <4>1. i - Len(g) < j - Len(g)
            BY <2>4, <2>7
      <4> QED BY <2>3, <3>3, <4>1 DEF Rising
    <3> QED BY <2>4, <2>6, <2>7, <3>1, <3>2, <3>3
  <2> QED BY <2>7 DEF g, q, s
<1> QED BY <1>1, <1>2 DEF Delivered, NoSilentLoss, InOrder

\* Every subscriber is served all of the events of its daemon, and in their
\* order, or is told of the gap (Subscribe and Publish of EventHub, the streaming
\* handler and the client that reconnects), unless it comes back from a sequence
\* of an earlier daemon, or from 0 although a connection of it was lost.
THEOREM DeliveredCorrect == HubSpec => []Delivered
<1>1. HubInit => HubInv
  <2> SUFFICES ASSUME HubInit PROVE HubInv
      OBVIOUS
  <2> QED BY FreshHub DEF HubInit
<1>2. HubInv /\ [HubNext]_hubVars => HubInv'
      BY HubStep
<1>3. HubInv => Delivered
      BY HubInvDelivers
<1> QED BY <1>1, <1>2, <1>3, PTL DEF HubSpec
=============================================================================
