------------------------- MODULE ControlPlaneProofs -------------------------
(***************************************************************************)
(* Proofs about ControlPlane for every set of tunnels, keys and clients    *)
(* and every bound: type correctness and NoOrphans, and what the daemon    *)
(* tells its clients of statuses and events.  What makes NoOrphans         *)
(* inductive is the gate: a task or a mutation in flight works on the      *)
(* record that is stored now, because nothing can commit another one while *)
(* it runs, and the mutation about to commit or to delete has left no      *)
(* object of the tunnel behind.                                            *)
(***************************************************************************)
EXTENDS ControlPlane, TLAPS

Mutating == {"updateRemove", "updateCommit", "deleteRemove", "deleteCommit", "deleteRepair"}
Reading == {"reconcile", "observe"}

\* Who is inside the Manager is who holds its gate.
GateInv ==
  /\ writer # None => readers = {}
  /\ \A c \in Clients : /\ op[c] \in Mutating <=> writer = c
                        /\ op[c] \in Reading <=> c \in readers
  /\ Run \in readers <=> run = "work"

\* Tasks run only inside the gate, and a backend call is given the stored record.
TaskAt(p, id) ==
  /\ tst[<<p, id>>] # "none" =>
       p \in readers \/ (p = writer /\ p \in Clients /\ op[p] = "deleteRepair" /\ id = req[p].id)
  /\ tst[<<p, id>>] = "call" => store[id] # None /\ targ[<<p, id>>] = store[id]
  /\ tst[<<p, id>>] = "publish" => targ[<<p, id>>] \in Event

TaskInv == \A p \in Procs, id \in Ids : TaskAt(p, id)

\* A mutation past its removal has cleared the kernel, and its record is stored.
MutationAt(c) ==
  /\ op[c] \in Mutating => req[c] \in Request /\ store[req[c].id] = req[c].rec
  /\ op[c] \in {"updateRemove", "updateCommit"} => req[c].next \in Record
  /\ op[c] \in {"updateCommit", "deleteCommit"} => kern[req[c].id] = {}

MutationInv == \A c \in Clients : MutationAt(c)

UsedInv == \A id \in Ids : store[id] # None => id \in used

IInv == TypeOK /\ GateInv /\ TaskInv /\ MutationInv /\ UsedInv /\ NoOrphans

-----------------------------------------------------------------------------
(* Types of the operators on records, kernel objects, statuses and events. *)

LEMMA RecordTypes ==
  /\ \A rec \in Record, key \in Keys, en \in BOOLEAN : Successor(rec, key, en) \in Record
  /\ \A key \in Keys, en \in BOOLEAN : [gen |-> 1, key |-> key, en |-> en] \in Record
  /\ \A rec \in Record : rec.en \in BOOLEAN /\ rec.key \in Keys
BY DEF Record, Successor

LEMMA KernelTypes ==
  ASSUME NEW objs, objs \subseteq Object, NEW rec \in Record
  PROVE  /\ Removed(objs, rec) \subseteq Object
         /\ Applied(objs, rec) \subseteq Object
         /\ \A left \in Remains(objs, rec) : left \subseteq Object
BY DEF Removed, Applied, Remains, Partial, Object, Record

LEMMA StatusTypes ==
  ASSUME NEW s \in Status \cup {None}, NEW rec \in Record
  PROVE  /\ Pending(s) \in Status
         /\ Failed(s) \in Status
         /\ ObservedOk(s, rec) \in Status
         /\ \A phase \in Phases : Succeeded(phase, rec) \in Status
BY DEF Pending, Failed, ObservedOk, Succeeded, Observed, Unreported, Status, Phases, Record

LEMMA EventTypes ==
  ASSUME NEW rec \in Record
  PROVE  /\ \A s \in Status : EventOf(s, rec) \in Event
         /\ [phase |-> "deleted", gen |-> rec.gen] \in Event
BY DEF EventOf, Event, Status, Record, Phases

LEMMA FaultTypes ==
  ASSUME faults \in Nat, Fault
  PROVE  faults' \in Nat /\ drifts' = drifts /\ crashes' = crashes
BY DEF Fault

\* A pending status and its event, and a queue entry, have their types.
LEMMA CommitTypes ==
  ASSUME TypeOK, NEW id \in Ids, NEW next \in Record, Commit(id, next)
  PROVE  /\ store' \in [Ids -> Record \cup {None}]
         /\ stat' \in [Ids -> Status \cup {None}]
         /\ evt' \in [Ids -> Event \cup {None}]
         /\ queueAll' \in BOOLEAN /\ queued' \subseteq Ids /\ wake' \in BOOLEAN
<1>1. Pending(stat[id]) \in Status
  BY StatusTypes DEF TypeOK
<1>2. EventOf(Pending(stat[id]), next) \in Event
  BY <1>1, EventTypes
<1> QED
  BY <1>1, <1>2 DEF TypeOK, Commit, MarkPending, Enqueue

\* The result of a removal under the write gate has the types of a report.
LEMMA ResultTypes ==
  ASSUME TypeOK, NEW id \in Ids, NEW rec \in Record, NEW s \in Status, SetResult(id, s, rec)
  PROVE  stat' \in [Ids -> Status \cup {None}] /\ evt' \in [Ids -> Event \cup {None}]
BY EventTypes DEF TypeOK, SetResult

\* The result of a task waits in the task as an event.
LEMMA ReportTypes ==
  ASSUME TypeOK, NEW p \in Procs, NEW id \in Ids, targ[<<p, id>>] \in Record,
         NEW s \in Status, Report(p, id, s)
  PROVE  /\ stat' \in [Ids -> Status \cup {None}]
         /\ tst' \in [Procs \X Ids -> {"none", "todo", "call", "publish"}]
         /\ targ' \in [Procs \X Ids -> Record \cup Event \cup {None}]
<1>1. EventOf(s, targ[<<p, id>>]) \in Event
  BY EventTypes
<1> QED
  BY <1>1 DEF TypeOK, Report

-----------------------------------------------------------------------------
(* Type correctness.                                                       *)

\* A task in its backend call holds a record; see TaskInv.
LEMMA CallType ==
  ASSUME TypeOK, TaskInv, NEW p \in Procs, NEW id \in Ids, tst[<<p, id>>] = "call"
  PROVE  targ[<<p, id>>] \in Record /\ stat[id] \in Status \cup {None} /\ kern[id] \subseteq Object
BY DEF TypeOK, TaskInv, TaskAt

\* The absent record is not a record; see ControlPlaneAssumption.
LEMMA NoneNoRecord == None \notin Record
BY ControlPlaneAssumption

\* A mutation in flight holds a request.
LEMMA RequestType ==
  ASSUME TypeOK, MutationInv, NEW c \in Clients, op[c] \in Mutating
  PROVE  /\ req[c] \in Request /\ req[c].id \in Ids /\ req[c].rec \in Record
         /\ kern[req[c].id] \subseteq Object /\ stat[req[c].id] \in Status \cup {None}
BY DEF TypeOK, MutationInv, MutationAt, Request

LEMMA TypeStep ==
  ASSUME TypeOK, TaskInv, MutationInv, [Next]_vars
  PROVE  TypeOK'
<1> USE ControlPlaneAssumption DEF TypeOK, Procs, gate, cl, task, budget
<1>1. ASSUME NEW id \in Ids, NEW key \in Keys, NEW en \in BOOLEAN, Create(id, key, en) PROVE TypeOK'
  BY <1>1, StatusTypes, EventTypes, RecordTypes DEF Create, MarkPending, Enqueue
<1>2. ASSUME NEW id \in Ids, NEW key \in Keys, NEW en \in BOOLEAN, UpdateInPlace(id, key, en) PROVE TypeOK'
  <2>1. Successor(store[id], key, en) \in Record
    BY <1>2, RecordTypes DEF UpdateInPlace
  <2> QED
    BY <1>2, <2>1, CommitTypes DEF UpdateInPlace
<1>3. ASSUME NEW id \in Ids, NEW en \in BOOLEAN, SetEnabled(id, en) PROVE TypeOK'
  <2>1. Successor(store[id], store[id].key, en) \in Record
    BY <1>3, RecordTypes DEF SetEnabled
  <2> QED
    BY <1>3, <2>1, CommitTypes DEF SetEnabled
<1>4. ASSUME NEW c \in Clients, NEW id \in Ids, NEW key \in Keys, NEW en \in BOOLEAN, UpdateBegin(c, id, key, en) PROVE TypeOK'
  <2>1. Successor(store[id], key, en) \in Record /\ store[id] \in Record
    BY <1>4, RecordTypes DEF UpdateBegin
  <2> DEFINE r == [id |-> id, rec |-> store[id], next |-> Successor(store[id], key, en)]
  <2>2. r \in Request
    BY <2>1 DEF Request
  <2>3. req' = [req EXCEPT ![c] = r]
    BY <1>4 DEF UpdateBegin
  <2>4. req' \in [Clients -> Request \cup {None}]
    BY <2>2, <2>3
  <2> QED
    BY <1>4, <2>4 DEF UpdateBegin, WriteGate, queueVars
<1>5. ASSUME NEW c \in Clients, NEW id \in Ids, DeleteBegin(c, id) PROVE TypeOK'
  <2> DEFINE r == [id |-> id, rec |-> store[id], next |-> None]
  <2>1. r \in Request
    BY <1>5 DEF DeleteBegin, Request
  <2>2. req' \in [Clients -> Request \cup {None}]
    BY <1>5, <2>1 DEF DeleteBegin
  <2> QED
    BY <1>5, <2>2 DEF DeleteBegin, WriteGate, queueVars
<1>6. ASSUME NEW c \in Clients, NEW kind \in {"reconcile", "observe"}, NEW ids \in SUBSET Ids, ReadBegin(c, kind, ids) PROVE TypeOK'
  BY <1>6 DEF ReadBegin, ReadGate, StartTasks, queueVars
<1>7. ASSUME NEW c \in Clients, UpdateRemoved(c) PROVE TypeOK'
  <2>1. req[c] \in Request /\ req[c].id \in Ids /\ req[c].rec \in Record
        /\ kern[req[c].id] \subseteq Object /\ stat[req[c].id] \in Status \cup {None}
    BY <1>7, RequestType DEF UpdateRemoved, Mutating
  <2>2. Succeeded("disabled", req[c].rec) \in Status
    BY <2>1, StatusTypes DEF Phases
  <2>3. stat' \in [Ids -> Status \cup {None}] /\ evt' \in [Ids -> Event \cup {None}]
    BY <1>7, <2>1, <2>2, ResultTypes DEF UpdateRemoved
  <2> DEFINE objs == kern[req[c].id]
  <2>4. /\ Removed(objs, req[c].rec) \subseteq Object
        /\ \A left \in Remains(objs, req[c].rec) : left \subseteq Object
    BY <2>1, KernelTypes
  <2>5. kern' \in [Ids -> SUBSET Object]
    BY <1>7, <2>1, <2>4 DEF UpdateRemoved
  <2> QED
    BY <1>7, <2>3, <2>5, FaultTypes DEF UpdateRemoved, Leave, WriteRelease, queueVars
<1>8. ASSUME NEW c \in Clients, UpdateRemoveFails(c) PROVE TypeOK'
  <2>1. req[c] \in Request /\ req[c].id \in Ids /\ req[c].rec \in Record
        /\ kern[req[c].id] \subseteq Object /\ stat[req[c].id] \in Status \cup {None}
    BY <1>8, RequestType DEF UpdateRemoveFails, Mutating
  <2>2. Failed(stat[req[c].id]) \in Status
    BY <2>1, StatusTypes DEF Phases
  <2>3. stat' \in [Ids -> Status \cup {None}] /\ evt' \in [Ids -> Event \cup {None}]
    BY <1>8, <2>1, <2>2, ResultTypes DEF UpdateRemoveFails
  <2> DEFINE objs == kern[req[c].id]
  <2>4. /\ Removed(objs, req[c].rec) \subseteq Object
        /\ \A left \in Remains(objs, req[c].rec) : left \subseteq Object
    BY <2>1, KernelTypes
  <2>5. kern' \in [Ids -> SUBSET Object]
    BY <1>8, <2>1, <2>4 DEF UpdateRemoveFails
  <2> QED
    BY <1>8, <2>3, <2>5, FaultTypes DEF UpdateRemoveFails, Leave, WriteRelease, queueVars
<1>9. ASSUME NEW c \in Clients, UpdateCommit(c) PROVE TypeOK'
  BY <1>9, StatusTypes, EventTypes, RecordTypes, CommitTypes, RequestType DEF UpdateCommit, WriteRelease, MutationInv, MutationAt, Mutating, Leave
<1>10. ASSUME NEW c \in Clients, UpdateCommitFails(c) PROVE TypeOK'
  BY <1>10, FaultTypes, RequestType DEF UpdateCommitFails, Enqueue, WriteRelease, Mutating, Leave
<1>11. ASSUME NEW c \in Clients, DeleteRemoved(c) PROVE TypeOK'
  <2>1. req[c] \in Request /\ req[c].id \in Ids /\ req[c].rec \in Record
        /\ kern[req[c].id] \subseteq Object /\ stat[req[c].id] \in Status \cup {None}
    BY <1>11, RequestType DEF DeleteRemoved, Mutating
  <2>2. Succeeded("disabled", req[c].rec) \in Status
    BY <2>1, StatusTypes DEF Phases
  <2>3. stat' \in [Ids -> Status \cup {None}] /\ evt' \in [Ids -> Event \cup {None}]
    BY <1>11, <2>1, <2>2, ResultTypes DEF DeleteRemoved
  <2> DEFINE objs == kern[req[c].id]
  <2>4. /\ Removed(objs, req[c].rec) \subseteq Object
        /\ \A left \in Remains(objs, req[c].rec) : left \subseteq Object
    BY <2>1, KernelTypes
  <2>5. kern' \in [Ids -> SUBSET Object]
    BY <1>11, <2>1, <2>4 DEF DeleteRemoved
  <2> QED
    BY <1>11, <2>3, <2>5, FaultTypes DEF DeleteRemoved, Leave, WriteRelease, queueVars
<1>12. ASSUME NEW c \in Clients, DeleteRemoveFails(c) PROVE TypeOK'
  <2>1. req[c] \in Request /\ req[c].id \in Ids /\ req[c].rec \in Record
        /\ kern[req[c].id] \subseteq Object /\ stat[req[c].id] \in Status \cup {None}
    BY <1>12, RequestType DEF DeleteRemoveFails, Mutating
  <2>2. Failed(stat[req[c].id]) \in Status
    BY <2>1, StatusTypes DEF Phases
  <2>3. stat' \in [Ids -> Status \cup {None}] /\ evt' \in [Ids -> Event \cup {None}]
    BY <1>12, <2>1, <2>2, ResultTypes DEF DeleteRemoveFails
  <2> DEFINE objs == kern[req[c].id]
  <2>4. /\ Removed(objs, req[c].rec) \subseteq Object
        /\ \A left \in Remains(objs, req[c].rec) : left \subseteq Object
    BY <2>1, KernelTypes
  <2>5. kern' \in [Ids -> SUBSET Object]
    BY <1>12, <2>1, <2>4 DEF DeleteRemoveFails
  <2> QED
    BY <1>12, <2>3, <2>5, FaultTypes DEF DeleteRemoveFails, Leave, WriteRelease, queueVars
<1>13. ASSUME NEW c \in Clients, DeleteCommit(c) PROVE TypeOK'
  BY <1>13, RequestType, EventTypes DEF DeleteCommit, WriteRelease, queueVars, Mutating, Leave
<1>14. ASSUME NEW c \in Clients, DeleteCommitFails(c) PROVE TypeOK'
  BY <1>14, FaultTypes, RequestType, EventTypes DEF DeleteCommitFails, queueVars, StartTasks, Mutating, Leave
<1>15. ASSUME NEW c \in Clients, DeleteRepaired(c) PROVE TypeOK'
  BY <1>15 DEF DeleteRepaired, WriteRelease, queueVars, Leave
<1>16. ASSUME NEW c \in Clients, ReadDone(c) PROVE TypeOK'
  BY <1>16 DEF ReadDone, ReadRelease, queueVars, Leave
<1>17. ASSUME NEW p \in Procs, NEW id \in Ids, TaskBegin(p, id) PROVE TypeOK'
  <2>1. /\ tst' \in [Procs \X Ids -> {"none", "todo", "call", "publish"}]
        /\ targ' \in [Procs \X Ids -> Record \cup Event \cup {None}]
        /\ lock' \in [Ids -> Procs \cup {None}]
    <3>1. CASE store[id] = None
      BY <1>17, <3>1 DEF TaskBegin
    <3>2. CASE store[id] # None
      <4>1. store[id] \in Record
        BY <3>2
      <4>2. tst' \in [Procs \X Ids -> {"none", "todo", "call", "publish"}]
        BY <1>17, <3>2 DEF TaskBegin
      <4>3. targ' \in [Procs \X Ids -> Record \cup Event \cup {None}]
        BY <1>17, <3>2, <4>1 DEF TaskBegin
      <4>4. lock' \in [Ids -> Procs \cup {None}]
        BY <1>17, <3>2 DEF TaskBegin
      <4> QED
        BY <4>2, <4>3, <4>4
    <3> QED
      BY <3>1, <3>2
  <2> QED
    BY <1>17, <2>1 DEF TaskBegin, queueVars
<1>38. ASSUME NEW p \in Procs, NEW id \in Ids, TaskReadFails(p, id) PROVE TypeOK'
  BY <1>38, FaultTypes DEF TaskReadFails, queueVars, Observing
<1>18. ASSUME NEW p \in Procs, NEW id \in Ids, Reconciled(p, id) PROVE TypeOK'
  <2>1. targ[<<p, id>>] \in Record /\ stat[id] \in Status \cup {None} /\ kern[id] \subseteq Object
    BY <1>18, CallType DEF Reconciled
  <2>2. Succeeded(IF targ[<<p, id>>].en THEN "ready" ELSE "disabled", targ[<<p, id>>]) \in Status
    BY <2>1, StatusTypes DEF Phases
  <2>3. Report(p, id, Succeeded(IF targ[<<p, id>>].en THEN "ready" ELSE "disabled", targ[<<p, id>>]))
    BY <1>18 DEF Reconciled
  <2>4. /\ stat' \in [Ids -> Status \cup {None}]
        /\ tst' \in [Procs \X Ids -> {"none", "todo", "call", "publish"}]
        /\ targ' \in [Procs \X Ids -> Record \cup Event \cup {None}]
    BY <2>1, <2>2, <2>3, ReportTypes
  <2> DEFINE rec == targ[<<p, id>>]
  <2>5. /\ Removed(kern[id], rec) \subseteq Object /\ Applied(kern[id], rec) \subseteq Object
        /\ \A left \in Remains(kern[id], rec) : left \subseteq Object
    BY <2>1, KernelTypes
  <2>6. kern' \in [Ids -> SUBSET Object]
    BY <1>18, <2>5 DEF Reconciled
  <2> QED
    BY <1>18, <2>3, <2>4, <2>6, FaultTypes DEF Reconciled, Report, queueVars
<1>19. ASSUME NEW p \in Procs, NEW id \in Ids, ReconcileFails(p, id) PROVE TypeOK'
  <2>1. targ[<<p, id>>] \in Record /\ stat[id] \in Status \cup {None} /\ kern[id] \subseteq Object
    BY <1>19, CallType DEF ReconcileFails
  <2>2. Failed(stat[id]) \in Status
    BY <2>1, StatusTypes DEF Phases
  <2>3. Report(p, id, Failed(stat[id]))
    BY <1>19 DEF ReconcileFails
  <2>4. /\ stat' \in [Ids -> Status \cup {None}]
        /\ tst' \in [Procs \X Ids -> {"none", "todo", "call", "publish"}]
        /\ targ' \in [Procs \X Ids -> Record \cup Event \cup {None}]
    BY <2>1, <2>2, <2>3, ReportTypes
  <2> DEFINE rec == targ[<<p, id>>]
  <2>5. /\ Removed(kern[id], rec) \subseteq Object /\ Applied(kern[id], rec) \subseteq Object
        /\ \A left \in Remains(kern[id], rec) : left \subseteq Object
    BY <2>1, KernelTypes
  <2>6. kern' \in [Ids -> SUBSET Object]
    <3>1. PICK left \in Remains(kern[id], rec) : kern' = [kern EXCEPT ![id] = left]
      BY <1>19 DEF ReconcileFails
    <3>2. left \subseteq Object
      BY <2>5
    <3> QED
      BY <3>1, <3>2
  <2> QED
    BY <1>19, <2>3, <2>4, <2>6, FaultTypes DEF ReconcileFails, Report, queueVars
<1>20. ASSUME NEW p \in Procs, NEW id \in Ids, ObservedHealthy(p, id) PROVE TypeOK'
  <2>1. targ[<<p, id>>] \in Record /\ stat[id] \in Status \cup {None} /\ kern[id] \subseteq Object
    BY <1>20, CallType DEF ObservedHealthy
  <2>2. ObservedOk(stat[id], targ[<<p, id>>]) \in Status
    BY <2>1, StatusTypes DEF Phases
  <2>3. Report(p, id, ObservedOk(stat[id], targ[<<p, id>>]))
    BY <1>20 DEF ObservedHealthy
  <2>4. /\ stat' \in [Ids -> Status \cup {None}]
        /\ tst' \in [Procs \X Ids -> {"none", "todo", "call", "publish"}]
        /\ targ' \in [Procs \X Ids -> Record \cup Event \cup {None}]
    BY <2>1, <2>2, <2>3, ReportTypes
  <2> DEFINE rec == targ[<<p, id>>]
  <2>5. /\ Removed(kern[id], rec) \subseteq Object /\ Applied(kern[id], rec) \subseteq Object
        /\ \A left \in Remains(kern[id], rec) : left \subseteq Object
    BY <2>1, KernelTypes
  <2>6. kern' \in [Ids -> SUBSET Object]
    BY <1>20, <2>5 DEF ObservedHealthy
  <2> QED
    BY <1>20, <2>3, <2>4, <2>6, FaultTypes DEF ObservedHealthy, Report, queueVars
<1>21. ASSUME NEW p \in Procs, NEW id \in Ids, ObservedDrift(p, id) PROVE TypeOK'
  <2>1. targ[<<p, id>>] \in Record /\ stat[id] \in Status \cup {None} /\ kern[id] \subseteq Object
    BY <1>21, CallType DEF ObservedDrift
  <2>2. Failed(stat[id]) \in Status
    BY <2>1, StatusTypes DEF Phases
  <2>3. Report(p, id, Failed(stat[id]))
    BY <1>21 DEF ObservedDrift
  <2>4. /\ stat' \in [Ids -> Status \cup {None}]
        /\ tst' \in [Procs \X Ids -> {"none", "todo", "call", "publish"}]
        /\ targ' \in [Procs \X Ids -> Record \cup Event \cup {None}]
    BY <2>1, <2>2, <2>3, ReportTypes
  <2> DEFINE rec == targ[<<p, id>>]
  <2>5. /\ Removed(kern[id], rec) \subseteq Object /\ Applied(kern[id], rec) \subseteq Object
        /\ \A left \in Remains(kern[id], rec) : left \subseteq Object
    BY <2>1, KernelTypes
  <2>6. kern' \in [Ids -> SUBSET Object]
    BY <1>21, <2>5 DEF ObservedDrift
  <2> QED
    BY <1>21, <2>3, <2>4, <2>6, FaultTypes DEF ObservedDrift, Report, queueVars
<1>22. ASSUME NEW p \in Procs, NEW id \in Ids, ObserveFails(p, id) PROVE TypeOK'
  <2>1. targ[<<p, id>>] \in Record /\ stat[id] \in Status \cup {None} /\ kern[id] \subseteq Object
    BY <1>22, CallType DEF ObserveFails
  <2>2. Failed(stat[id]) \in Status
    BY <2>1, StatusTypes DEF Phases
  <2>3. Report(p, id, Failed(stat[id]))
    BY <1>22 DEF ObserveFails
  <2>4. /\ stat' \in [Ids -> Status \cup {None}]
        /\ tst' \in [Procs \X Ids -> {"none", "todo", "call", "publish"}]
        /\ targ' \in [Procs \X Ids -> Record \cup Event \cup {None}]
    BY <2>1, <2>2, <2>3, ReportTypes
  <2> DEFINE rec == targ[<<p, id>>]
  <2>5. /\ Removed(kern[id], rec) \subseteq Object /\ Applied(kern[id], rec) \subseteq Object
        /\ \A left \in Remains(kern[id], rec) : left \subseteq Object
    BY <2>1, KernelTypes
  <2>6. kern' \in [Ids -> SUBSET Object]
    BY <1>22, <2>5 DEF ObserveFails
  <2> QED
    BY <1>22, <2>3, <2>4, <2>6, FaultTypes DEF ObserveFails, Report, queueVars
<1>23. ASSUME NEW p \in Procs, NEW id \in Ids, TaskPublish(p, id) PROVE TypeOK'
  <2>1. /\ tst' \in [Procs \X Ids -> {"none", "todo", "call", "publish"}]
        /\ targ' \in [Procs \X Ids -> Record \cup Event \cup {None}]
        /\ lock' \in [Ids -> Procs \cup {None}]
    BY <1>23 DEF TaskPublish
  <2>2. evt' \in [Ids -> Event \cup {None}]
    <3>1. targ[<<p, id>>] \in Event
      BY <1>23 DEF TaskPublish, TaskInv, TaskAt
    <3> QED
      BY <1>23, <3>1 DEF TaskPublish
  <2> QED
    BY <1>23, <2>1, <2>2 DEF TaskPublish, queueVars
<1>24. ASSUME Tick PROVE TypeOK'
  BY <1>24 DEF Tick, EnqueueAll
<1>25. ASSUME ReceiveWake PROVE TypeOK'
  BY <1>25 DEF ReceiveWake
<1>26. ASSUME ProcessQueue PROVE TypeOK'
  BY <1>26 DEF ProcessQueue, TakeQueue, StartTasks, ReadGate, Stored
<1>27. ASSUME ProcessQueueFails PROVE TypeOK'
  BY <1>27, FaultTypes DEF ProcessQueueFails, TakeQueue
<1>28. ASSUME PassDone PROVE TypeOK'
  BY <1>28 DEF PassDone, ReadRelease, queueVars
<1>29. ASSUME Debounce PROVE TypeOK'
  BY <1>29 DEF Debounce, Stored
<1>30. ASSUME DebounceFails PROVE TypeOK'
  BY <1>30, FaultTypes DEF DebounceFails, EnqueueAll
<1>31. ASSUME NEW id \in Ids, Drift(id) PROVE TypeOK'
  BY <1>31 DEF Drift, queueVars
<1>32. ASSUME Crash PROVE TypeOK'
  <2>1. ASSUME NEW i \in Ids, NEW rec \in InFlight(i) PROVE rec \in Record
    <3>1. CASE rec \in {req[c].rec : c \in {d \in Clients : op[d] \in {"updateRemove", "deleteRemove"} /\ req[d].id = i}}
      <4>1. PICK c \in Clients : op[c] \in {"updateRemove", "deleteRemove"} /\ rec = req[c].rec
        BY <3>1
      <4> QED
        BY <4>1, RequestType DEF Mutating
    <3>2. CASE rec \in {targ[<<p, i>>] : p \in {q \in Procs : tst[<<q, i>>] = "call" /\ ~ Observing(q)}}
      <4>1. PICK p \in Procs : tst[<<p, i>>] = "call" /\ rec = targ[<<p, i>>]
        BY <3>2
      <4> QED
        BY <4>1, CallType
    <3> QED
      BY <2>1, <3>1, <3>2 DEF InFlight
  <2>2. ASSUME NEW i \in Ids PROVE CrashRemains(i) \subseteq SUBSET Object
    <3>1. \A rec \in InFlight(i) : \A left \in Remains(kern[i], rec) : left \subseteq Object
      BY <2>1, KernelTypes
    <3> QED
      BY <3>1 DEF CrashRemains
  <2>3. kern' \in [Ids -> SUBSET Object]
    BY <1>32, <2>2 DEF Crash
  <2>4. faults' \in Nat /\ drifts' \in Nat /\ crashes' \in Nat
    BY <1>32 DEF Crash
  <2> QED
    BY <1>32, <2>3, <2>4 DEF Crash, EnqueueAll
<1>33. CASE UNCHANGED vars
  BY <1>33 DEF vars, volatile, queueVars
<1> HIDE DEF TypeOK, Procs, gate, cl, task, budget
<1>34. ASSUME NEW c \in Clients, ReadRequest(c) PROVE TypeOK'
  BY <1>34, <1>6 DEF ReadRequest, Stored
<1>35. ASSUME NEW c \in Clients, ClientStep(c) PROVE TypeOK'
  BY <1>35, <1>7, <1>8, <1>9, <1>10, <1>11, <1>12, <1>13, <1>14, <1>15, <1>16 DEF ClientStep
<1>36. ASSUME NEW p \in Procs, NEW id \in Ids, TaskStep(p, id) PROVE TypeOK'
  BY <1>36, <1>18, <1>19, <1>20, <1>21, <1>22, <1>23 DEF TaskStep
<1>37. ASSUME RunLoop PROVE TypeOK'
  BY <1>37, <1>25, <1>26, <1>27, <1>28 DEF RunLoop
<1> QED
  BY <1>1, <1>2, <1>3, <1>4, <1>5, <1>17, <1>24, <1>29, <1>30, <1>31, <1>32, <1>33, <1>34, <1>35,
     <1>36, <1>37, <1>38 DEF Next, Mutation, MutationBegin

-----------------------------------------------------------------------------
(* The gate.                                                               *)

LEMMA GateStep ==
  ASSUME TypeOK, GateInv, [Next]_vars
  PROVE  GateInv'
<1> USE ControlPlaneAssumption DEF TypeOK, GateInv, NoWriter, GateFree, Procs, gate, cl, Mutating, Reading
<1>1. ASSUME NEW id \in Ids, NEW key \in Keys, NEW en \in BOOLEAN, Create(id, key, en) PROVE GateInv'
  BY <1>1 DEF Create
<1>2. ASSUME NEW id \in Ids, NEW key \in Keys, NEW en \in BOOLEAN, UpdateInPlace(id, key, en) PROVE GateInv'
  BY <1>2 DEF UpdateInPlace, Successor, Commit
<1>3. ASSUME NEW id \in Ids, NEW en \in BOOLEAN, SetEnabled(id, en) PROVE GateInv'
  BY <1>3 DEF SetEnabled, Successor, Commit
<1>4. ASSUME NEW c \in Clients, NEW id \in Ids, NEW key \in Keys, NEW en \in BOOLEAN, UpdateBegin(c, id, key, en) PROVE GateInv'
  BY <1>4 DEF UpdateBegin, Successor, WriteGate
<1>5. ASSUME NEW c \in Clients, NEW id \in Ids, DeleteBegin(c, id) PROVE GateInv'
  BY <1>5 DEF DeleteBegin, WriteGate
<1>6. ASSUME NEW c \in Clients, NEW kind \in {"reconcile", "observe"}, NEW ids \in SUBSET Ids, ReadBegin(c, kind, ids) PROVE GateInv'
  BY <1>6 DEF ReadBegin, ReadGate, StartTasks
<1>7. ASSUME NEW c \in Clients, UpdateRemoved(c) PROVE GateInv'
  BY <1>7 DEF UpdateRemoved, Leave
<1>8. ASSUME NEW c \in Clients, UpdateRemoveFails(c) PROVE GateInv'
  BY <1>8 DEF UpdateRemoveFails, WriteRelease, Leave
<1>9. ASSUME NEW c \in Clients, UpdateCommit(c) PROVE GateInv'
  BY <1>9 DEF UpdateCommit, Commit, WriteRelease, Leave
<1>10. ASSUME NEW c \in Clients, UpdateCommitFails(c) PROVE GateInv'
  BY <1>10 DEF UpdateCommitFails, WriteRelease, Leave
<1>11. ASSUME NEW c \in Clients, DeleteRemoved(c) PROVE GateInv'
  BY <1>11 DEF DeleteRemoved, Leave
<1>12. ASSUME NEW c \in Clients, DeleteRemoveFails(c) PROVE GateInv'
  BY <1>12 DEF DeleteRemoveFails, WriteRelease, Leave
<1>13. ASSUME NEW c \in Clients, DeleteCommit(c) PROVE GateInv'
  BY <1>13 DEF DeleteCommit, WriteRelease, Leave
<1>14. ASSUME NEW c \in Clients, DeleteCommitFails(c) PROVE GateInv'
  BY <1>14 DEF DeleteCommitFails, StartTasks, Leave
<1>15. ASSUME NEW c \in Clients, DeleteRepaired(c) PROVE GateInv'
  BY <1>15 DEF DeleteRepaired, WriteRelease, Leave
<1>16. ASSUME NEW c \in Clients, ReadDone(c) PROVE GateInv'
  BY <1>16 DEF ReadDone, ReadRelease, Leave
<1>17. ASSUME NEW p \in Procs, NEW id \in Ids, TaskBegin(p, id) PROVE GateInv'
  BY <1>17 DEF TaskBegin
<1>38. ASSUME NEW p \in Procs, NEW id \in Ids, TaskReadFails(p, id) PROVE GateInv'
  BY <1>38 DEF TaskReadFails
<1>18. ASSUME NEW p \in Procs, NEW id \in Ids, Reconciled(p, id) PROVE GateInv'
  BY <1>18 DEF Reconciled, Report
<1>19. ASSUME NEW p \in Procs, NEW id \in Ids, ReconcileFails(p, id) PROVE GateInv'
  BY <1>19 DEF ReconcileFails, Report
<1>20. ASSUME NEW p \in Procs, NEW id \in Ids, ObservedHealthy(p, id) PROVE GateInv'
  BY <1>20 DEF ObservedHealthy, Report
<1>21. ASSUME NEW p \in Procs, NEW id \in Ids, ObservedDrift(p, id) PROVE GateInv'
  BY <1>21 DEF ObservedDrift, Report
<1>22. ASSUME NEW p \in Procs, NEW id \in Ids, ObserveFails(p, id) PROVE GateInv'
  BY <1>22 DEF ObserveFails, Report
<1>23. ASSUME NEW p \in Procs, NEW id \in Ids, TaskPublish(p, id) PROVE GateInv'
  BY <1>23 DEF TaskPublish
<1>24. ASSUME Tick PROVE GateInv'
  BY <1>24 DEF Tick
<1>25. ASSUME ReceiveWake PROVE GateInv'
  BY <1>25 DEF ReceiveWake
<1>26. ASSUME ProcessQueue PROVE GateInv'
  BY <1>26 DEF ProcessQueue, TakeQueue, StartTasks, ReadGate
<1>27. ASSUME ProcessQueueFails PROVE GateInv'
  BY <1>27 DEF ProcessQueueFails, TakeQueue
<1>28. ASSUME PassDone PROVE GateInv'
  BY <1>28 DEF PassDone, ReadRelease
<1>29. ASSUME Debounce PROVE GateInv'
  BY <1>29 DEF Debounce
<1>30. ASSUME DebounceFails PROVE GateInv'
  BY <1>30 DEF DebounceFails
<1>31. ASSUME NEW id \in Ids, Drift(id) PROVE GateInv'
  BY <1>31 DEF Drift
<1>32. ASSUME Crash PROVE GateInv'
  BY <1>32 DEF Crash
<1>33. CASE UNCHANGED vars
  BY <1>33 DEF vars, volatile
<1> HIDE DEF TypeOK, GateInv, NoWriter, GateFree, Procs, gate, cl, Mutating, Reading
<1>34. ASSUME NEW c \in Clients, ReadRequest(c) PROVE GateInv'
  BY <1>34, <1>6 DEF ReadRequest, Stored
<1>35. ASSUME NEW c \in Clients, ClientStep(c) PROVE GateInv'
  BY <1>35, <1>7, <1>8, <1>9, <1>10, <1>11, <1>12, <1>13, <1>14, <1>15, <1>16 DEF ClientStep
<1>36. ASSUME NEW p \in Procs, NEW id \in Ids, TaskStep(p, id) PROVE GateInv'
  BY <1>36, <1>18, <1>19, <1>20, <1>21, <1>22, <1>23 DEF TaskStep
<1>37. ASSUME RunLoop PROVE GateInv'
  BY <1>37, <1>25, <1>26, <1>27, <1>28 DEF RunLoop
<1> QED
  BY <1>1, <1>2, <1>3, <1>4, <1>5, <1>17, <1>24, <1>29, <1>30, <1>31, <1>32, <1>33, <1>34, <1>35,
     <1>36, <1>37, <1>38 DEF Next, Mutation, MutationBegin


-----------------------------------------------------------------------------
(* Tasks.                                                                  *)

\* Without a reader and a repairing delete, no task runs.
LEMMA NoTasks ==
  ASSUME TaskInv, readers = {}, \A c \in Clients : writer = c => op[c] # "deleteRepair"
  PROVE  \A p \in Procs, id \in Ids : tst[<<p, id>>] = "none"
<1> SUFFICES ASSUME NEW p \in Procs, NEW id \in Ids PROVE tst[<<p, id>>] = "none"
  OBVIOUS
<1>1. TaskAt(p, id)
  BY DEF TaskInv
<1> QED
  BY <1>1 DEF TaskAt

\* A step that starts no task, commits nothing and lets nobody out keeps the tasks.
LEMMA TasksKept ==
  ASSUME TaskInv, UNCHANGED <<store, req, op, writer, task>>, readers \subseteq readers'
  PROVE  TaskInv'
<1> SUFFICES ASSUME NEW p \in Procs, NEW id \in Ids PROVE TaskAt(p, id)'
  BY DEF TaskInv
<1>1. TaskAt(p, id)
  BY DEF TaskInv
<1> QED
  BY <1>1 DEF TaskAt, task

\* The tasks' types that the proof of TaskInv needs.
LEMMA TaskTypes ==
  ASSUME TypeOK
  PROVE  /\ tst \in [Procs \X Ids -> {"none", "todo", "call", "publish"}]
         /\ targ \in [Procs \X Ids -> Record \cup Event \cup {None}]
         /\ op \in [Clients -> {"idle", "updateRemove", "updateCommit", "deleteRemove",
                                "deleteCommit", "deleteRepair", "reconcile", "observe"}]
         /\ writer \in Clients \cup {None} /\ readers \subseteq Procs
BY DEF TypeOK

\* Whoever starts tasks does so inside the gate.
LEMMA StartTasksInv ==
  ASSUME TypeOK, TaskInv, NEW p \in Procs, NEW ids \in SUBSET Ids, StartTasks(p, ids),
         p \in readers', readers \subseteq readers', UNCHANGED <<store, writer>>,
         \A c \in Clients : writer = c => op'[c] = op[c] /\ req'[c] = req[c]
  PROVE  TaskInv'
<1> SUFFICES ASSUME NEW q \in Procs, NEW id \in Ids PROVE TaskAt(q, id)'
  BY DEF TaskInv
<1>1. TaskAt(q, id) /\ <<q, id>> \in Procs \X Ids
  BY DEF TaskInv
<1>2. CASE q = p /\ id \in ids
  BY <1>1, <1>2 DEF StartTasks, TaskAt
<1>3. CASE ~ (q = p /\ id \in ids)
  <2>1. tst'[<<q, id>>] = tst[<<q, id>>] /\ targ' = targ
    BY <1>1, <1>3 DEF StartTasks
  <2> QED
    BY <1>1, <2>1 DEF TaskAt
<1> QED
  BY <1>2, <1>3

\* A backend call that returns leaves its event for publication.
LEMMA ReportInv ==
  ASSUME TypeOK, TaskInv, NEW p \in Procs, NEW id \in Ids, tst[<<p, id>>] = "call",
         NEW s \in Status, Report(p, id, s)
  PROVE  TaskInv'
<1> SUFFICES ASSUME NEW q \in Procs, NEW i \in Ids PROVE TaskAt(q, i)'
  BY DEF TaskInv
<1>1. TaskAt(q, i) /\ <<q, i>> \in Procs \X Ids /\ <<p, id>> \in Procs \X Ids
  BY DEF TaskInv
<1>2. UNCHANGED <<store, req, op, writer, readers>>
  BY DEF Report, cl, gate
<1>3. CASE <<q, i>> = <<p, id>>
  <2>1. EventOf(s, targ[<<p, id>>]) \in Event
    BY CallType, EventTypes
  <2>2. tst'[<<q, i>>] = "publish" /\ targ'[<<q, i>>] = EventOf(s, targ[<<p, id>>])
    BY <1>1, <1>3, TaskTypes DEF Report
  <2> QED
    BY <1>1, <1>2, <1>3, <2>1, <2>2 DEF TaskAt
<1>4. CASE <<q, i>> # <<p, id>>
  <2>1. tst'[<<q, i>>] = tst[<<q, i>>] /\ targ'[<<q, i>>] = targ[<<q, i>>]
    BY <1>1, <1>4, TaskTypes DEF Report
  <2> QED
    BY <1>1, <1>2, <2>1 DEF TaskAt
<1> QED
  BY <1>3, <1>4

\* Where no task is in hand and none begins, there is nothing to show of tasks.
LEMMA NoTaskInv ==
  ASSUME \A p \in Procs, i \in Ids : tst[<<p, i>>] = "none", tst' = tst
  PROVE  TaskInv'
<1> SUFFICES ASSUME NEW p \in Procs, NEW i \in Ids PROVE TaskAt(p, i)'
  BY DEF TaskInv
<1>1. tst'[<<p, i>>] = "none"
  OBVIOUS
<1> QED
  BY <1>1 DEF TaskAt

LEMMA TaskInvStep ==
  ASSUME TypeOK, GateInv, TaskInv, MutationInv, [Next]_vars
  PROVE  TaskInv'
<1> USE ControlPlaneAssumption DEF GateInv, Procs, gate, cl, Mutating, Reading
<1>1. ASSUME NEW id \in Ids, NEW key \in Keys, NEW en \in BOOLEAN, Create(id, key, en) PROVE TaskInv'
  <2>1. \A p \in Procs, i \in Ids : tst[<<p, i>>] = "none"
    BY <1>1, NoTasks, TaskTypes DEF Create, GateFree, NoWriter
  <2> QED
    BY <1>1, <2>1, NoTaskInv DEF task, Create
<1>2. ASSUME NEW id \in Ids, NEW key \in Keys, NEW en \in BOOLEAN, UpdateInPlace(id, key, en) PROVE TaskInv'
  <2>1. \A p \in Procs, i \in Ids : tst[<<p, i>>] = "none"
    BY <1>2, NoTasks, TaskTypes DEF UpdateInPlace, GateFree, NoWriter
  <2> QED
    BY <1>2, <2>1, NoTaskInv DEF task, UpdateInPlace
<1>3. ASSUME NEW id \in Ids, NEW en \in BOOLEAN, SetEnabled(id, en) PROVE TaskInv'
  <2>1. \A p \in Procs, i \in Ids : tst[<<p, i>>] = "none"
    BY <1>3, NoTasks, TaskTypes DEF SetEnabled, GateFree, NoWriter
  <2> QED
    BY <1>3, <2>1, NoTaskInv DEF task, SetEnabled
<1>4. ASSUME NEW c \in Clients, NEW id \in Ids, NEW key \in Keys, NEW en \in BOOLEAN, UpdateBegin(c, id, key, en) PROVE TaskInv'
  <2>1. \A p \in Procs, i \in Ids : tst[<<p, i>>] = "none"
    BY <1>4, NoTasks, TaskTypes DEF UpdateBegin, GateFree, NoWriter
  <2> QED
    BY <1>4, <2>1, NoTaskInv DEF task, UpdateBegin
<1>5. ASSUME NEW c \in Clients, NEW id \in Ids, DeleteBegin(c, id) PROVE TaskInv'
  <2>1. \A p \in Procs, i \in Ids : tst[<<p, i>>] = "none"
    BY <1>5, NoTasks, TaskTypes DEF DeleteBegin, GateFree, NoWriter
  <2> QED
    BY <1>5, <2>1, NoTaskInv DEF task, DeleteBegin
<1>6. ASSUME NEW c \in Clients, NEW kind \in {"reconcile", "observe"}, NEW ids \in SUBSET Ids, ReadBegin(c, kind, ids) PROVE TaskInv'
  BY <1>6, StartTasksInv, TaskTypes DEF ReadBegin, ReadGate, NoWriter
<1>7. ASSUME NEW c \in Clients, UpdateRemoved(c) PROVE TaskInv'
  <2>1. \A p \in Procs, i \in Ids : tst[<<p, i>>] = "none"
    BY <1>7, NoTasks, TaskTypes DEF UpdateRemoved
  <2> QED
    BY <1>7, <2>1, NoTaskInv DEF task, UpdateRemoved
<1>8. ASSUME NEW c \in Clients, UpdateRemoveFails(c) PROVE TaskInv'
  <2>1. \A p \in Procs, i \in Ids : tst[<<p, i>>] = "none"
    BY <1>8, NoTasks, TaskTypes DEF UpdateRemoveFails
  <2> QED
    BY <1>8, <2>1, NoTaskInv DEF task, UpdateRemoveFails
<1>9. ASSUME NEW c \in Clients, UpdateCommit(c) PROVE TaskInv'
  <2>1. \A p \in Procs, i \in Ids : tst[<<p, i>>] = "none"
    BY <1>9, NoTasks, TaskTypes DEF UpdateCommit
  <2> QED
    BY <1>9, <2>1, NoTaskInv DEF task, UpdateCommit
<1>10. ASSUME NEW c \in Clients, UpdateCommitFails(c) PROVE TaskInv'
  <2>1. \A p \in Procs, i \in Ids : tst[<<p, i>>] = "none"
    BY <1>10, NoTasks, TaskTypes DEF UpdateCommitFails
  <2> QED
    BY <1>10, <2>1, NoTaskInv DEF task, UpdateCommitFails
<1>11. ASSUME NEW c \in Clients, DeleteRemoved(c) PROVE TaskInv'
  <2>1. \A p \in Procs, i \in Ids : tst[<<p, i>>] = "none"
    BY <1>11, NoTasks, TaskTypes DEF DeleteRemoved
  <2> QED
    BY <1>11, <2>1, NoTaskInv DEF task, DeleteRemoved
<1>12. ASSUME NEW c \in Clients, DeleteRemoveFails(c) PROVE TaskInv'
  <2>1. \A p \in Procs, i \in Ids : tst[<<p, i>>] = "none"
    BY <1>12, NoTasks, TaskTypes DEF DeleteRemoveFails
  <2> QED
    BY <1>12, <2>1, NoTaskInv DEF task, DeleteRemoveFails
<1>13. ASSUME NEW c \in Clients, DeleteCommit(c) PROVE TaskInv'
  <2>1. \A p \in Procs, i \in Ids : tst[<<p, i>>] = "none"
    BY <1>13, NoTasks, TaskTypes DEF DeleteCommit
  <2> QED
    BY <1>13, <2>1, NoTaskInv DEF task, DeleteCommit
<1>14. ASSUME NEW c \in Clients, DeleteCommitFails(c) PROVE TaskInv'
  <2>1. \A p \in Procs, i \in Ids : tst[<<p, i>>] = "none"
    BY <1>14, NoTasks, TaskTypes DEF DeleteCommitFails
  <2> SUFFICES ASSUME NEW q \in Procs, NEW i \in Ids PROVE TaskAt(q, i)'
    BY DEF TaskInv
  <2>2. tst'[<<q, i>>] = (IF q = c /\ i = req[c].id THEN "todo" ELSE "none")
    BY <1>14, <2>1 DEF DeleteCommitFails, StartTasks
  <2>3. op'[c] = "deleteRepair" /\ writer' = c /\ req' = req
    BY <1>14, TaskTypes DEF DeleteCommitFails
  <2> QED
    BY <2>2, <2>3 DEF TaskAt
<1>15. ASSUME NEW c \in Clients, DeleteRepaired(c) PROVE TaskInv'
  <2>1. \A q \in Procs, i \in Ids : tst[<<q, i>>] = "none"
    <3>1. writer = c /\ readers = {} /\ tst[<<c, req[c].id>>] = "none"
      BY <1>15 DEF DeleteRepaired
    <3>2. ASSUME NEW q \in Procs, NEW i \in Ids, tst[<<q, i>>] # "none" PROVE q = c /\ i = req[c].id
      BY <3>1, <3>2 DEF TaskInv, TaskAt
    <3> QED
      BY <3>1, <3>2
  <2> QED
    BY <1>15, <2>1, NoTaskInv DEF task, DeleteRepaired
<1>16. ASSUME NEW c \in Clients, ReadDone(c) PROVE TaskInv'
  <2> SUFFICES ASSUME NEW q \in Procs, NEW i \in Ids PROVE TaskAt(q, i)'
    BY DEF TaskInv
  <2>1. TaskAt(q, i)
    BY DEF TaskInv
  <2>2. CASE q = c
    BY <1>16, <2>2 DEF ReadDone, TaskAt, task
  <2>3. CASE q # c
    BY <1>16, <2>1, <2>3, TaskTypes DEF ReadDone, ReadRelease, TaskAt, task, Leave
  <2> QED
    BY <2>2, <2>3
<1>17. ASSUME NEW p \in Procs, NEW id \in Ids, TaskBegin(p, id) PROVE TaskInv'
  <2> SUFFICES ASSUME NEW q \in Procs, NEW i \in Ids PROVE TaskAt(q, i)'
    BY DEF TaskInv
  <2>1. TaskAt(q, i) /\ <<q, i>> \in Procs \X Ids /\ <<p, id>> \in Procs \X Ids
    BY DEF TaskInv
  <2>2. UNCHANGED <<store, req, op, writer, readers>>
    BY <1>17 DEF TaskBegin
  <2>3. CASE <<q, i>> = <<p, id>>
    <3>1. \/ tst'[<<q, i>>] = "none"
          \/ tst'[<<q, i>>] = "call" /\ store[i] # None /\ targ'[<<q, i>>] = store[i]
      BY <1>17, <2>1, <2>3, TaskTypes DEF TaskBegin
    <3>2. tst[<<q, i>>] = "todo"
      BY <1>17, <2>3 DEF TaskBegin
    <3> QED
      BY <2>1, <2>2, <3>1, <3>2 DEF TaskAt
  <2>4. CASE <<q, i>> # <<p, id>>
    <3>1. tst'[<<q, i>>] = tst[<<q, i>>] /\ targ'[<<q, i>>] = targ[<<q, i>>]
      BY <1>17, <2>1, <2>4, TaskTypes DEF TaskBegin
    <3> QED
      BY <2>1, <2>2, <3>1 DEF TaskAt
  <2> QED
    BY <2>3, <2>4
<1>38. ASSUME NEW p \in Procs, NEW id \in Ids, TaskReadFails(p, id) PROVE TaskInv'
  <2> SUFFICES ASSUME NEW q \in Procs, NEW i \in Ids PROVE TaskAt(q, i)'
    BY DEF TaskInv
  <2>1. TaskAt(q, i) /\ <<q, i>> \in Procs \X Ids /\ <<p, id>> \in Procs \X Ids
    BY DEF TaskInv
  <2>2. UNCHANGED <<store, req, op, writer, readers>>
    BY <1>38 DEF TaskReadFails
  <2>3. /\ tst'[<<q, i>>] \in {"none", tst[<<q, i>>]}
        /\ targ'[<<q, i>>] = targ[<<q, i>>]
    BY <1>38, <2>1, TaskTypes DEF TaskReadFails
  <2> QED
    BY <2>1, <2>2, <2>3 DEF TaskAt
<1>18. ASSUME NEW p \in Procs, NEW id \in Ids, Reconciled(p, id) PROVE TaskInv'
  <2>1. Succeeded(IF targ[<<p, id>>].en THEN "ready" ELSE "disabled", targ[<<p, id>>]) \in Status
    BY <1>18, CallType, StatusTypes DEF Reconciled, Phases
  <2> QED
    BY <1>18, <2>1, ReportInv DEF Reconciled
<1>19. ASSUME NEW p \in Procs, NEW id \in Ids, ReconcileFails(p, id) PROVE TaskInv'
  <2>1. Failed(stat[id]) \in Status
    BY <1>19, CallType, StatusTypes DEF ReconcileFails, Phases
  <2> QED
    BY <1>19, <2>1, ReportInv DEF ReconcileFails
<1>20. ASSUME NEW p \in Procs, NEW id \in Ids, ObservedHealthy(p, id) PROVE TaskInv'
  <2>1. ObservedOk(stat[id], targ[<<p, id>>]) \in Status
    BY <1>20, CallType, StatusTypes DEF ObservedHealthy, Phases
  <2> QED
    BY <1>20, <2>1, ReportInv DEF ObservedHealthy
<1>21. ASSUME NEW p \in Procs, NEW id \in Ids, ObservedDrift(p, id) PROVE TaskInv'
  <2>1. Failed(stat[id]) \in Status
    BY <1>21, CallType, StatusTypes DEF ObservedDrift, Phases
  <2> QED
    BY <1>21, <2>1, ReportInv DEF ObservedDrift
<1>22. ASSUME NEW p \in Procs, NEW id \in Ids, ObserveFails(p, id) PROVE TaskInv'
  <2>1. Failed(stat[id]) \in Status
    BY <1>22, CallType, StatusTypes DEF ObserveFails, Phases
  <2> QED
    BY <1>22, <2>1, ReportInv DEF ObserveFails
<1>23. ASSUME NEW p \in Procs, NEW id \in Ids, TaskPublish(p, id) PROVE TaskInv'
  <2> SUFFICES ASSUME NEW q \in Procs, NEW i \in Ids PROVE TaskAt(q, i)'
    BY DEF TaskInv
  <2>1. TaskAt(q, i) /\ <<q, i>> \in Procs \X Ids /\ <<p, id>> \in Procs \X Ids
    BY DEF TaskInv
  <2>2. UNCHANGED <<store, req, op, writer, readers>>
    BY <1>23 DEF TaskPublish
  <2>3. \/ tst'[<<q, i>>] = "none"
        \/ tst'[<<q, i>>] = tst[<<q, i>>] /\ targ'[<<q, i>>] = targ[<<q, i>>]
    BY <1>23, <2>1, TaskTypes DEF TaskPublish
  <2> QED
    BY <2>1, <2>2, <2>3 DEF TaskAt
<1>24. ASSUME Tick PROVE TaskInv'
  BY <1>24, TasksKept DEF Tick
<1>25. ASSUME ReceiveWake PROVE TaskInv'
  BY <1>25, TasksKept DEF ReceiveWake
<1>26. ASSUME ProcessQueue PROVE TaskInv'
  <2>1. (IF queueAll THEN Stored ELSE queued) \in SUBSET Ids
    BY DEF TypeOK, Stored
  <2> QED
    BY <1>26, <2>1, StartTasksInv DEF ProcessQueue, ReadGate
<1>27. ASSUME ProcessQueueFails PROVE TaskInv'
  BY <1>27, TasksKept DEF ProcessQueueFails
<1>28. ASSUME PassDone PROVE TaskInv'
  <2> SUFFICES ASSUME NEW q \in Procs, NEW i \in Ids PROVE TaskAt(q, i)'
    BY DEF TaskInv
  <2>1. TaskAt(q, i)
    BY DEF TaskInv
  <2>2. CASE q = Run
    BY <1>28, <2>2 DEF PassDone, TaskAt, task
  <2>3. CASE q # Run
    BY <1>28, <2>1, <2>3, TaskTypes DEF PassDone, ReadRelease, TaskAt, task
  <2> QED
    BY <2>2, <2>3
<1>29. ASSUME Debounce PROVE TaskInv'
  BY <1>29, TasksKept DEF Debounce
<1>30. ASSUME DebounceFails PROVE TaskInv'
  BY <1>30, TasksKept DEF DebounceFails
<1>31. ASSUME NEW id \in Ids, Drift(id) PROVE TaskInv'
  BY <1>31, TasksKept DEF Drift
<1>32. ASSUME Crash PROVE TaskInv'
  <2> SUFFICES ASSUME NEW q \in Procs, NEW i \in Ids PROVE TaskAt(q, i)'
    BY DEF TaskInv
  <2>1. <<q, i>> \in Procs \X Ids
    OBVIOUS
  <2>2. tst'[<<q, i>>] = "none"
    BY <1>32, <2>1 DEF Crash
  <2> QED
    BY <2>2 DEF TaskAt
<1>33. CASE UNCHANGED vars
  BY <1>33, TasksKept DEF vars, volatile
<1> HIDE DEF GateInv, Procs, gate, cl, Mutating, Reading
<1>34. ASSUME NEW c \in Clients, ReadRequest(c) PROVE TaskInv'
  BY <1>34, <1>6 DEF ReadRequest, Stored
<1>35. ASSUME NEW c \in Clients, ClientStep(c) PROVE TaskInv'
  BY <1>35, <1>7, <1>8, <1>9, <1>10, <1>11, <1>12, <1>13, <1>14, <1>15, <1>16 DEF ClientStep
<1>36. ASSUME NEW p \in Procs, NEW id \in Ids, TaskStep(p, id) PROVE TaskInv'
  BY <1>36, <1>18, <1>19, <1>20, <1>21, <1>22, <1>23 DEF TaskStep
<1>37. ASSUME RunLoop PROVE TaskInv'
  BY <1>37, <1>25, <1>26, <1>27, <1>28 DEF RunLoop
<1> QED
  BY <1>1, <1>2, <1>3, <1>4, <1>5, <1>17, <1>24, <1>29, <1>30, <1>31, <1>32, <1>33, <1>34, <1>35,
     <1>36, <1>37, <1>38 DEF Next, Mutation, MutationBegin


-----------------------------------------------------------------------------
(* Mutations.                                                              *)

\* Only the holder of the write gate is in a mutation, and without a reader.
LEMMA OneMutation ==
  ASSUME GateInv, NEW c \in Clients, op[c] \in Mutating
  PROVE  writer = c /\ readers = {} /\ \A d \in Clients : d # c => op[d] \notin Mutating
BY ControlPlaneAssumption DEF GateInv, Procs

\* While nobody holds the write gate no mutation is under way.
LEMMA NobodyMutating ==
  ASSUME GateInv, writer = None
  PROVE  \A c \in Clients : op[c] \notin Mutating
BY ControlPlaneAssumption DEF GateInv, Procs

\* A step that neither commits nor installs, and does not move a mutation, keeps MutationInv.
LEMMA MutationKept ==
  ASSUME MutationInv, UNCHANGED <<store, req>>, \A c \in Clients : op'[c] \in Mutating => op'[c] = op[c],
         \A id \in Ids : kern[id] = {} => kern'[id] = {}
  PROVE  MutationInv'
BY DEF MutationInv, MutationAt, Mutating, Request

\* So does one that leaves no client in a mutation.
LEMMA NoMutation ==
  ASSUME \A c \in Clients : op'[c] \notin Mutating
  PROVE  MutationInv'
BY DEF MutationInv, MutationAt, Mutating

\* While a task is in its backend call nobody is about to commit or to delete.
LEMMA CallAlone ==
  ASSUME GateInv, TaskInv, NEW p \in Procs, NEW id \in Ids, tst[<<p, id>>] = "call", NEW c \in Clients
  PROVE  op[c] \notin {"updateRemove", "updateCommit", "deleteRemove", "deleteCommit"}
BY ControlPlaneAssumption DEF GateInv, TaskInv, TaskAt, Mutating, Procs

\* The result of a task's backend call on the kernel concerns its own tunnel only.
LEMMA CallMutation ==
  ASSUME TypeOK, GateInv, TaskInv, MutationInv, NEW p \in Procs, NEW id \in Ids,
         tst[<<p, id>>] = "call", UNCHANGED <<store, cl>>
  PROVE  MutationInv'
BY CallAlone DEF MutationInv, MutationAt, cl

\* Removing with the stored record leaves nothing of the tunnel.
LEMMA RemovedAll ==
  ASSUME NoOrphans, NEW id \in Ids
  PROVE  Removed(kern[id], store[id]) = {}
BY DEF NoOrphans, Removed

LEMMA MutationStep ==
  ASSUME TypeOK, GateInv, TaskInv, MutationInv, NoOrphans, [Next]_vars
  PROVE  MutationInv'
<1> USE ControlPlaneAssumption
<1>1. ASSUME NEW id \in Ids, NEW key \in Keys, NEW en \in BOOLEAN, Create(id, key, en) PROVE MutationInv'
  BY <1>1, NobodyMutating, NoMutation DEF Create, GateFree, NoWriter, cl
<1>2. ASSUME NEW id \in Ids, NEW key \in Keys, NEW en \in BOOLEAN, UpdateInPlace(id, key, en) PROVE MutationInv'
  BY <1>2, NobodyMutating, NoMutation DEF UpdateInPlace, GateFree, NoWriter, cl
<1>3. ASSUME NEW id \in Ids, NEW en \in BOOLEAN, SetEnabled(id, en) PROVE MutationInv'
  BY <1>3, NobodyMutating, NoMutation DEF SetEnabled, GateFree, NoWriter, cl
<1>4. ASSUME NEW c \in Clients, NEW id \in Ids, NEW key \in Keys, NEW en \in BOOLEAN, UpdateBegin(c, id, key, en) PROVE MutationInv'
  <2>1. \A d \in Clients : op[d] \notin Mutating
    BY <1>4, NobodyMutating DEF UpdateBegin, GateFree, NoWriter
  <2>2. req' = [req EXCEPT ![c] = [id |-> id, rec |-> store[id], next |-> Successor(store[id], key, en)]]
    BY <1>4 DEF UpdateBegin
  <2>3. store[id] \in Record /\ store' = store
    BY <1>4 DEF TypeOK, UpdateBegin
  <2>4. Successor(store[id], key, en) \in Record
    BY <2>3, RecordTypes
  <2>5. req'[c] = [id |-> id, rec |-> store[id], next |-> Successor(store[id], key, en)] /\ req'[c] \in Request
    BY <2>2, <2>3, <2>4, TypeOK DEF TypeOK, Request
  <2>6. op' = [op EXCEPT ![c] = "updateRemove"] /\ op'[c] = "updateRemove"
    BY <1>4 DEF UpdateBegin, TypeOK
  <2>7. MutationAt(c)'
    BY <2>3, <2>4, <2>5, <2>6 DEF MutationAt
  <2>8. ASSUME NEW d \in Clients, d # c PROVE MutationAt(d)'
    BY <2>1, <2>6, <2>8 DEF MutationAt, Mutating, TypeOK
  <2> QED
    BY <2>7, <2>8 DEF MutationInv
<1>5. ASSUME NEW c \in Clients, NEW id \in Ids, DeleteBegin(c, id) PROVE MutationInv'
  <2>1. \A d \in Clients : op[d] \notin Mutating
    BY <1>5, NobodyMutating DEF DeleteBegin, GateFree, NoWriter
  <2>2. req' = [req EXCEPT ![c] = [id |-> id, rec |-> store[id], next |-> None]]
    BY <1>5 DEF DeleteBegin
  <2>3. store[id] \in Record /\ store' = store
    BY <1>5 DEF TypeOK, DeleteBegin
  <2>5. req'[c] = [id |-> id, rec |-> store[id], next |-> None] /\ req'[c] \in Request
    BY <2>2, <2>3, TypeOK DEF TypeOK, Request
  <2>6. op' = [op EXCEPT ![c] = "deleteRemove"] /\ op'[c] = "deleteRemove"
    BY <1>5 DEF DeleteBegin, TypeOK
  <2>7. MutationAt(c)'
    BY <2>3, <2>5, <2>6 DEF MutationAt
  <2>8. ASSUME NEW d \in Clients, d # c PROVE MutationAt(d)'
    BY <2>1, <2>6, <2>8 DEF MutationAt, Mutating, TypeOK
  <2> QED
    BY <2>7, <2>8 DEF MutationInv
<1>6. ASSUME NEW c \in Clients, NEW kind \in {"reconcile", "observe"}, NEW ids \in SUBSET Ids, ReadBegin(c, kind, ids) PROVE MutationInv'
  <2>1. \A d \in Clients : op[d] \notin Mutating
    BY <1>6, NobodyMutating DEF ReadBegin, NoWriter
  <2>2. op' = [op EXCEPT ![c] = kind]
    BY <1>6 DEF ReadBegin
  <2> QED
    BY <2>1, <2>2, NoMutation DEF TypeOK, Mutating
<1>7. ASSUME NEW c \in Clients, UpdateRemoved(c) PROVE MutationInv'
  <2>1. op[c] = "updateRemove" /\ op[c] \in Mutating
    BY <1>7 DEF UpdateRemoved, Mutating
  <2>2. req[c] \in Request /\ req[c].id \in Ids /\ store[req[c].id] = req[c].rec
        /\ (op[c] = "updateRemove" => req[c].next \in Record)
    BY <2>1, RequestType DEF MutationInv, MutationAt
  <2>3. kern'[req[c].id] = {}
    BY <1>7, <2>2, RemovedAll DEF UpdateRemoved, TypeOK
  <2>4. op' = [op EXCEPT ![c] = "updateCommit"] /\ op'[c] = "updateCommit" /\ UNCHANGED <<store, req>>
    BY <1>7 DEF UpdateRemoved, TypeOK
  <2>5. MutationAt(c)'
    BY <2>1, <2>2, <2>3, <2>4 DEF MutationAt
  <2>6. ASSUME NEW d \in Clients, d # c PROVE MutationAt(d)'
    BY <2>1, <2>4, <2>6, OneMutation DEF MutationAt, Mutating, TypeOK
  <2> QED
    BY <2>5, <2>6 DEF MutationInv
<1>8. ASSUME NEW c \in Clients, UpdateRemoveFails(c) PROVE MutationInv'
  <2>1. \A d \in Clients : d # c => op[d] \notin Mutating
    BY <1>8, OneMutation DEF UpdateRemoveFails, Mutating
  <2>2. op' = [op EXCEPT ![c] = "idle"]
    BY <1>8 DEF UpdateRemoveFails, Leave
  <2> QED
    BY <2>1, <2>2, NoMutation DEF TypeOK, Mutating
<1>9. ASSUME NEW c \in Clients, UpdateCommit(c) PROVE MutationInv'
  <2>1. \A d \in Clients : d # c => op[d] \notin Mutating
    BY <1>9, OneMutation DEF UpdateCommit, Mutating
  <2>2. op' = [op EXCEPT ![c] = "idle"]
    BY <1>9 DEF UpdateCommit, Leave
  <2> QED
    BY <2>1, <2>2, NoMutation DEF TypeOK, Mutating
<1>10. ASSUME NEW c \in Clients, UpdateCommitFails(c) PROVE MutationInv'
  <2>1. \A d \in Clients : d # c => op[d] \notin Mutating
    BY <1>10, OneMutation DEF UpdateCommitFails, Mutating
  <2>2. op' = [op EXCEPT ![c] = "idle"]
    BY <1>10 DEF UpdateCommitFails, Leave
  <2> QED
    BY <2>1, <2>2, NoMutation DEF TypeOK, Mutating
<1>11. ASSUME NEW c \in Clients, DeleteRemoved(c) PROVE MutationInv'
  <2>1. op[c] = "deleteRemove" /\ op[c] \in Mutating
    BY <1>11 DEF DeleteRemoved, Mutating
  <2>2. req[c] \in Request /\ req[c].id \in Ids /\ store[req[c].id] = req[c].rec
        /\ (op[c] = "updateRemove" => req[c].next \in Record)
    BY <2>1, RequestType DEF MutationInv, MutationAt
  <2>3. kern'[req[c].id] = {}
    BY <1>11, <2>2, RemovedAll DEF DeleteRemoved, TypeOK
  <2>4. op' = [op EXCEPT ![c] = "deleteCommit"] /\ op'[c] = "deleteCommit" /\ UNCHANGED <<store, req>>
    BY <1>11 DEF DeleteRemoved, TypeOK
  <2>5. MutationAt(c)'
    BY <2>1, <2>2, <2>3, <2>4 DEF MutationAt
  <2>6. ASSUME NEW d \in Clients, d # c PROVE MutationAt(d)'
    BY <2>1, <2>4, <2>6, OneMutation DEF MutationAt, Mutating, TypeOK
  <2> QED
    BY <2>5, <2>6 DEF MutationInv
<1>12. ASSUME NEW c \in Clients, DeleteRemoveFails(c) PROVE MutationInv'
  <2>1. \A d \in Clients : d # c => op[d] \notin Mutating
    BY <1>12, OneMutation DEF DeleteRemoveFails, Mutating
  <2>2. op' = [op EXCEPT ![c] = "idle"]
    BY <1>12 DEF DeleteRemoveFails, Leave
  <2> QED
    BY <2>1, <2>2, NoMutation DEF TypeOK, Mutating
<1>13. ASSUME NEW c \in Clients, DeleteCommit(c) PROVE MutationInv'
  <2>1. \A d \in Clients : d # c => op[d] \notin Mutating
    BY <1>13, OneMutation DEF DeleteCommit, Mutating
  <2>2. op' = [op EXCEPT ![c] = "idle"]
    BY <1>13 DEF DeleteCommit, Leave
  <2> QED
    BY <2>1, <2>2, NoMutation DEF TypeOK, Mutating
<1>14. ASSUME NEW c \in Clients, DeleteCommitFails(c) PROVE MutationInv'
  <2>1. op[c] \in Mutating /\ \A d \in Clients : d # c => op[d] \notin Mutating
    BY <1>14, OneMutation DEF DeleteCommitFails, Mutating
  <2>2. op' = [op EXCEPT ![c] = "deleteRepair"] /\ UNCHANGED <<store, req, kern>>
    BY <1>14 DEF DeleteCommitFails
  <2> QED
    BY <2>1, <2>2 DEF TypeOK, Mutating, MutationInv, MutationAt
<1>15. ASSUME NEW c \in Clients, DeleteRepaired(c) PROVE MutationInv'
  <2>1. \A d \in Clients : d # c => op[d] \notin Mutating
    BY <1>15, OneMutation DEF DeleteRepaired, Mutating
  <2>2. op' = [op EXCEPT ![c] = "idle"]
    BY <1>15 DEF DeleteRepaired, Leave
  <2> QED
    BY <2>1, <2>2, NoMutation DEF TypeOK, Mutating
<1>16. ASSUME NEW c \in Clients, ReadDone(c) PROVE MutationInv'
  <2>1. \A d \in Clients : op[d] \notin Mutating
    <3>1. readers # {} /\ writer = None
      BY <1>16 DEF ReadDone, GateInv, Reading
    <3> QED
      BY <3>1, NobodyMutating
  <2>2. op' = [op EXCEPT ![c] = "idle"]
    BY <1>16 DEF ReadDone, Leave
  <2> QED
    BY <2>1, <2>2, NoMutation DEF TypeOK, Mutating
<1>17. ASSUME NEW p \in Procs, NEW id \in Ids, TaskBegin(p, id) PROVE MutationInv'
  BY <1>17, MutationKept DEF TaskBegin, cl
<1>38. ASSUME NEW p \in Procs, NEW id \in Ids, TaskReadFails(p, id) PROVE MutationInv'
  BY <1>38, MutationKept DEF TaskReadFails, cl
<1>18. ASSUME NEW p \in Procs, NEW id \in Ids, Reconciled(p, id) PROVE MutationInv'
  BY <1>18, CallMutation DEF Reconciled, Report
<1>19. ASSUME NEW p \in Procs, NEW id \in Ids, ReconcileFails(p, id) PROVE MutationInv'
  BY <1>19, CallMutation DEF ReconcileFails, Report
<1>20. ASSUME NEW p \in Procs, NEW id \in Ids, ObservedHealthy(p, id) PROVE MutationInv'
  BY <1>20, CallMutation DEF ObservedHealthy, Report
<1>21. ASSUME NEW p \in Procs, NEW id \in Ids, ObservedDrift(p, id) PROVE MutationInv'
  BY <1>21, CallMutation DEF ObservedDrift, Report
<1>22. ASSUME NEW p \in Procs, NEW id \in Ids, ObserveFails(p, id) PROVE MutationInv'
  BY <1>22, CallMutation DEF ObserveFails, Report
<1>23. ASSUME NEW p \in Procs, NEW id \in Ids, TaskPublish(p, id) PROVE MutationInv'
  BY <1>23, MutationKept DEF TaskPublish, cl
<1>24. ASSUME Tick PROVE MutationInv'
  BY <1>24, MutationKept DEF Tick, cl
<1>25. ASSUME ReceiveWake PROVE MutationInv'
  BY <1>25, MutationKept DEF ReceiveWake, cl
<1>26. ASSUME ProcessQueue PROVE MutationInv'
  BY <1>26, MutationKept DEF ProcessQueue, cl
<1>27. ASSUME ProcessQueueFails PROVE MutationInv'
  BY <1>27, MutationKept DEF ProcessQueueFails, cl
<1>28. ASSUME PassDone PROVE MutationInv'
  BY <1>28, MutationKept DEF PassDone, cl
<1>29. ASSUME Debounce PROVE MutationInv'
  BY <1>29, MutationKept DEF Debounce, cl
<1>30. ASSUME DebounceFails PROVE MutationInv'
  BY <1>30, MutationKept DEF DebounceFails, cl
<1>31. ASSUME NEW id \in Ids, Drift(id) PROVE MutationInv'
  BY <1>31, MutationKept DEF Drift, cl, TypeOK
<1>32. ASSUME Crash PROVE MutationInv'
  BY <1>32, NoMutation DEF Crash, Mutating
<1>33. CASE UNCHANGED vars
  BY <1>33, MutationKept DEF vars, volatile, cl
<1>34. ASSUME NEW c \in Clients, ReadRequest(c) PROVE MutationInv'
  BY <1>34, <1>6 DEF ReadRequest, Stored
<1>35. ASSUME NEW c \in Clients, ClientStep(c) PROVE MutationInv'
  BY <1>35, <1>7, <1>8, <1>9, <1>10, <1>11, <1>12, <1>13, <1>14, <1>15, <1>16 DEF ClientStep
<1>36. ASSUME NEW p \in Procs, NEW id \in Ids, TaskStep(p, id) PROVE MutationInv'
  BY <1>36, <1>18, <1>19, <1>20, <1>21, <1>22, <1>23 DEF TaskStep
<1>37. ASSUME RunLoop PROVE MutationInv'
  BY <1>37, <1>25, <1>26, <1>27, <1>28 DEF RunLoop
<1> QED
  BY <1>1, <1>2, <1>3, <1>4, <1>5, <1>17, <1>24, <1>29, <1>30, <1>31, <1>32, <1>33, <1>34, <1>35,
     <1>36, <1>37, <1>38 DEF Next, Mutation, MutationBegin


-----------------------------------------------------------------------------
(* Kernel objects.                                                         *)

\* Which keys the operators on kernel objects leave behind.
LEMMA KernelKeys ==
  ASSUME NEW objs, NEW rec, \A o \in objs : o.key = rec.key
  PROVE  /\ Removed(objs, rec) = {}
         /\ \A o \in Applied(objs, rec) : o.key = rec.key
         /\ \A left \in Remains(objs, rec) : \A o \in left : o.key = rec.key
BY DEF Removed, Applied, Partial, Remains

\* A request past its beginning works on the stored record.
LEMMA RequestStored ==
  ASSUME TypeOK, MutationInv, NEW c \in Clients, op[c] \in Mutating
  PROVE  req[c].id \in Ids /\ store[req[c].id] = req[c].rec /\ store[req[c].id] # None
BY RequestType, NoneNoRecord DEF MutationInv, MutationAt

LEMMA UsedStep ==
  ASSUME TypeOK, MutationInv, UsedInv, [Next]_vars
  PROVE  UsedInv'
<1> USE DEF UsedInv
<1>1. ASSUME NEW id \in Ids, NEW key \in Keys, NEW en \in BOOLEAN, Create(id, key, en) PROVE UsedInv'
  BY <1>1 DEF Create, TypeOK
<1>2. ASSUME NEW id \in Ids, NEW key \in Keys, NEW en \in BOOLEAN, UpdateInPlace(id, key, en) PROVE UsedInv'
  BY <1>2 DEF UpdateInPlace, Commit, TypeOK
<1>3. ASSUME NEW id \in Ids, NEW en \in BOOLEAN, SetEnabled(id, en) PROVE UsedInv'
  BY <1>3 DEF SetEnabled, Commit, TypeOK
<1>4. ASSUME NEW c \in Clients, NEW id \in Ids, NEW key \in Keys, NEW en \in BOOLEAN, UpdateBegin(c, id, key, en) PROVE UsedInv'
  BY <1>4 DEF UpdateBegin
<1>5. ASSUME NEW c \in Clients, NEW id \in Ids, DeleteBegin(c, id) PROVE UsedInv'
  BY <1>5 DEF DeleteBegin
<1>6. ASSUME NEW c \in Clients, NEW kind \in {"reconcile", "observe"}, NEW ids \in SUBSET Ids, ReadBegin(c, kind, ids) PROVE UsedInv'
  BY <1>6 DEF ReadBegin
<1>7. ASSUME NEW c \in Clients, UpdateRemoved(c) PROVE UsedInv'
  BY <1>7 DEF UpdateRemoved
<1>8. ASSUME NEW c \in Clients, UpdateRemoveFails(c) PROVE UsedInv'
  BY <1>8 DEF UpdateRemoveFails
<1>9. ASSUME NEW c \in Clients, UpdateCommit(c) PROVE UsedInv'
  <2>1. store[req[c].id] # None
    BY <1>9, RequestStored DEF UpdateCommit, Mutating
  <2> QED
    BY <1>9, <2>1 DEF UpdateCommit, Commit, TypeOK
<1>10. ASSUME NEW c \in Clients, UpdateCommitFails(c) PROVE UsedInv'
  BY <1>10 DEF UpdateCommitFails
<1>11. ASSUME NEW c \in Clients, DeleteRemoved(c) PROVE UsedInv'
  BY <1>11 DEF DeleteRemoved
<1>12. ASSUME NEW c \in Clients, DeleteRemoveFails(c) PROVE UsedInv'
  BY <1>12 DEF DeleteRemoveFails
<1>13. ASSUME NEW c \in Clients, DeleteCommit(c) PROVE UsedInv'
  BY <1>13 DEF DeleteCommit, TypeOK
<1>14. ASSUME NEW c \in Clients, DeleteCommitFails(c) PROVE UsedInv'
  BY <1>14 DEF DeleteCommitFails
<1>15. ASSUME NEW c \in Clients, DeleteRepaired(c) PROVE UsedInv'
  BY <1>15 DEF DeleteRepaired
<1>16. ASSUME NEW c \in Clients, ReadDone(c) PROVE UsedInv'
  BY <1>16 DEF ReadDone
<1>17. ASSUME NEW p \in Procs, NEW id \in Ids, TaskBegin(p, id) PROVE UsedInv'
  BY <1>17 DEF TaskBegin
<1>38. ASSUME NEW p \in Procs, NEW id \in Ids, TaskReadFails(p, id) PROVE UsedInv'
  BY <1>38 DEF TaskReadFails
<1>18. ASSUME NEW p \in Procs, NEW id \in Ids, Reconciled(p, id) PROVE UsedInv'
  BY <1>18 DEF Reconciled, Report
<1>19. ASSUME NEW p \in Procs, NEW id \in Ids, ReconcileFails(p, id) PROVE UsedInv'
  BY <1>19 DEF ReconcileFails, Report
<1>20. ASSUME NEW p \in Procs, NEW id \in Ids, ObservedHealthy(p, id) PROVE UsedInv'
  BY <1>20 DEF ObservedHealthy, Report
<1>21. ASSUME NEW p \in Procs, NEW id \in Ids, ObservedDrift(p, id) PROVE UsedInv'
  BY <1>21 DEF ObservedDrift, Report
<1>22. ASSUME NEW p \in Procs, NEW id \in Ids, ObserveFails(p, id) PROVE UsedInv'
  BY <1>22 DEF ObserveFails, Report
<1>23. ASSUME NEW p \in Procs, NEW id \in Ids, TaskPublish(p, id) PROVE UsedInv'
  BY <1>23 DEF TaskPublish
<1>24. ASSUME Tick PROVE UsedInv'
  BY <1>24 DEF Tick
<1>25. ASSUME ReceiveWake PROVE UsedInv'
  BY <1>25 DEF ReceiveWake
<1>26. ASSUME ProcessQueue PROVE UsedInv'
  BY <1>26 DEF ProcessQueue
<1>27. ASSUME ProcessQueueFails PROVE UsedInv'
  BY <1>27 DEF ProcessQueueFails
<1>28. ASSUME PassDone PROVE UsedInv'
  BY <1>28 DEF PassDone
<1>29. ASSUME Debounce PROVE UsedInv'
  BY <1>29 DEF Debounce
<1>30. ASSUME DebounceFails PROVE UsedInv'
  BY <1>30 DEF DebounceFails
<1>31. ASSUME NEW id \in Ids, Drift(id) PROVE UsedInv'
  BY <1>31 DEF Drift
<1>32. ASSUME Crash PROVE UsedInv'
  BY <1>32 DEF Crash
<1>33. CASE UNCHANGED vars
  BY <1>33 DEF vars
<1>34. ASSUME NEW c \in Clients, ReadRequest(c) PROVE UsedInv'
  BY <1>34, <1>6 DEF ReadRequest, Stored
<1>35. ASSUME NEW c \in Clients, ClientStep(c) PROVE UsedInv'
  BY <1>35, <1>7, <1>8, <1>9, <1>10, <1>11, <1>12, <1>13, <1>14, <1>15, <1>16 DEF ClientStep
<1>36. ASSUME NEW p \in Procs, NEW id \in Ids, TaskStep(p, id) PROVE UsedInv'
  BY <1>36, <1>18, <1>19, <1>20, <1>21, <1>22, <1>23 DEF TaskStep
<1>37. ASSUME RunLoop PROVE UsedInv'
  BY <1>37, <1>25, <1>26, <1>27, <1>28 DEF RunLoop
<1> QED
  BY <1>1, <1>2, <1>3, <1>4, <1>5, <1>17, <1>24, <1>29, <1>30, <1>31, <1>32, <1>33, <1>34, <1>35,
     <1>36, <1>37, <1>38 DEF Next, Mutation, MutationBegin

LEMMA KernelKept ==
  ASSUME NoOrphans, UNCHANGED <<store, kern>>
  PROVE  NoOrphans'
BY DEF NoOrphans

\* A step that leaves the records alone and no object of a new key behind.
LEMMA OrphansKept ==
  ASSUME NoOrphans, store' = store,
         \A id \in Ids : \A o \in kern'[id] : o \in kern[id] \/ (store[id] # None /\ o.key = store[id].key)
  PROVE  NoOrphans'
BY DEF NoOrphans

\* What a backend call on one tunnel with its stored record leaves behind.
LEMMA CallOrphans ==
  ASSUME TypeOK, NoOrphans, store' = store, NEW id \in Ids, store[id] # None, NEW left,
         left \in Remains(kern[id], store[id]) \cup {Applied(kern[id], store[id]), Removed(kern[id], store[id])},
         kern' = [kern EXCEPT ![id] = left]
  PROVE  NoOrphans'
<1>1. \A o \in kern[id] : o.key = store[id].key
  BY DEF NoOrphans
<1>2. \A o \in left : o.key = store[id].key
  BY <1>1, KernelKeys
<1>3. ASSUME NEW i \in Ids, NEW o \in kern'[i] PROVE store'[i] # None /\ o.key = store'[i].key
  <2>1. CASE i = id
    BY <1>2, <1>3, <2>1 DEF TypeOK
  <2>2. CASE i # id
    BY <1>3, <2>2 DEF TypeOK, NoOrphans
  <2> QED
    BY <2>1, <2>2
<1> QED
  BY <1>3 DEF NoOrphans

\* Committing a record for a tunnel keeps its objects if the key stays, or if there are none.
LEMMA CommitOrphans ==
  ASSUME TypeOK, NoOrphans, kern' = kern, NEW id \in Ids, NEW next, next # None,
         store' = [store EXCEPT ![id] = next], \A o \in kern[id] : o.key = next.key
  PROVE  NoOrphans'
BY DEF TypeOK, NoOrphans

LEMMA OrphanStep ==
  ASSUME TypeOK, TaskInv, MutationInv, UsedInv, NoOrphans, [Next]_vars
  PROVE  NoOrphans'
<1> USE ControlPlaneAssumption
<1>1. ASSUME NEW id \in Ids, NEW key \in Keys, NEW en \in BOOLEAN, Create(id, key, en) PROVE NoOrphans'
  <2>1. kern[id] = {}
    BY <1>1 DEF Create, UsedInv, NoOrphans
  <2>2. [gen |-> 1, key |-> key, en |-> en] # None
    BY RecordTypes, NoneNoRecord
  <2> QED
    BY <1>1, <2>1, <2>2, CommitOrphans DEF Create
<1>2. ASSUME NEW id \in Ids, NEW key \in Keys, NEW en \in BOOLEAN, UpdateInPlace(id, key, en) PROVE NoOrphans'
  <2> DEFINE next == Successor(store[id], key, en)
  <2>1. store[id] \in Record /\ next \in Record
    BY <1>2, RecordTypes DEF UpdateInPlace, TypeOK
  <2>2. next.key = store[id].key
    BY <1>2, <2>1 DEF UpdateInPlace, StableOwnership, RequiresCleanup, Kinds
  <2>3. next # None
    BY <2>1, NoneNoRecord
  <2>4. \A o \in kern[id] : o.key = next.key
    BY <2>2 DEF NoOrphans
  <2>5. store' = [store EXCEPT ![id] = next] /\ kern' = kern
    BY <1>2 DEF UpdateInPlace, Commit
  <2> HIDE DEF next
  <2> QED
    BY <2>3, <2>4, <2>5, CommitOrphans
<1>3. ASSUME NEW id \in Ids, NEW en \in BOOLEAN, SetEnabled(id, en) PROVE NoOrphans'
  <2> DEFINE next == Successor(store[id], store[id].key, en)
  <2>1. next # None /\ next.key = store[id].key
    BY <1>3, RecordTypes, NoneNoRecord DEF SetEnabled, TypeOK, Successor
  <2>2. \A o \in kern[id] : o.key = next.key
    BY <2>1 DEF NoOrphans
  <2>3. store' = [store EXCEPT ![id] = next] /\ kern' = kern
    BY <1>3 DEF SetEnabled, Commit
  <2> HIDE DEF next
  <2> QED
    BY <2>1, <2>2, <2>3, CommitOrphans
<1>4. ASSUME NEW c \in Clients, NEW id \in Ids, NEW key \in Keys, NEW en \in BOOLEAN, UpdateBegin(c, id, key, en) PROVE NoOrphans'
  BY <1>4, KernelKept DEF UpdateBegin
<1>5. ASSUME NEW c \in Clients, NEW id \in Ids, DeleteBegin(c, id) PROVE NoOrphans'
  BY <1>5, KernelKept DEF DeleteBegin
<1>6. ASSUME NEW c \in Clients, NEW kind \in {"reconcile", "observe"}, NEW ids \in SUBSET Ids, ReadBegin(c, kind, ids) PROVE NoOrphans'
  BY <1>6, KernelKept DEF ReadBegin
<1>7. ASSUME NEW c \in Clients, UpdateRemoved(c) PROVE NoOrphans'
  <2>1. store[req[c].id] = req[c].rec /\ store[req[c].id] # None /\ req[c].id \in Ids
    BY <1>7, RequestStored DEF UpdateRemoved, Mutating
  <2> QED
    BY <1>7, <2>1, CallOrphans DEF UpdateRemoved
<1>8. ASSUME NEW c \in Clients, UpdateRemoveFails(c) PROVE NoOrphans'
  <2>1. store[req[c].id] = req[c].rec /\ store[req[c].id] # None /\ req[c].id \in Ids
    BY <1>8, RequestStored DEF UpdateRemoveFails, Mutating
  <2>2. PICK left \in Remains(kern[req[c].id], req[c].rec) : kern' = [kern EXCEPT ![req[c].id] = left]
    BY <1>8 DEF UpdateRemoveFails
  <2> QED
    BY <1>8, <2>1, <2>2, CallOrphans DEF UpdateRemoveFails
<1>9. ASSUME NEW c \in Clients, UpdateCommit(c) PROVE NoOrphans'
  <2>1. req[c].id \in Ids /\ kern[req[c].id] = {}
    BY <1>9, RequestStored DEF UpdateCommit, Mutating, MutationInv, MutationAt
  <2>2. req[c].next # None
    BY <1>9, NoneNoRecord DEF UpdateCommit, MutationInv, MutationAt
  <2> QED
    BY <1>9, <2>1, <2>2, CommitOrphans DEF UpdateCommit, Commit
<1>10. ASSUME NEW c \in Clients, UpdateCommitFails(c) PROVE NoOrphans'
  BY <1>10, KernelKept DEF UpdateCommitFails
<1>11. ASSUME NEW c \in Clients, DeleteRemoved(c) PROVE NoOrphans'
  <2>1. store[req[c].id] = req[c].rec /\ store[req[c].id] # None /\ req[c].id \in Ids
    BY <1>11, RequestStored DEF DeleteRemoved, Mutating
  <2> QED
    BY <1>11, <2>1, CallOrphans DEF DeleteRemoved
<1>12. ASSUME NEW c \in Clients, DeleteRemoveFails(c) PROVE NoOrphans'
  <2>1. store[req[c].id] = req[c].rec /\ store[req[c].id] # None /\ req[c].id \in Ids
    BY <1>12, RequestStored DEF DeleteRemoveFails, Mutating
  <2>2. PICK left \in Remains(kern[req[c].id], req[c].rec) : kern' = [kern EXCEPT ![req[c].id] = left]
    BY <1>12 DEF DeleteRemoveFails
  <2> QED
    BY <1>12, <2>1, <2>2, CallOrphans DEF DeleteRemoveFails
<1>13. ASSUME NEW c \in Clients, DeleteCommit(c) PROVE NoOrphans'
  <2>1. req[c].id \in Ids /\ kern[req[c].id] = {}
    BY <1>13, RequestStored DEF DeleteCommit, Mutating, MutationInv, MutationAt
  <2> QED
    BY <1>13, <2>1 DEF DeleteCommit, NoOrphans, TypeOK
<1>14. ASSUME NEW c \in Clients, DeleteCommitFails(c) PROVE NoOrphans'
  BY <1>14, KernelKept DEF DeleteCommitFails
<1>15. ASSUME NEW c \in Clients, DeleteRepaired(c) PROVE NoOrphans'
  BY <1>15, KernelKept DEF DeleteRepaired
<1>16. ASSUME NEW c \in Clients, ReadDone(c) PROVE NoOrphans'
  BY <1>16, KernelKept DEF ReadDone
<1>17. ASSUME NEW p \in Procs, NEW id \in Ids, TaskBegin(p, id) PROVE NoOrphans'
  BY <1>17, KernelKept DEF TaskBegin
<1>38. ASSUME NEW p \in Procs, NEW id \in Ids, TaskReadFails(p, id) PROVE NoOrphans'
  BY <1>38, KernelKept DEF TaskReadFails
<1>18. ASSUME NEW p \in Procs, NEW id \in Ids, Reconciled(p, id) PROVE NoOrphans'
  <2>1. store[id] # None /\ targ[<<p, id>>] = store[id]
    BY <1>18 DEF Reconciled, TaskInv, TaskAt
  <2> DEFINE left == IF store[id].en THEN Applied(kern[id], store[id]) ELSE Removed(kern[id], store[id])
  <2>2. kern' = [kern EXCEPT ![id] = left] /\ store' = store
    BY <1>18, <2>1 DEF Reconciled, Report
  <2> QED
    BY <2>1, <2>2, CallOrphans
<1>19. ASSUME NEW p \in Procs, NEW id \in Ids, ReconcileFails(p, id) PROVE NoOrphans'
  <2>1. store[id] # None /\ targ[<<p, id>>] = store[id]
    BY <1>19 DEF ReconcileFails, TaskInv, TaskAt
  <2>2. PICK left \in Remains(kern[id], store[id]) : kern' = [kern EXCEPT ![id] = left]
    BY <1>19, <2>1 DEF ReconcileFails
  <2> QED
    BY <1>19, <2>1, <2>2, CallOrphans DEF ReconcileFails, Report
<1>20. ASSUME NEW p \in Procs, NEW id \in Ids, ObservedHealthy(p, id) PROVE NoOrphans'
  BY <1>20, KernelKept DEF ObservedHealthy, Report
<1>21. ASSUME NEW p \in Procs, NEW id \in Ids, ObservedDrift(p, id) PROVE NoOrphans'
  BY <1>21, KernelKept DEF ObservedDrift, Report
<1>22. ASSUME NEW p \in Procs, NEW id \in Ids, ObserveFails(p, id) PROVE NoOrphans'
  BY <1>22, KernelKept DEF ObserveFails, Report
<1>23. ASSUME NEW p \in Procs, NEW id \in Ids, TaskPublish(p, id) PROVE NoOrphans'
  BY <1>23, KernelKept DEF TaskPublish
<1>24. ASSUME Tick PROVE NoOrphans'
  BY <1>24, KernelKept DEF Tick
<1>25. ASSUME ReceiveWake PROVE NoOrphans'
  BY <1>25, KernelKept DEF ReceiveWake
<1>26. ASSUME ProcessQueue PROVE NoOrphans'
  BY <1>26, KernelKept DEF ProcessQueue
<1>27. ASSUME ProcessQueueFails PROVE NoOrphans'
  BY <1>27, KernelKept DEF ProcessQueueFails
<1>28. ASSUME PassDone PROVE NoOrphans'
  BY <1>28, KernelKept DEF PassDone
<1>29. ASSUME Debounce PROVE NoOrphans'
  BY <1>29, KernelKept DEF Debounce
<1>30. ASSUME DebounceFails PROVE NoOrphans'
  BY <1>30, KernelKept DEF DebounceFails
<1>31. ASSUME NEW id \in Ids, Drift(id) PROVE NoOrphans'
  BY <1>31 DEF Drift, TypeOK, NoOrphans
<1>32. ASSUME Crash PROVE NoOrphans'
  <2>1. ASSUME NEW id \in Ids, NEW rec \in InFlight(id) PROVE store[id] # None /\ rec = store[id]
    <3>1. CASE \E c \in Clients : op[c] \in {"updateRemove", "deleteRemove"} /\ req[c].id = id /\ rec = req[c].rec
      BY <3>1, RequestStored DEF Mutating
    <3>2. CASE \E p \in Procs : tst[<<p, id>>] = "call" /\ rec = targ[<<p, id>>]
      BY <3>2 DEF TaskInv, TaskAt
    <3> QED
      BY <2>1, <3>1, <3>2 DEF InFlight
  <2>2. ASSUME NEW id \in Ids, NEW o \in kern'[id]
        PROVE  o \in kern[id] \/ (store[id] # None /\ o.key = store[id].key)
    <3>1. \A i \in Ids : kern'[i] \in CrashRemains(i)
      BY <1>32 DEF Crash
    <3>2. PICK left \in CrashRemains(id) : o \in left
      BY <3>1
    <3>3. CASE left = kern[id]
      <4>1. o \in kern[id]
        BY <3>2, <3>3
      <4> QED
        BY <4>1
    <3>4. CASE \E rec \in InFlight(id) : left \in Remains(kern[id], rec)
      <4>1. store[id] # None /\ left \in Remains(kern[id], store[id])
        BY <3>4, <2>1
      <4>2. \A x \in kern[id] : x.key = store[id].key
        BY DEF NoOrphans
      <4> QED
        BY <3>2, <4>1, <4>2, KernelKeys
    <3> QED
      BY <3>2, <3>3, <3>4 DEF CrashRemains
  <2> QED
    BY <1>32, <2>2, OrphansKept DEF Crash
<1>33. CASE UNCHANGED vars
  BY <1>33, KernelKept DEF vars
<1>34. ASSUME NEW c \in Clients, ReadRequest(c) PROVE NoOrphans'
  BY <1>34, <1>6 DEF ReadRequest, Stored
<1>35. ASSUME NEW c \in Clients, ClientStep(c) PROVE NoOrphans'
  BY <1>35, <1>7, <1>8, <1>9, <1>10, <1>11, <1>12, <1>13, <1>14, <1>15, <1>16 DEF ClientStep
<1>36. ASSUME NEW p \in Procs, NEW id \in Ids, TaskStep(p, id) PROVE NoOrphans'
  BY <1>36, <1>18, <1>19, <1>20, <1>21, <1>22, <1>23 DEF TaskStep
<1>37. ASSUME RunLoop PROVE NoOrphans'
  BY <1>37, <1>25, <1>26, <1>27, <1>28 DEF RunLoop
<1> QED
  BY <1>1, <1>2, <1>3, <1>4, <1>5, <1>17, <1>24, <1>29, <1>30, <1>31, <1>32, <1>33, <1>34, <1>35,
     <1>36, <1>37, <1>38 DEF Next, Mutation, MutationBegin

-----------------------------------------------------------------------------
(* The theorems.                                                           *)

LEMMA InitInv == Init => IInv
<1> SUFFICES ASSUME Init PROVE IInv
  OBVIOUS
<1> USE ControlPlaneAssumption DEF Init, VolatileInit
<1>1. TypeOK
  BY DEF TypeOK
<1>2. GateInv
  BY DEF GateInv, Mutating, Reading, Procs
<1>3. TaskInv
  BY DEF TaskInv, TaskAt
<1>4. MutationInv
  BY DEF MutationInv, MutationAt, Mutating
<1>5. UsedInv /\ NoOrphans
  BY DEF UsedInv, NoOrphans
<1> QED
  BY <1>1, <1>2, <1>3, <1>4, <1>5 DEF IInv

LEMMA InductiveInv == IInv /\ [Next]_vars => IInv'
BY TypeStep, GateStep, TaskInvStep, MutationStep, UsedStep, OrphanStep DEF IInv

\* Every variable keeps its type: the queue, the gate, the tunnel mutexes and
\* the records a mutation or a reconcile carries across a backend call.
THEOREM TypeCorrect == Spec => []TypeOK
<1>1. IInv => TypeOK
  BY DEF IInv
<1> QED
  BY <1>1, InitInv, InductiveInv, PTL DEF Spec

\* Whatever fails, crashes or interleaves, no kernel object is left that the
\* stored record of its tunnel does not identify (Manager.updateLocked, Delete).
THEOREM NoOrphansCorrect == Spec => []NoOrphans
<1>1. IInv => NoOrphans
  BY DEF IInv
<1> QED
  BY <1>1, InitInv, InductiveInv, PTL DEF Spec

-----------------------------------------------------------------------------
(***************************************************************************)
(* What the daemon tells its clients: statuses, events and the queue.  On  *)
(* top of the gate (IInv) these need the mutex of each tunnel, since a     *)
(* status is stored and published in two steps, and what is on its way to  *)
(* repair a status that is not true yet.                                   *)
(***************************************************************************)

\* A reconcile that has begun keeps its tunnel's mutex until it has published.
LockInv ==
  \A p \in Procs, id \in Ids : tst[<<p, id>>] \in {"call", "publish"} => lock[id] = p

Agrees(id) ==
  IF stat[id] = None
    THEN evt[id] = None \/ evt[id].phase = "deleted"
    ELSE store[id] # None /\ evt[id] = EventOf(stat[id], store[id])

\* The last event is the status, or the task that stored the status has it.
EventAt(id) ==
  /\ Agrees(id) \/ \E p \in Procs : tst[<<p, id>>] = "publish"
  /\ \A p \in Procs : tst[<<p, id>>] = "publish" =>
       store[id] # None /\ stat[id] # None /\ targ[<<p, id>>] = EventOf(stat[id], store[id])

EventInv == \A id \in Ids : EventAt(id)

\* A reconcile that has not stored its status yet, or one that was given up.
Awaited(id) == queueAll \/ id \in queued \/ tst[<<Run, id>>] \in {"todo", "call"} \/ lost

PendingInv == \A id \in Stored : ViewPhase(id) = "pending" => Awaited(id)

\* The queue is never filled without a wake-up.
WakeInv == queueAll \/ queued # {} => wake \/ run = "woken"

\* A mutation that has removed the objects of a tunnel and has not ended yet.
InRemoval(id) ==
  \E c \in Clients :
    /\ \/ op[c] \in {"updateCommit", "deleteCommit"}
       \/ op[c] = "deleteRepair" /\ tst[<<c, id>>] \in {"todo", "call"}
    /\ req[c].id = id

TruthAt(id) ==
  store[id] # None /\ id \notin drifted =>
    /\ ViewPhase(id) = "ready" =>
         /\ store[id].en
         /\ kern[id] = {[key |-> store[id].key, gen |-> store[id].gen]}
         /\ stat[id].observed = store[id].gen
    /\ ViewPhase(id) = "disabled" =>
         Awaited(id) \/ InRemoval(id) \/ (~ store[id].en /\ kern[id] = {})

TruthInv == \A id \in Ids : TruthAt(id)

SInv == IInv /\ LockInv /\ EventInv /\ PendingInv /\ WakeInv /\ TruthInv

-----------------------------------------------------------------------------
(* Tunnel mutexes.                                                         *)

\* No reconcile runs while a request that makes no backend call does.
LEMMA FreeNoTasks ==
  ASSUME TaskInv, GateFree
  PROVE  \A p \in Procs, id \in Ids : tst[<<p, id>>] = "none"
BY NoTasks, ControlPlaneAssumption DEF GateFree, NoWriter, Procs

\* Nor while a mutation removes objects or is about to commit.
LEMMA MutatorAlone ==
  ASSUME GateInv, TaskInv, NEW c \in Clients,
         op[c] \in {"updateRemove", "updateCommit", "deleteRemove", "deleteCommit"}
  PROVE  \A p \in Procs, id \in Ids : tst[<<p, id>>] = "none"
BY OneMutation, NoTasks DEF Mutating

\* A task that a request has started has not begun.
LEMMA StartedTodo ==
  ASSUME NEW q, NEW ids, StartTasks(q, ids)
  PROVE  \A p \in Procs, id \in Ids :
           /\ tst'[<<p, id>>] = IF p = q /\ id \in ids THEN "todo" ELSE tst[<<p, id>>]
           /\ targ'[<<p, id>>] = targ[<<p, id>>]
BY DEF StartTasks

\* Two tasks are one only if process and tunnel are the same.
LEMMA OwnTask == \A p, q, i, j : <<p, i>> = <<q, j>> <=> p = q /\ i = j
OBVIOUS

\* What moves neither a mutex nor a task.
LEMMA LocksKept ==
  ASSUME LockInv, UNCHANGED <<lock, tst>>
  PROVE  LockInv'
BY DEF LockInv

\* Whoever has begun a reconcile holds its tunnel's mutex (Reconciler.lockFor).
LEMMA LockStep ==
  ASSUME TypeOK, GateInv, TaskInv, LockInv, [Next]_vars
  PROVE  LockInv'
<1>1. ASSUME NEW id \in Ids, NEW key \in Keys, NEW en \in BOOLEAN, Create(id, key, en) PROVE LockInv'
  BY <1>1, LocksKept DEF Create, task
<1>2. ASSUME NEW id \in Ids, NEW key \in Keys, NEW en \in BOOLEAN, UpdateInPlace(id, key, en) PROVE LockInv'
  BY <1>2, LocksKept DEF UpdateInPlace, task
<1>3. ASSUME NEW id \in Ids, NEW en \in BOOLEAN, SetEnabled(id, en) PROVE LockInv'
  BY <1>3, LocksKept DEF SetEnabled, task
<1>4. ASSUME NEW c \in Clients, NEW id \in Ids, NEW key \in Keys, NEW en \in BOOLEAN, UpdateBegin(c, id, key, en) PROVE LockInv'
  BY <1>4, FreeNoTasks DEF LockInv, UpdateBegin, task
<1>5. ASSUME NEW c \in Clients, NEW id \in Ids, DeleteBegin(c, id) PROVE LockInv'
  BY <1>5, FreeNoTasks DEF LockInv, DeleteBegin, task
<1>6. ASSUME NEW c \in Clients, NEW kind \in {"reconcile", "observe"}, NEW ids \in SUBSET Ids, ReadBegin(c, kind, ids) PROVE LockInv'
  BY <1>6, StartedTodo DEF LockInv, ReadBegin
<1>7. ASSUME NEW c \in Clients, UpdateRemoved(c) PROVE LockInv'
  BY <1>7, MutatorAlone DEF LockInv, UpdateRemoved, task
<1>8. ASSUME NEW c \in Clients, UpdateRemoveFails(c) PROVE LockInv'
  BY <1>8, MutatorAlone DEF LockInv, UpdateRemoveFails, task
<1>9. ASSUME NEW c \in Clients, UpdateCommit(c) PROVE LockInv'
  BY <1>9, LocksKept DEF UpdateCommit, task
<1>10. ASSUME NEW c \in Clients, UpdateCommitFails(c) PROVE LockInv'
  BY <1>10, LocksKept DEF UpdateCommitFails, task
<1>11. ASSUME NEW c \in Clients, DeleteRemoved(c) PROVE LockInv'
  BY <1>11, LocksKept DEF DeleteRemoved, task
<1>12. ASSUME NEW c \in Clients, DeleteRemoveFails(c) PROVE LockInv'
  BY <1>12, MutatorAlone DEF LockInv, DeleteRemoveFails, task
<1>13. ASSUME NEW c \in Clients, DeleteCommit(c) PROVE LockInv'
  BY <1>13, MutatorAlone DEF LockInv, DeleteCommit, task
<1>14. ASSUME NEW c \in Clients, DeleteCommitFails(c) PROVE LockInv'
  BY <1>14, MutatorAlone, StartedTodo DEF LockInv, DeleteCommitFails
<1>15. ASSUME NEW c \in Clients, DeleteRepaired(c) PROVE LockInv'
  BY <1>15, LocksKept DEF DeleteRepaired, task
<1>16. ASSUME NEW c \in Clients, ReadDone(c) PROVE LockInv'
  BY <1>16, LocksKept DEF ReadDone, task
<1>17. ASSUME NEW p \in Procs, NEW id \in Ids, TaskBegin(p, id) PROVE LockInv'
  <2> SUFFICES ASSUME NEW q \in Procs, NEW i \in Ids, tst'[<<q, i>>] \in {"call", "publish"}
               PROVE  lock'[i] = q
    BY DEF LockInv
  <2>1. tst[<<p, id>>] = "todo" /\ lock[id] = None
    BY <1>17 DEF TaskBegin
  <2>2. CASE <<q, i>> = <<p, id>>
    BY <1>17, <2>2, TaskTypes DEF TaskBegin, TypeOK
  <2>3. CASE <<q, i>> # <<p, id>>
    <3>1. tst[<<q, i>>] \in {"call", "publish"}
      BY <1>17, <2>3, TaskTypes DEF TaskBegin
    <3>2. lock[i] = q /\ i # id
      BY <2>1, <3>1, ControlPlaneAssumption DEF LockInv
    <3> QED
      BY <1>17, <3>2 DEF TaskBegin, TypeOK
  <2> QED
    BY <2>2, <2>3
<1>18. ASSUME NEW p \in Procs, NEW id \in Ids, TaskReadFails(p, id) PROVE LockInv'
  BY <1>18, TaskTypes, OwnTask DEF LockInv, TaskReadFails
<1>19. ASSUME NEW p \in Procs, NEW id \in Ids, Reconciled(p, id) PROVE LockInv'
  BY <1>19, TaskTypes, OwnTask DEF LockInv, Reconciled, Report
<1>20. ASSUME NEW p \in Procs, NEW id \in Ids, ReconcileFails(p, id) PROVE LockInv'
  BY <1>20, TaskTypes, OwnTask DEF LockInv, ReconcileFails, Report
<1>21. ASSUME NEW p \in Procs, NEW id \in Ids, ObservedHealthy(p, id) PROVE LockInv'
  BY <1>21, TaskTypes, OwnTask DEF LockInv, ObservedHealthy, Report
<1>22. ASSUME NEW p \in Procs, NEW id \in Ids, ObservedDrift(p, id) PROVE LockInv'
  BY <1>22, TaskTypes, OwnTask DEF LockInv, ObservedDrift, Report
<1>23. ASSUME NEW p \in Procs, NEW id \in Ids, ObserveFails(p, id) PROVE LockInv'
  BY <1>23, TaskTypes, OwnTask DEF LockInv, ObserveFails, Report
<1>24. ASSUME NEW p \in Procs, NEW id \in Ids, TaskPublish(p, id) PROVE LockInv'
  BY <1>24, TaskTypes, OwnTask DEF LockInv, TaskPublish, TypeOK
<1>25. ASSUME Tick PROVE LockInv'
  BY <1>25, LocksKept DEF Tick, task
<1>26. ASSUME ReceiveWake PROVE LockInv'
  BY <1>26, LocksKept DEF ReceiveWake, task
<1>27. ASSUME ProcessQueue PROVE LockInv'
  BY <1>27, StartedTodo DEF LockInv, ProcessQueue, Procs
<1>28. ASSUME ProcessQueueFails PROVE LockInv'
  BY <1>28, LocksKept DEF ProcessQueueFails, task
<1>29. ASSUME PassDone PROVE LockInv'
  BY <1>29, LocksKept DEF PassDone, task
<1>30. ASSUME Debounce PROVE LockInv'
  BY <1>30, LocksKept DEF Debounce, task
<1>31. ASSUME DebounceFails PROVE LockInv'
  BY <1>31, LocksKept DEF DebounceFails, task
<1>32. ASSUME NEW id \in Ids, Drift(id) PROVE LockInv'
  BY <1>32, LocksKept DEF Drift, task
<1>33. ASSUME Crash PROVE LockInv'
  BY <1>33 DEF LockInv, Crash
<1>34. CASE UNCHANGED vars
  BY <1>34, LocksKept DEF vars, volatile, task
<1>35. ASSUME NEW c \in Clients, ReadRequest(c) PROVE LockInv'
  BY <1>35, <1>6 DEF ReadRequest, Stored
<1>36. ASSUME NEW c \in Clients, ClientStep(c) PROVE LockInv'
  BY <1>36, <1>7, <1>8, <1>9, <1>10, <1>11, <1>12, <1>13, <1>14, <1>15, <1>16 DEF ClientStep
<1>37. ASSUME NEW p \in Procs, NEW id \in Ids, TaskStep(p, id) PROVE LockInv'
  BY <1>37, <1>19, <1>20, <1>21, <1>22, <1>23, <1>24 DEF TaskStep
<1>38. ASSUME RunLoop PROVE LockInv'
  BY <1>38, <1>26, <1>27, <1>28, <1>29 DEF RunLoop
<1> QED
  BY <1>1, <1>2, <1>3, <1>4, <1>5, <1>17, <1>18, <1>25, <1>30, <1>31, <1>32, <1>33, <1>34,
     <1>35, <1>36, <1>37, <1>38 DEF Next, Mutation, MutationBegin


-----------------------------------------------------------------------------
(* Events.                                                                 *)

\* What touches neither a status, an event, a record nor a task's report.
LEMMA EventKept ==
  ASSUME EventInv, UNCHANGED <<store, stat, evt>>,
         \A p \in Procs, id \in Ids :
           /\ tst'[<<p, id>>] = "publish" <=> tst[<<p, id>>] = "publish"
           /\ tst[<<p, id>>] = "publish" => targ'[<<p, id>>] = targ[<<p, id>>]
  PROVE  EventInv'
BY DEF EventInv, EventAt, Agrees

\* A status stored and published in one step, for the stored record.
LEMMA EventNow ==
  ASSUME TypeOK, EventInv, NEW id \in Ids, NEW s \in Status, NEW rec \in Record,
         store' = [store EXCEPT ![id] = rec], SetResult(id, s, rec), UNCHANGED task,
         \A p \in Procs, i \in Ids : tst[<<p, i>>] = "none"
  PROVE  EventInv'
BY NoneNoRecord, ControlPlaneAssumption DEF EventInv, EventAt, Agrees, SetResult, TypeOK, task

\* A mutation under the gate reports for the record it works on (setReconcileResult).
LEMMA EventSet ==
  ASSUME TypeOK, EventInv, NEW id \in Ids, NEW s \in Status, NEW rec \in Record,
         store[id] = rec, store' = store, SetResult(id, s, rec), UNCHANGED task,
         \A p \in Procs, i \in Ids : tst[<<p, i>>] = "none"
  PROVE  EventInv'
<1>1. store' = [store EXCEPT ![id] = rec]
  BY DEF TypeOK
<1> QED
  BY <1>1, EventNow

\* A record that is committed is published as pending (MarkPending).
LEMMA EventCommit ==
  ASSUME TypeOK, EventInv, NEW id \in Ids, NEW next \in Record, Commit(id, next), UNCHANGED task,
         \A p \in Procs, i \in Ids : tst[<<p, i>>] = "none"
  PROVE  EventInv'
<1>1. Pending(stat[id]) \in Status
  BY StatusTypes DEF TypeOK
<1>2. SetResult(id, Pending(stat[id]), next) /\ store' = [store EXCEPT ![id] = next]
  BY DEF Commit, MarkPending, SetResult
<1> QED
  BY <1>1, <1>2, EventNow

\* What a reconcile is about to publish is the status it has just stored.
LEMMA EventReport ==
  ASSUME TypeOK, TaskInv, LockInv, EventInv, NEW p \in Procs, NEW id \in Ids,
         tst[<<p, id>>] = "call", NEW s \in Status, Report(p, id, s)
  PROVE  EventInv'
<1> SUFFICES ASSUME NEW i \in Ids PROVE EventAt(i)'
  BY DEF EventInv
<1>1. \A q \in Procs : <<q, i>> # <<p, id>> =>
        tst'[<<q, i>>] = tst[<<q, i>>] /\ targ'[<<q, i>>] = targ[<<q, i>>]
  BY TaskTypes DEF Report
<1>2. CASE i = id
  <2>1. \A q \in Procs : q # p => tst[<<q, id>>] # "publish"
    BY DEF LockInv
  <2>2. tst'[<<p, id>>] = "publish" /\ targ'[<<p, id>>] = EventOf(s, store[id]) /\ store[id] # None
    BY TaskTypes DEF Report, TaskInv, TaskAt
  <2>3. stat'[id] = s /\ s # None /\ store' = store
    BY ControlPlaneAssumption DEF Report, TypeOK
  <2> QED
    BY <1>1, <1>2, <2>1, <2>2, <2>3, OwnTask DEF EventAt
<1>3. CASE i # id
  <2>1. UNCHANGED <<store, evt>> /\ stat'[i] = stat[i]
    BY <1>3 DEF Report, TypeOK
  <2> QED
    BY <1>1, <1>3, <2>1, OwnTask DEF EventInv, EventAt, Agrees
<1> QED
  BY <1>2, <1>3

\* Whoever is outside the gate has no task.
LEMMA IdleNoTasks ==
  ASSUME GateInv, TaskInv, NEW c \in Clients, op[c] = "idle"
  PROVE  \A id \in Ids : tst[<<c, id>>] = "none"
BY ControlPlaneAssumption DEF GateInv, TaskInv, TaskAt, Reading, Procs

\* The loop has no task before it takes the queue.
LEMMA WokenNoTasks ==
  ASSUME GateInv, TaskInv, run = "woken"
  PROVE  \A id \in Ids : tst[<<Run, id>>] = "none"
BY ControlPlaneAssumption DEF GateInv, TaskInv, TaskAt, Procs

\* Every step leaves the last event equal to the status, or owes it (publishStatus).
LEMMA EventStep ==
  ASSUME TypeOK, GateInv, TaskInv, MutationInv, LockInv, EventInv, [Next]_vars
  PROVE  EventInv'
<1>1. ASSUME NEW id \in Ids, NEW key \in Keys, NEW en \in BOOLEAN, Create(id, key, en) PROVE EventInv'
  <2> DEFINE next == [gen |-> 1, key |-> key, en |-> en]
  <2>1. next \in Record /\ \A p \in Procs, i \in Ids : tst[<<p, i>>] = "none"
    BY <1>1, FreeNoTasks, RecordTypes DEF Create, TypeOK
  <2>2. Commit(id, next) /\ UNCHANGED task
    BY <1>1 DEF Create, Commit
  <2> HIDE DEF next
  <2> QED
    BY <2>1, <2>2, EventCommit
<1>2. ASSUME NEW id \in Ids, NEW key \in Keys, NEW en \in BOOLEAN, UpdateInPlace(id, key, en) PROVE EventInv'
  <2> DEFINE next == Successor(store[id], key, en)
  <2>1. next \in Record /\ \A p \in Procs, i \in Ids : tst[<<p, i>>] = "none"
    BY <1>2, FreeNoTasks, RecordTypes DEF UpdateInPlace, TypeOK
  <2>2. Commit(id, next) /\ UNCHANGED task
    BY <1>2 DEF UpdateInPlace, Commit
  <2> HIDE DEF next
  <2> QED
    BY <2>1, <2>2, EventCommit
<1>3. ASSUME NEW id \in Ids, NEW en \in BOOLEAN, SetEnabled(id, en) PROVE EventInv'
  <2> DEFINE next == Successor(store[id], store[id].key, en)
  <2>1. next \in Record /\ \A p \in Procs, i \in Ids : tst[<<p, i>>] = "none"
    BY <1>3, FreeNoTasks, RecordTypes DEF SetEnabled, TypeOK
  <2>2. Commit(id, next) /\ UNCHANGED task
    BY <1>3 DEF SetEnabled, Commit
  <2> HIDE DEF next
  <2> QED
    BY <2>1, <2>2, EventCommit
<1>4. ASSUME NEW c \in Clients, NEW id \in Ids, NEW key \in Keys, NEW en \in BOOLEAN, UpdateBegin(c, id, key, en) PROVE EventInv'
  BY <1>4, EventKept DEF UpdateBegin, task
<1>5. ASSUME NEW c \in Clients, NEW id \in Ids, DeleteBegin(c, id) PROVE EventInv'
  BY <1>5, EventKept DEF DeleteBegin, task
<1>6. ASSUME NEW c \in Clients, NEW kind \in {"reconcile", "observe"}, NEW ids \in SUBSET Ids, ReadBegin(c, kind, ids) PROVE EventInv'
  <2>1. \A i \in Ids : tst[<<c, i>>] = "none"
    BY <1>6, IdleNoTasks DEF ReadBegin
  <2> QED
    BY <1>6, <2>1, StartedTodo, EventKept DEF ReadBegin
<1>7. ASSUME NEW c \in Clients, UpdateRemoved(c) PROVE EventInv'
  <2>1. req[c].id \in Ids /\ req[c].rec \in Record /\ store[req[c].id] = req[c].rec
    BY <1>7, RequestStored, RequestType DEF UpdateRemoved, Mutating
  <2>2. Succeeded("disabled", req[c].rec) \in Status
    BY <2>1, StatusTypes DEF TypeOK, Phases
  <2> QED
    BY <1>7, <2>1, <2>2, MutatorAlone, EventSet DEF UpdateRemoved
<1>8. ASSUME NEW c \in Clients, UpdateRemoveFails(c) PROVE EventInv'
  <2>1. req[c].id \in Ids /\ req[c].rec \in Record /\ store[req[c].id] = req[c].rec
    BY <1>8, RequestStored, RequestType DEF UpdateRemoveFails, Mutating
  <2>2. Failed(stat[req[c].id]) \in Status
    BY <2>1, StatusTypes DEF TypeOK, Phases
  <2> QED
    BY <1>8, <2>1, <2>2, MutatorAlone, EventSet DEF UpdateRemoveFails
<1>9. ASSUME NEW c \in Clients, UpdateCommit(c) PROVE EventInv'
  <2>1. req[c].id \in Ids /\ req[c].next \in Record
    BY <1>9, RequestStored DEF UpdateCommit, MutationInv, MutationAt, Mutating
  <2> QED
    BY <1>9, <2>1, MutatorAlone, EventCommit DEF UpdateCommit
<1>10. ASSUME NEW c \in Clients, UpdateCommitFails(c) PROVE EventInv'
  BY <1>10, EventKept DEF UpdateCommitFails, task
<1>11. ASSUME NEW c \in Clients, DeleteRemoved(c) PROVE EventInv'
  <2>1. req[c].id \in Ids /\ req[c].rec \in Record /\ store[req[c].id] = req[c].rec
    BY <1>11, RequestStored, RequestType DEF DeleteRemoved, Mutating
  <2>2. Succeeded("disabled", req[c].rec) \in Status
    BY <2>1, StatusTypes DEF TypeOK, Phases
  <2> QED
    BY <1>11, <2>1, <2>2, MutatorAlone, EventSet DEF DeleteRemoved
<1>12. ASSUME NEW c \in Clients, DeleteRemoveFails(c) PROVE EventInv'
  <2>1. req[c].id \in Ids /\ req[c].rec \in Record /\ store[req[c].id] = req[c].rec
    BY <1>12, RequestStored, RequestType DEF DeleteRemoveFails, Mutating
  <2>2. Failed(stat[req[c].id]) \in Status
    BY <2>1, StatusTypes DEF TypeOK, Phases
  <2> QED
    BY <1>12, <2>1, <2>2, MutatorAlone, EventSet DEF DeleteRemoveFails
<1>13. ASSUME NEW c \in Clients, DeleteCommit(c) PROVE EventInv'
  <2>1. req[c].id \in Ids
    BY <1>13, RequestStored DEF DeleteCommit, Mutating
  <2>2. \A p \in Procs, i \in Ids : tst[<<p, i>>] = "none" /\ tst'[<<p, i>>] = "none"
    BY <1>13, MutatorAlone DEF DeleteCommit, task
  <2> SUFFICES ASSUME NEW i \in Ids PROVE Agrees(i)'
    BY <2>2 DEF EventInv, EventAt
  <2>3. CASE i = req[c].id
    <3>1. stat'[i] = None /\ evt'[i].phase = "deleted"
      BY <1>13, <2>1, <2>3 DEF DeleteCommit, TypeOK
    <3> QED
      BY <3>1 DEF Agrees
  <2>4. CASE i # req[c].id
    <3>1. stat'[i] = stat[i] /\ evt'[i] = evt[i] /\ store'[i] = store[i]
      BY <1>13, <2>4 DEF DeleteCommit, TypeOK
    <3>2. Agrees(i)
      BY <2>2 DEF EventInv, EventAt
    <3> QED
      BY <3>1, <3>2 DEF Agrees
  <2> QED
    BY <2>3, <2>4
<1>14. ASSUME NEW c \in Clients, DeleteCommitFails(c) PROVE EventInv'
  BY <1>14, MutatorAlone, StartedTodo, EventKept DEF DeleteCommitFails
<1>15. ASSUME NEW c \in Clients, DeleteRepaired(c) PROVE EventInv'
  BY <1>15, EventKept DEF DeleteRepaired, task
<1>16. ASSUME NEW c \in Clients, ReadDone(c) PROVE EventInv'
  BY <1>16, EventKept DEF ReadDone, task
<1>17. ASSUME NEW p \in Procs, NEW id \in Ids, TaskBegin(p, id) PROVE EventInv'
  BY <1>17, TaskTypes, OwnTask, EventKept DEF TaskBegin
<1>18. ASSUME NEW p \in Procs, NEW id \in Ids, TaskReadFails(p, id) PROVE EventInv'
  BY <1>18, TaskTypes, OwnTask, EventKept DEF TaskReadFails
<1>19. ASSUME NEW p \in Procs, NEW id \in Ids, Reconciled(p, id) PROVE EventInv'
  <2>1. tst[<<p, id>>] = "call" /\ targ[<<p, id>>] \in Record
    BY <1>19, CallType DEF Reconciled
  <2>2. Succeeded(IF targ[<<p, id>>].en THEN "ready" ELSE "disabled", targ[<<p, id>>]) \in Status
    BY <2>1, StatusTypes DEF TypeOK, Phases
  <2> QED
    BY <1>19, <2>1, <2>2, EventReport DEF Reconciled
<1>20. ASSUME NEW p \in Procs, NEW id \in Ids, ReconcileFails(p, id) PROVE EventInv'
  <2>1. tst[<<p, id>>] = "call" /\ targ[<<p, id>>] \in Record
    BY <1>20, CallType DEF ReconcileFails
  <2>2. Failed(stat[id]) \in Status
    BY <2>1, StatusTypes DEF TypeOK, Phases
  <2> QED
    BY <1>20, <2>1, <2>2, EventReport DEF ReconcileFails
<1>21. ASSUME NEW p \in Procs, NEW id \in Ids, ObservedHealthy(p, id) PROVE EventInv'
  <2>1. tst[<<p, id>>] = "call" /\ targ[<<p, id>>] \in Record
    BY <1>21, CallType DEF ObservedHealthy
  <2>2. ObservedOk(stat[id], targ[<<p, id>>]) \in Status
    BY <2>1, StatusTypes DEF TypeOK, Phases
  <2> QED
    BY <1>21, <2>1, <2>2, EventReport DEF ObservedHealthy
<1>22. ASSUME NEW p \in Procs, NEW id \in Ids, ObservedDrift(p, id) PROVE EventInv'
  <2>1. tst[<<p, id>>] = "call" /\ targ[<<p, id>>] \in Record
    BY <1>22, CallType DEF ObservedDrift
  <2>2. Failed(stat[id]) \in Status
    BY <2>1, StatusTypes DEF TypeOK, Phases
  <2> QED
    BY <1>22, <2>1, <2>2, EventReport DEF ObservedDrift
<1>23. ASSUME NEW p \in Procs, NEW id \in Ids, ObserveFails(p, id) PROVE EventInv'
  <2>1. tst[<<p, id>>] = "call" /\ targ[<<p, id>>] \in Record
    BY <1>23, CallType DEF ObserveFails
  <2>2. Failed(stat[id]) \in Status
    BY <2>1, StatusTypes DEF TypeOK, Phases
  <2> QED
    BY <1>23, <2>1, <2>2, EventReport DEF ObserveFails
<1>24. ASSUME NEW p \in Procs, NEW id \in Ids, TaskPublish(p, id) PROVE EventInv'
  <2> SUFFICES ASSUME NEW i \in Ids PROVE EventAt(i)'
    BY DEF EventInv
  <2>1. \A q \in Procs : <<q, i>> # <<p, id>> =>
          tst'[<<q, i>>] = tst[<<q, i>>] /\ targ'[<<q, i>>] = targ[<<q, i>>]
    BY <1>24, TaskTypes DEF TaskPublish
  <2>2. CASE i = id
    BY <1>24, <2>1, <2>2, OwnTask DEF TaskPublish, EventInv, EventAt, Agrees, TypeOK
  <2>3. CASE i # id
    <3>1. UNCHANGED <<store, stat>> /\ evt'[i] = evt[i]
      BY <1>24, <2>3 DEF TaskPublish, TypeOK
    <3> QED
      BY <2>1, <2>3, <3>1, OwnTask DEF EventInv, EventAt, Agrees
  <2> QED
    BY <2>2, <2>3
<1>25. ASSUME Tick PROVE EventInv'
  BY <1>25, EventKept DEF Tick, task
<1>26. ASSUME ReceiveWake PROVE EventInv'
  BY <1>26, EventKept DEF ReceiveWake, task
<1>27. ASSUME ProcessQueue PROVE EventInv'
  <2>1. \A i \in Ids : tst[<<Run, i>>] = "none"
    BY <1>27, WokenNoTasks DEF ProcessQueue, TakeQueue
  <2> QED
    BY <1>27, <2>1, StartedTodo, EventKept DEF ProcessQueue
<1>28. ASSUME ProcessQueueFails PROVE EventInv'
  BY <1>28, EventKept DEF ProcessQueueFails, task
<1>29. ASSUME PassDone PROVE EventInv'
  BY <1>29, EventKept DEF PassDone, task
<1>30. ASSUME Debounce PROVE EventInv'
  BY <1>30, EventKept DEF Debounce, task
<1>31. ASSUME DebounceFails PROVE EventInv'
  BY <1>31, EventKept DEF DebounceFails, task
<1>32. ASSUME NEW id \in Ids, Drift(id) PROVE EventInv'
  BY <1>32, EventKept DEF Drift, task
<1>33. ASSUME Crash PROVE EventInv'
  BY <1>33 DEF EventInv, EventAt, Agrees, Crash
<1>34. CASE UNCHANGED vars
  BY <1>34, EventKept DEF vars, volatile, task
<1>35. ASSUME NEW c \in Clients, ReadRequest(c) PROVE EventInv'
  BY <1>35, <1>6 DEF ReadRequest, Stored
<1>36. ASSUME NEW c \in Clients, ClientStep(c) PROVE EventInv'
  BY <1>36, <1>7, <1>8, <1>9, <1>10, <1>11, <1>12, <1>13, <1>14, <1>15, <1>16 DEF ClientStep
<1>37. ASSUME NEW p \in Procs, NEW id \in Ids, TaskStep(p, id) PROVE EventInv'
  BY <1>37, <1>19, <1>20, <1>21, <1>22, <1>23, <1>24 DEF TaskStep
<1>38. ASSUME RunLoop PROVE EventInv'
  BY <1>38, <1>26, <1>27, <1>28, <1>29 DEF RunLoop
<1> QED
  BY <1>1, <1>2, <1>3, <1>4, <1>5, <1>17, <1>18, <1>25, <1>30, <1>31, <1>32, <1>33, <1>34,
     <1>35, <1>36, <1>37, <1>38 DEF Next, Mutation, MutationBegin


-----------------------------------------------------------------------------
(* Requests to reconcile.                                                  *)

\* A step that stores neither a record nor a status only has to keep the promises.
LEMMA PendingKept ==
  ASSUME PendingInv, UNCHANGED <<store, stat>>, \A id \in Stored : Awaited(id) => Awaited(id)'
  PROVE  PendingInv'
BY DEF PendingInv, Stored, ViewPhase

\* A record that is committed is queued.
LEMMA PendingCommit ==
  ASSUME TypeOK, PendingInv, NEW id \in Ids, NEW next, store' = [store EXCEPT ![id] = next],
         MarkPending(id, next), Enqueue(id), UNCHANGED <<task, lost>>
  PROVE  PendingInv'
<1> SUFFICES ASSUME NEW i \in Ids, store'[i] # None, ViewPhase(i)' = "pending" PROVE Awaited(i)'
  BY DEF PendingInv, Stored
<1>1. CASE i = id
  BY <1>1 DEF Enqueue, Awaited
<1>2. CASE i # id
  <2>1. store'[i] = store[i] /\ stat'[i] = stat[i]
    BY <1>2 DEF MarkPending, TypeOK
  <2>2. Awaited(i)
    BY <2>1 DEF PendingInv, Stored, ViewPhase
  <2> QED
    BY <2>2 DEF Enqueue, Awaited, task
<1> QED
  BY <1>1, <1>2

\* A status that is not pending needs no reconcile.
LEMMA PendingSettled ==
  ASSUME TypeOK, PendingInv, NEW id \in Ids, NEW s, s.phase # "pending", store' = store,
         stat' = [stat EXCEPT ![id] = s], s \in Status,
         \A i \in Ids \ {id} : Awaited(i) => Awaited(i)'
  PROVE  PendingInv'
<1> SUFFICES ASSUME NEW i \in Ids, store'[i] # None, ViewPhase(i)' = "pending" PROVE Awaited(i)'
  BY DEF PendingInv, Stored
<1>1. i # id
  BY ControlPlaneAssumption DEF ViewPhase, TypeOK
<1>2. store'[i] = store[i] /\ stat'[i] = stat[i]
  BY <1>1 DEF TypeOK
<1> QED
  BY <1>1, <1>2 DEF PendingInv, Stored, ViewPhase

\* The result of a backend call is pending only as it was, and of an observation.
LEMMA PendingReport ==
  ASSUME TypeOK, PendingInv, NEW p \in Procs, NEW id \in Ids, tst[<<p, id>>] = "call",
         NEW s \in Status, Report(p, id, s), s.phase # "pending" \/ (p # Run /\ s.phase = ViewPhase(id))
  PROVE  PendingInv'
<1> SUFFICES ASSUME NEW i \in Ids, store'[i] # None, ViewPhase(i)' = "pending" PROVE Awaited(i)'
  BY DEF PendingInv, Stored
<1>1. UNCHANGED <<store, queueAll, queued, lost>>
  BY DEF Report, queueVars
<1>2. <<p, i>> # <<p, id>> \/ p # Run => tst'[<<Run, i>>] = tst[<<Run, i>>]
  BY TaskTypes, OwnTask DEF Report, Procs
<1>3. CASE i = id
  <2>1. stat'[id] = s /\ s # None
    BY ControlPlaneAssumption DEF Report, TypeOK
  <2>2. s.phase = "pending"
    BY <1>3, <2>1 DEF ViewPhase
  <2>3. p # Run /\ ViewPhase(id) = "pending"
    BY <2>2
  <2> QED
    BY <1>1, <1>2, <1>3, <2>3 DEF PendingInv, Stored, Awaited
<1>4. CASE i # id
  <2>1. stat'[i] = stat[i]
    BY <1>4 DEF Report, TypeOK
  <2> QED
    BY <1>1, <1>2, <1>4, <2>1, OwnTask DEF PendingInv, Stored, ViewPhase, Awaited
<1> QED
  BY <1>3, <1>4

\* Every step that leaves a tunnel pending leaves a reconcile for it (Enqueue, processQueue).
LEMMA PendingStep ==
  ASSUME TypeOK, TaskInv, MutationInv, PendingInv, [Next]_vars
  PROVE  PendingInv'
<1>1. ASSUME NEW id \in Ids, NEW key \in Keys, NEW en \in BOOLEAN, Create(id, key, en) PROVE PendingInv'
  BY <1>1, PendingCommit DEF Create, Commit, task
<1>2. ASSUME NEW id \in Ids, NEW key \in Keys, NEW en \in BOOLEAN, UpdateInPlace(id, key, en) PROVE PendingInv'
  BY <1>2, PendingCommit DEF UpdateInPlace, Commit, task
<1>3. ASSUME NEW id \in Ids, NEW en \in BOOLEAN, SetEnabled(id, en) PROVE PendingInv'
  BY <1>3, PendingCommit DEF SetEnabled, Commit, task
<1>4. ASSUME NEW c \in Clients, NEW id \in Ids, NEW key \in Keys, NEW en \in BOOLEAN, UpdateBegin(c, id, key, en) PROVE PendingInv'
  BY <1>4, PendingKept DEF UpdateBegin, task, queueVars, Awaited
<1>5. ASSUME NEW c \in Clients, NEW id \in Ids, DeleteBegin(c, id) PROVE PendingInv'
  BY <1>5, PendingKept DEF DeleteBegin, task, queueVars, Awaited
<1>6. ASSUME NEW c \in Clients, NEW kind \in {"reconcile", "observe"}, NEW ids \in SUBSET Ids, ReadBegin(c, kind, ids) PROVE PendingInv'
  <2>1. UNCHANGED <<store, stat, queueVars, lost>>
    BY <1>6 DEF ReadBegin
  <2>2. \A i \in Ids : tst'[<<Run, i>>] = tst[<<Run, i>>]
    BY <1>6, StartedTodo, ControlPlaneAssumption DEF ReadBegin, Procs
  <2> QED
    BY <2>1, <2>2, PendingKept DEF Awaited, Stored, queueVars
<1>7. ASSUME NEW c \in Clients, UpdateRemoved(c) PROVE PendingInv'
  <2>1. req[c].id \in Ids /\ req[c].rec \in Record
    BY <1>7, RequestStored, RequestType DEF UpdateRemoved, Mutating
  <2>2. Succeeded("disabled", req[c].rec) \in Status /\ Succeeded("disabled", req[c].rec).phase # "pending"
    BY <2>1, StatusTypes DEF TypeOK, Phases, Succeeded, Failed
  <2>3. stat' = [stat EXCEPT ![req[c].id] = Succeeded("disabled", req[c].rec)] /\ UNCHANGED <<store, task, queueVars, lost>>
    BY <1>7 DEF UpdateRemoved, SetResult
  <2>4. \A i \in Ids : Awaited(i) => Awaited(i)'
    BY <2>3 DEF Awaited, task, queueVars
  <2> QED
    BY <2>1, <2>2, <2>3, <2>4, PendingSettled
<1>8. ASSUME NEW c \in Clients, UpdateRemoveFails(c) PROVE PendingInv'
  <2>1. req[c].id \in Ids /\ req[c].rec \in Record
    BY <1>8, RequestStored, RequestType DEF UpdateRemoveFails, Mutating
  <2>2. Failed(stat[req[c].id]) \in Status /\ Failed(stat[req[c].id]).phase # "pending"
    BY <2>1, StatusTypes DEF TypeOK, Phases, Succeeded, Failed
  <2>3. stat' = [stat EXCEPT ![req[c].id] = Failed(stat[req[c].id])] /\ UNCHANGED <<store, task, queueVars, lost>>
    BY <1>8 DEF UpdateRemoveFails, SetResult
  <2>4. \A i \in Ids : Awaited(i) => Awaited(i)'
    BY <2>3 DEF Awaited, task, queueVars
  <2> QED
    BY <2>1, <2>2, <2>3, <2>4, PendingSettled
<1>9. ASSUME NEW c \in Clients, UpdateCommit(c) PROVE PendingInv'
  <2>1. req[c].id \in Ids
    BY <1>9, RequestStored DEF UpdateCommit, Mutating
  <2> QED
    BY <1>9, <2>1, PendingCommit DEF UpdateCommit, Commit, task
<1>10. ASSUME NEW c \in Clients, UpdateCommitFails(c) PROVE PendingInv'
  <2>1. UNCHANGED <<store, stat, task, lost, queueAll>> /\ (queued \subseteq queued')
    BY <1>10 DEF UpdateCommitFails, Enqueue
  <2>2. \A i \in Ids : Awaited(i) => Awaited(i)'
    BY <2>1 DEF Awaited, task
  <2> QED
    BY <2>1, <2>2, PendingKept DEF Stored
<1>11. ASSUME NEW c \in Clients, DeleteRemoved(c) PROVE PendingInv'
  <2>1. req[c].id \in Ids /\ req[c].rec \in Record
    BY <1>11, RequestStored, RequestType DEF DeleteRemoved, Mutating
  <2>2. Succeeded("disabled", req[c].rec) \in Status /\ Succeeded("disabled", req[c].rec).phase # "pending"
    BY <2>1, StatusTypes DEF TypeOK, Phases, Succeeded, Failed
  <2>3. stat' = [stat EXCEPT ![req[c].id] = Succeeded("disabled", req[c].rec)] /\ UNCHANGED <<store, task, queueVars, lost>>
    BY <1>11 DEF DeleteRemoved, SetResult
  <2>4. \A i \in Ids : Awaited(i) => Awaited(i)'
    BY <2>3 DEF Awaited, task, queueVars
  <2> QED
    BY <2>1, <2>2, <2>3, <2>4, PendingSettled
<1>12. ASSUME NEW c \in Clients, DeleteRemoveFails(c) PROVE PendingInv'
  <2>1. req[c].id \in Ids /\ req[c].rec \in Record
    BY <1>12, RequestStored, RequestType DEF DeleteRemoveFails, Mutating
  <2>2. Failed(stat[req[c].id]) \in Status /\ Failed(stat[req[c].id]).phase # "pending"
    BY <2>1, StatusTypes DEF TypeOK, Phases, Succeeded, Failed
  <2>3. stat' = [stat EXCEPT ![req[c].id] = Failed(stat[req[c].id])] /\ UNCHANGED <<store, task, queueVars, lost>>
    BY <1>12 DEF DeleteRemoveFails, SetResult
  <2>4. \A i \in Ids : Awaited(i) => Awaited(i)'
    BY <2>3 DEF Awaited, task, queueVars
  <2> QED
    BY <2>1, <2>2, <2>3, <2>4, PendingSettled
<1>13. ASSUME NEW c \in Clients, DeleteCommit(c) PROVE PendingInv'
  <2>1. req[c].id \in Ids
    BY <1>13, RequestStored DEF DeleteCommit, Mutating
  <2> QED
    BY <1>13, <2>1 DEF DeleteCommit, PendingInv, Stored, ViewPhase, Awaited, TypeOK, task, queueVars
<1>14. ASSUME NEW c \in Clients, DeleteCommitFails(c) PROVE PendingInv'
  <2>1. UNCHANGED <<store, stat, queueVars, lost>>
    BY <1>14 DEF DeleteCommitFails
  <2>2. \A i \in Ids : tst'[<<Run, i>>] = tst[<<Run, i>>]
    BY <1>14, StartedTodo, ControlPlaneAssumption DEF DeleteCommitFails, Procs
  <2> QED
    BY <2>1, <2>2, PendingKept DEF Awaited, Stored, queueVars
<1>15. ASSUME NEW c \in Clients, DeleteRepaired(c) PROVE PendingInv'
  BY <1>15, PendingKept DEF DeleteRepaired, task, queueVars, Awaited
<1>16. ASSUME NEW c \in Clients, ReadDone(c) PROVE PendingInv'
  BY <1>16, PendingKept DEF ReadDone, task, queueVars, Awaited
<1>17. ASSUME NEW p \in Procs, NEW id \in Ids, TaskBegin(p, id) PROVE PendingInv'
  <2>1. store' = store /\ stat' = stat /\ UNCHANGED <<queueAll, queued, lost>>
    BY <1>17 DEF TaskBegin, queueVars
  <2>2. ASSUME NEW i \in Stored, Awaited(i) PROVE Awaited(i)'
    <3>1. CASE p = Run /\ i = id
      BY <1>17, <2>1, <2>2, <3>1, TaskTypes DEF TaskBegin, Awaited, Stored
    <3>2. CASE ~ (p = Run /\ i = id)
      <4>1. tst'[<<Run, i>>] = tst[<<Run, i>>]
        BY <1>17, <3>2, TaskTypes, OwnTask DEF TaskBegin, Stored, Procs
      <4> QED
        BY <2>1, <2>2, <4>1 DEF Awaited
    <3> QED
      BY <3>1, <3>2
  <2> QED
    BY <2>1, <2>2, PendingKept
<1>18. ASSUME NEW p \in Procs, NEW id \in Ids, TaskReadFails(p, id) PROVE PendingInv'
  <2>1. UNCHANGED <<store, stat, queueAll, queued>> /\ lost' = (lost \/ ~ Observing(p))
    BY <1>18 DEF TaskReadFails, queueVars
  <2>2. ASSUME NEW i \in Stored, Awaited(i) PROVE Awaited(i)'
    <3>1. CASE p = Run
      BY <2>1, <3>1 DEF Observing, Awaited
    <3>2. CASE p # Run
      <4>1. tst'[<<Run, i>>] = tst[<<Run, i>>]
        BY <1>18, <3>2, TaskTypes, OwnTask DEF TaskReadFails, Stored, Procs
      <4> QED
        BY <2>1, <2>2, <4>1 DEF Awaited
    <3> QED
      BY <3>1, <3>2
  <2> QED
    BY <2>1, <2>2, PendingKept
<1>19. ASSUME NEW p \in Procs, NEW id \in Ids, Reconciled(p, id) PROVE PendingInv'
  <2>1. tst[<<p, id>>] = "call" /\ targ[<<p, id>>] \in Record
    BY <1>19, CallType DEF Reconciled
  <2>2. Succeeded(IF targ[<<p, id>>].en THEN "ready" ELSE "disabled", targ[<<p, id>>]) \in Status
    BY <2>1, StatusTypes DEF TypeOK, Phases
  <2>3. Succeeded(IF targ[<<p, id>>].en THEN "ready" ELSE "disabled", targ[<<p, id>>]).phase # "pending"
    BY DEF Succeeded, Failed
  <2> QED
    BY <1>19, <2>1, <2>2, <2>3, PendingReport DEF Reconciled
<1>20. ASSUME NEW p \in Procs, NEW id \in Ids, ReconcileFails(p, id) PROVE PendingInv'
  <2>1. tst[<<p, id>>] = "call" /\ targ[<<p, id>>] \in Record
    BY <1>20, CallType DEF ReconcileFails
  <2>2. Failed(stat[id]) \in Status
    BY <2>1, StatusTypes DEF TypeOK, Phases
  <2>3. Failed(stat[id]).phase # "pending"
    BY DEF Succeeded, Failed
  <2> QED
    BY <1>20, <2>1, <2>2, <2>3, PendingReport DEF ReconcileFails
<1>21. ASSUME NEW p \in Procs, NEW id \in Ids, ObservedHealthy(p, id) PROVE PendingInv'
  <2>1. tst[<<p, id>>] = "call" /\ targ[<<p, id>>] \in Record
    BY <1>21, CallType DEF ObservedHealthy
  <2>2. targ[<<p, id>>] = store[id] /\ p # Run
    BY <1>21 DEF ObservedHealthy, TaskInv, TaskAt, Observing
  <2>3. ObservedOk(stat[id], targ[<<p, id>>]).phase = ViewPhase(id)
    BY <2>2 DEF ObservedOk, ViewPhase
  <2>4. ObservedOk(stat[id], targ[<<p, id>>]) \in Status
    BY <2>1, StatusTypes DEF TypeOK
  <2> QED
    BY <1>21, <2>1, <2>2, <2>3, <2>4, PendingReport DEF ObservedHealthy
<1>22. ASSUME NEW p \in Procs, NEW id \in Ids, ObservedDrift(p, id) PROVE PendingInv'
  <2>1. tst[<<p, id>>] = "call" /\ targ[<<p, id>>] \in Record
    BY <1>22, CallType DEF ObservedDrift
  <2>2. Failed(stat[id]) \in Status
    BY <2>1, StatusTypes DEF TypeOK, Phases
  <2>3. Failed(stat[id]).phase # "pending"
    BY DEF Succeeded, Failed
  <2> QED
    BY <1>22, <2>1, <2>2, <2>3, PendingReport DEF ObservedDrift
<1>23. ASSUME NEW p \in Procs, NEW id \in Ids, ObserveFails(p, id) PROVE PendingInv'
  <2>1. tst[<<p, id>>] = "call" /\ targ[<<p, id>>] \in Record
    BY <1>23, CallType DEF ObserveFails
  <2>2. Failed(stat[id]) \in Status
    BY <2>1, StatusTypes DEF TypeOK, Phases
  <2>3. Failed(stat[id]).phase # "pending"
    BY DEF Succeeded, Failed
  <2> QED
    BY <1>23, <2>1, <2>2, <2>3, PendingReport DEF ObserveFails
<1>24. ASSUME NEW p \in Procs, NEW id \in Ids, TaskPublish(p, id) PROVE PendingInv'
  <2>1. UNCHANGED <<store, stat, queueAll, queued, lost>>
    BY <1>24 DEF TaskPublish, queueVars
  <2>2. \A i \in Ids : tst[<<Run, i>>] \in {"todo", "call"} => tst'[<<Run, i>>] = tst[<<Run, i>>]
    BY <1>24, TaskTypes, OwnTask DEF TaskPublish, Procs
  <2> QED
    BY <2>1, <2>2, PendingKept DEF Awaited, Stored
<1>25. ASSUME Tick PROVE PendingInv'
  BY <1>25 DEF Tick, EnqueueAll, PendingInv, Awaited
<1>26. ASSUME ReceiveWake PROVE PendingInv'
  BY <1>26, PendingKept DEF ReceiveWake, task, queueVars, Awaited
<1>27. ASSUME ProcessQueue PROVE PendingInv'
  <2>1. store' = store /\ stat' = stat /\ lost' = lost
    BY <1>27 DEF ProcessQueue
  <2>2. ASSUME NEW i \in Stored, Awaited(i) PROVE Awaited(i)'
    <3>1. queueAll \/ i \in queued \/ lost \/ tst[<<Run, i>>] \in {"todo", "call"}
      BY <2>2 DEF Awaited
    <3>2. i \in Ids /\ Run \in Procs
      BY DEF Stored, Procs
    <3>3. tst'[<<Run, i>>] = IF i \in (IF queueAll THEN Stored ELSE queued) THEN "todo" ELSE tst[<<Run, i>>]
      BY <1>27, <3>2, StartedTodo DEF ProcessQueue
    <3> QED
      BY <2>1, <2>2, <3>1, <3>3 DEF Awaited
  <2> QED
    BY <2>1, <2>2, PendingKept
<1>28. ASSUME ProcessQueueFails PROVE PendingInv'
  BY <1>28 DEF ProcessQueueFails, PendingInv, Awaited
<1>29. ASSUME PassDone PROVE PendingInv'
  BY <1>29, PendingKept DEF PassDone, task, queueVars, Awaited
<1>30. ASSUME Debounce PROVE PendingInv'
  BY <1>30, PendingKept DEF Debounce, task, Awaited
<1>31. ASSUME DebounceFails PROVE PendingInv'
  BY <1>31 DEF DebounceFails, EnqueueAll, PendingInv, Awaited
<1>32. ASSUME NEW id \in Ids, Drift(id) PROVE PendingInv'
  BY <1>32, PendingKept DEF Drift, task, queueVars, Awaited
<1>33. ASSUME Crash PROVE PendingInv'
  BY <1>33 DEF Crash, EnqueueAll, PendingInv, Awaited
<1>34. CASE UNCHANGED vars
  BY <1>34, PendingKept DEF vars, volatile, task, queueVars, Awaited
<1>35. ASSUME NEW c \in Clients, ReadRequest(c) PROVE PendingInv'
  BY <1>35, <1>6 DEF ReadRequest, Stored
<1>36. ASSUME NEW c \in Clients, ClientStep(c) PROVE PendingInv'
  BY <1>36, <1>7, <1>8, <1>9, <1>10, <1>11, <1>12, <1>13, <1>14, <1>15, <1>16 DEF ClientStep
<1>37. ASSUME NEW p \in Procs, NEW id \in Ids, TaskStep(p, id) PROVE PendingInv'
  BY <1>37, <1>19, <1>20, <1>21, <1>22, <1>23, <1>24 DEF TaskStep
<1>38. ASSUME RunLoop PROVE PendingInv'
  BY <1>38, <1>26, <1>27, <1>28, <1>29 DEF RunLoop
<1> QED
  BY <1>1, <1>2, <1>3, <1>4, <1>5, <1>17, <1>18, <1>25, <1>30, <1>31, <1>32, <1>33, <1>34,
     <1>35, <1>36, <1>37, <1>38 DEF Next, Mutation, MutationBegin

\* Every step that fills the queue fills the wake channel (Enqueue, EnqueueAll, Run).
LEMMA WakeStep ==
  ASSUME WakeInv, [Next]_vars
  PROVE  WakeInv'
<1>1. ASSUME NEW id \in Ids, NEW key \in Keys, NEW en \in BOOLEAN, Create(id, key, en) PROVE WakeInv'
  BY <1>1 DEF WakeInv, Create, Enqueue
<1>2. ASSUME NEW id \in Ids, NEW key \in Keys, NEW en \in BOOLEAN, UpdateInPlace(id, key, en) PROVE WakeInv'
  BY <1>2 DEF WakeInv, UpdateInPlace, Commit, Enqueue
<1>3. ASSUME NEW id \in Ids, NEW en \in BOOLEAN, SetEnabled(id, en) PROVE WakeInv'
  BY <1>3 DEF WakeInv, SetEnabled, Commit, Enqueue
<1>4. ASSUME NEW c \in Clients, NEW id \in Ids, NEW key \in Keys, NEW en \in BOOLEAN, UpdateBegin(c, id, key, en) PROVE WakeInv'
  BY <1>4 DEF WakeInv, UpdateBegin, queueVars
<1>5. ASSUME NEW c \in Clients, NEW id \in Ids, DeleteBegin(c, id) PROVE WakeInv'
  BY <1>5 DEF WakeInv, DeleteBegin, queueVars
<1>6. ASSUME NEW c \in Clients, NEW kind \in {"reconcile", "observe"}, NEW ids \in SUBSET Ids, ReadBegin(c, kind, ids) PROVE WakeInv'
  BY <1>6 DEF WakeInv, ReadBegin, queueVars
<1>7. ASSUME NEW c \in Clients, UpdateRemoved(c) PROVE WakeInv'
  BY <1>7 DEF WakeInv, UpdateRemoved, queueVars
<1>8. ASSUME NEW c \in Clients, UpdateRemoveFails(c) PROVE WakeInv'
  BY <1>8 DEF WakeInv, UpdateRemoveFails, queueVars
<1>9. ASSUME NEW c \in Clients, UpdateCommit(c) PROVE WakeInv'
  BY <1>9 DEF WakeInv, UpdateCommit, Commit, Enqueue
<1>10. ASSUME NEW c \in Clients, UpdateCommitFails(c) PROVE WakeInv'
  BY <1>10 DEF WakeInv, UpdateCommitFails, Enqueue
<1>11. ASSUME NEW c \in Clients, DeleteRemoved(c) PROVE WakeInv'
  BY <1>11 DEF WakeInv, DeleteRemoved, queueVars
<1>12. ASSUME NEW c \in Clients, DeleteRemoveFails(c) PROVE WakeInv'
  BY <1>12 DEF WakeInv, DeleteRemoveFails, queueVars
<1>13. ASSUME NEW c \in Clients, DeleteCommit(c) PROVE WakeInv'
  BY <1>13 DEF WakeInv, DeleteCommit, queueVars
<1>14. ASSUME NEW c \in Clients, DeleteCommitFails(c) PROVE WakeInv'
  BY <1>14 DEF WakeInv, DeleteCommitFails, queueVars
<1>15. ASSUME NEW c \in Clients, DeleteRepaired(c) PROVE WakeInv'
  BY <1>15 DEF WakeInv, DeleteRepaired, queueVars
<1>16. ASSUME NEW c \in Clients, ReadDone(c) PROVE WakeInv'
  BY <1>16 DEF WakeInv, ReadDone, queueVars
<1>17. ASSUME NEW p \in Procs, NEW id \in Ids, TaskBegin(p, id) PROVE WakeInv'
  BY <1>17 DEF WakeInv, TaskBegin, queueVars
<1>18. ASSUME NEW p \in Procs, NEW id \in Ids, TaskReadFails(p, id) PROVE WakeInv'
  BY <1>18 DEF WakeInv, TaskReadFails, queueVars
<1>19. ASSUME NEW p \in Procs, NEW id \in Ids, Reconciled(p, id) PROVE WakeInv'
  BY <1>19 DEF WakeInv, Reconciled, Report, queueVars
<1>20. ASSUME NEW p \in Procs, NEW id \in Ids, ReconcileFails(p, id) PROVE WakeInv'
  BY <1>20 DEF WakeInv, ReconcileFails, Report, queueVars
<1>21. ASSUME NEW p \in Procs, NEW id \in Ids, ObservedHealthy(p, id) PROVE WakeInv'
  BY <1>21 DEF WakeInv, ObservedHealthy, Report, queueVars
<1>22. ASSUME NEW p \in Procs, NEW id \in Ids, ObservedDrift(p, id) PROVE WakeInv'
  BY <1>22 DEF WakeInv, ObservedDrift, Report, queueVars
<1>23. ASSUME NEW p \in Procs, NEW id \in Ids, ObserveFails(p, id) PROVE WakeInv'
  BY <1>23 DEF WakeInv, ObserveFails, Report, queueVars
<1>24. ASSUME NEW p \in Procs, NEW id \in Ids, TaskPublish(p, id) PROVE WakeInv'
  BY <1>24 DEF WakeInv, TaskPublish, queueVars
<1>25. ASSUME Tick PROVE WakeInv'
  BY <1>25 DEF WakeInv, Tick, EnqueueAll
<1>26. ASSUME ReceiveWake PROVE WakeInv'
  BY <1>26 DEF WakeInv, ReceiveWake, queueVars
<1>27. ASSUME ProcessQueue PROVE WakeInv'
  BY <1>27 DEF WakeInv, ProcessQueue, TakeQueue
<1>28. ASSUME ProcessQueueFails PROVE WakeInv'
  BY <1>28 DEF WakeInv, ProcessQueueFails, TakeQueue
<1>29. ASSUME PassDone PROVE WakeInv'
  BY <1>29 DEF WakeInv, PassDone, queueVars
<1>30. ASSUME Debounce PROVE WakeInv'
  BY <1>30 DEF WakeInv, Debounce, queueVars
<1>31. ASSUME DebounceFails PROVE WakeInv'
  BY <1>31 DEF WakeInv, DebounceFails, EnqueueAll
<1>32. ASSUME NEW id \in Ids, Drift(id) PROVE WakeInv'
  BY <1>32 DEF WakeInv, Drift, queueVars
<1>33. ASSUME Crash PROVE WakeInv'
  BY <1>33 DEF WakeInv, Crash, EnqueueAll
<1>34. CASE UNCHANGED vars
  BY <1>34 DEF WakeInv, vars, volatile, queueVars
<1>35. ASSUME NEW c \in Clients, ReadRequest(c) PROVE WakeInv'
  BY <1>35, <1>6 DEF ReadRequest, Stored
<1>36. ASSUME NEW c \in Clients, ClientStep(c) PROVE WakeInv'
  BY <1>36, <1>7, <1>8, <1>9, <1>10, <1>11, <1>12, <1>13, <1>14, <1>15, <1>16 DEF ClientStep
<1>37. ASSUME NEW p \in Procs, NEW id \in Ids, TaskStep(p, id) PROVE WakeInv'
  BY <1>37, <1>19, <1>20, <1>21, <1>22, <1>23, <1>24 DEF TaskStep
<1>38. ASSUME RunLoop PROVE WakeInv'
  BY <1>38, <1>26, <1>27, <1>28, <1>29 DEF RunLoop
<1> QED
  BY <1>1, <1>2, <1>3, <1>4, <1>5, <1>17, <1>18, <1>25, <1>30, <1>31, <1>32, <1>33, <1>34,
     <1>35, <1>36, <1>37, <1>38 DEF Next, Mutation, MutationBegin


-----------------------------------------------------------------------------
(* Statuses.                                                               *)

\* What is coming, or is in the middle of a removal, stays so.
LEMMA TruthKept ==
  ASSUME TruthInv, UNCHANGED <<store, stat, kern, drifted>>,
         \A id \in Ids : store[id] # None /\ (Awaited(id) \/ InRemoval(id)) => Awaited(id)' \/ InRemoval(id)'
  PROVE  TruthInv'
BY DEF TruthInv, TruthAt, ViewPhase

\* A step that moves no request and no task.
LEMMA RemovalKept ==
  ASSUME UNCHANGED <<task, cl>>
  PROVE  \A i \in Ids : InRemoval(i) => InRemoval(i)'
BY DEF InRemoval, task, cl

\* A status that is pending is a status.
LEMMA PendingType ==
  ASSUME NEW s \in Status \cup {None}
  PROVE  Pending(s) \in Status
BY DEF Pending, Observed, Status, Phases

\* A step of the loop that moves no request and no task.
LEMMA TruthFrame ==
  ASSUME TruthInv, UNCHANGED <<store, stat, kern, drifted, task, cl>>,
         queueAll' \/ lost' \/ (queueAll' = queueAll /\ lost' = lost /\ queued \subseteq queued')
  PROVE  TruthInv'
<1>1. \A id \in Ids : Awaited(id) => Awaited(id)'
  BY DEF Awaited, task
<1> QED
  BY <1>1, RemovalKept, TruthKept

\* A request that leaves was in the removal of its own tunnel only.
LEMMA LeftOther ==
  ASSUME TypeOK, NEW c \in Clients, Leave(c), UNCHANGED task
  PROVE  \A i \in Ids \ {req[c].id} : InRemoval(i) => InRemoval(i)'
BY DEF Leave, InRemoval, TypeOK, task

\* A record that is committed is shown as pending.
LEMMA TruthCommit ==
  ASSUME TypeOK, TruthInv, NEW id \in Ids, NEW next, store' = [store EXCEPT ![id] = next],
         MarkPending(id, next), Enqueue(id), UNCHANGED <<kern, drifted, task, lost>>,
         \A i \in Ids \ {id} : InRemoval(i) => InRemoval(i)'
  PROVE  TruthInv'
<1> SUFFICES ASSUME NEW i \in Ids PROVE TruthAt(i)'
  BY DEF TruthInv
<1>1. CASE i = id
  <2>1. stat'[i] = Pending(stat[i]) /\ Pending(stat[i]) # None
    <3>1. Pending(stat[i]) \in Status
      BY PendingType DEF TypeOK
    <3> QED
      BY <1>1, <3>1, ControlPlaneAssumption DEF MarkPending, TypeOK
  <2>2. ViewPhase(i)' = "pending"
    BY <2>1 DEF ViewPhase, Pending
  <2> QED
    BY <2>2 DEF TruthAt
<1>2. CASE i # id
  <2>1. store'[i] = store[i] /\ stat'[i] = stat[i]
    BY <1>2 DEF MarkPending, TypeOK
  <2>2. Awaited(i) => Awaited(i)'
    BY DEF Enqueue, Awaited, task
  <2> QED
    BY <1>2, <2>1, <2>2 DEF TruthInv, TruthAt, ViewPhase
<1> QED
  BY <1>1, <1>2

\* The status and the objects of one tunnel change together.
LEMMA TruthSettled ==
  ASSUME TypeOK, TruthInv, NEW id \in Ids, NEW s \in Status, NEW objs, store' = store,
         stat' = [stat EXCEPT ![id] = s], kern' = [kern EXCEPT ![id] = objs],
         drifted \ {id} \subseteq drifted',
         s.phase = "ready" /\ id \notin drifted' =>
           /\ store[id].en /\ objs = {[key |-> store[id].key, gen |-> store[id].gen]}
           /\ s.observed = store[id].gen,
         s.phase = "disabled" /\ id \notin drifted' =>
           Awaited(id)' \/ InRemoval(id)' \/ (~ store[id].en /\ objs = {}),
         \A i \in Ids \ {id} : Awaited(i) \/ InRemoval(i) => Awaited(i)' \/ InRemoval(i)'
  PROVE  TruthInv'
<1> SUFFICES ASSUME NEW i \in Ids PROVE TruthAt(i)'
  BY DEF TruthInv
<1>1. CASE i = id
  <2>1. stat'[i] = s /\ s # None /\ kern'[i] = objs
    BY <1>1, ControlPlaneAssumption DEF TypeOK
  <2> QED
    BY <1>1, <2>1 DEF TruthAt, ViewPhase
<1>2. CASE i # id
  <2>1. stat'[i] = stat[i] /\ kern'[i] = kern[i]
    BY <1>2 DEF TypeOK
  <2> QED
    BY <1>2, <2>1 DEF TruthInv, TruthAt, ViewPhase
<1> QED
  BY <1>1, <1>2

\* A task that reports changes nothing of what other tunnels wait for.
LEMMA ReportOthers ==
  ASSUME TypeOK, NEW p \in Procs, NEW id \in Ids, NEW s, Report(p, id, s)
  PROVE  \A i \in Ids \ {id} : Awaited(i) \/ InRemoval(i) => Awaited(i)' \/ InRemoval(i)'
<1>1. UNCHANGED <<queueAll, queued, lost, cl>>
  BY DEF Report, queueVars
<1>2. \A q \in Procs, i \in Ids \ {id} : tst'[<<q, i>>] = tst[<<q, i>>]
  BY TaskTypes, OwnTask DEF Report
<1> QED
  BY <1>1, <1>2 DEF Awaited, InRemoval, cl, Procs

\* The result of a reconcile is true when it is stored.
LEMMA TruthReport ==
  ASSUME TypeOK, TruthInv, NEW p \in Procs, NEW id \in Ids, NEW s \in Status, NEW objs,
         Report(p, id, s), kern' = [kern EXCEPT ![id] = objs], drifted' = drifted \ {id},
         s.phase = "ready" => /\ store[id].en /\ objs = {[key |-> store[id].key, gen |-> store[id].gen]}
                              /\ s.observed = store[id].gen,
         s.phase = "disabled" => ~ store[id].en /\ objs = {}
  PROVE  TruthInv'
<1>1. stat' = [stat EXCEPT ![id] = s] /\ store' = store
  BY DEF Report
<1> QED
  BY <1>1, ReportOthers, TruthSettled

\* An observation leaves the phase, or reports an error.
LEMMA TruthObserved ==
  ASSUME TypeOK, TruthInv, NEW p \in Procs, NEW id \in Ids, NEW s \in Status, store[id] # None,
         Report(p, id, s), UNCHANGED <<kern, drifted>>,
         \/ s.phase = "error"
         \/ Observing(p) /\ s.phase = ViewPhase(id) /\ (s.phase = "ready" => s.observed = stat[id].observed)
  PROVE  TruthInv'
<1>1. stat' = [stat EXCEPT ![id] = s] /\ store' = store /\ kern' = [kern EXCEPT ![id] = kern[id]]
  BY DEF Report, TypeOK
<1>2. CASE s.phase = "error"
  BY <1>1, <1>2, ReportOthers, TruthSettled
<1>3. CASE /\ Observing(p) /\ s.phase = ViewPhase(id)
           /\ s.phase = "ready" => s.observed = stat[id].observed
  <2>1. UNCHANGED <<queueAll, queued, lost, cl>>
    BY DEF Report, queueVars
  <2>2. \A q \in Procs : q # p => tst'[<<q, id>>] = tst[<<q, id>>]
    BY TaskTypes, OwnTask DEF Report
  <2>3. Awaited(id) \/ InRemoval(id) => Awaited(id)' \/ InRemoval(id)'
    BY <1>3, <2>1, <2>2 DEF Observing, Awaited, InRemoval, cl, Procs
  <2>4. TruthAt(id)
    BY DEF TruthInv
  <2> QED
    BY <1>1, <1>3, <2>3, <2>4, ReportOthers, TruthSettled DEF TruthAt
<1> QED
  BY <1>2, <1>3

\* Every step keeps the statuses true, or awaited (reconcileRecord, Update, Delete).
LEMMA TruthStep ==
  ASSUME TypeOK, TaskInv, MutationInv, NoOrphans, TruthInv, [Next]_vars
  PROVE  TruthInv'
<1>1. ASSUME NEW id \in Ids, NEW key \in Keys, NEW en \in BOOLEAN, Create(id, key, en) PROVE TruthInv'
  BY <1>1, RemovalKept, TruthCommit DEF Create, Commit, cl
<1>2. ASSUME NEW id \in Ids, NEW key \in Keys, NEW en \in BOOLEAN, UpdateInPlace(id, key, en) PROVE TruthInv'
  BY <1>2, RemovalKept, TruthCommit DEF UpdateInPlace, Commit, cl
<1>3. ASSUME NEW id \in Ids, NEW en \in BOOLEAN, SetEnabled(id, en) PROVE TruthInv'
  BY <1>3, RemovalKept, TruthCommit DEF SetEnabled, Commit, cl
<1>4. ASSUME NEW c \in Clients, NEW id \in Ids, NEW key \in Keys, NEW en \in BOOLEAN, UpdateBegin(c, id, key, en) PROVE TruthInv'
  <2>1. op[c] = "idle" /\ UNCHANGED <<store, stat, kern, drifted, queueAll, queued, lost, task>>
    BY <1>4 DEF UpdateBegin, queueVars
  <2>2. \A d \in Clients \ {c} : op'[d] = op[d] /\ req'[d] = req[d]
    BY <1>4 DEF UpdateBegin, TypeOK
  <2>3. \A i \in Ids : InRemoval(i) => InRemoval(i)'
    BY <2>1, <2>2 DEF InRemoval, task
  <2>4. \A i \in Ids : Awaited(i) => Awaited(i)'
    BY <2>1 DEF Awaited, task
  <2> QED
    BY <2>1, <2>3, <2>4, TruthKept
<1>5. ASSUME NEW c \in Clients, NEW id \in Ids, DeleteBegin(c, id) PROVE TruthInv'
  <2>1. op[c] = "idle" /\ UNCHANGED <<store, stat, kern, drifted, queueAll, queued, lost, task>>
    BY <1>5 DEF DeleteBegin, queueVars
  <2>2. \A d \in Clients \ {c} : op'[d] = op[d] /\ req'[d] = req[d]
    BY <1>5 DEF DeleteBegin, TypeOK
  <2>3. \A i \in Ids : InRemoval(i) => InRemoval(i)'
    BY <2>1, <2>2 DEF InRemoval, task
  <2>4. \A i \in Ids : Awaited(i) => Awaited(i)'
    BY <2>1 DEF Awaited, task
  <2> QED
    BY <2>1, <2>3, <2>4, TruthKept
<1>6. ASSUME NEW c \in Clients, NEW kind \in {"reconcile", "observe"}, NEW ids \in SUBSET Ids, ReadBegin(c, kind, ids) PROVE TruthInv'
  <2>1. op[c] = "idle" /\ UNCHANGED <<store, stat, kern, drifted, queueAll, queued, lost, req>>
    BY <1>6 DEF ReadBegin, queueVars
  <2>2. \A d \in Clients \ {c} : op'[d] = op[d]
    BY <1>6 DEF ReadBegin, TypeOK
  <2>3. ASSUME NEW q \in Procs \ {c}, NEW i \in Ids PROVE tst'[<<q, i>>] = tst[<<q, i>>]
    BY <1>6, StartedTodo DEF ReadBegin
  <2>4. \A i \in Ids : InRemoval(i) => InRemoval(i)'
    BY <2>1, <2>2, <2>3 DEF InRemoval, Procs
  <2>5. \A i \in Ids : Awaited(i) => Awaited(i)'
    BY <2>1, <2>3, ControlPlaneAssumption DEF Awaited, Procs
  <2> QED
    BY <2>1, <2>4, <2>5, TruthKept
<1>7. ASSUME NEW c \in Clients, UpdateRemoved(c) PROVE TruthInv'
  <2>1. req[c].id \in Ids /\ req[c].rec \in Record
    BY <1>7, RequestStored, RequestType DEF UpdateRemoved, Mutating
  <2> DEFINE s == Succeeded("disabled", req[c].rec)
  <2>2. s \in Status /\ s.phase # "ready"
    BY <2>1, StatusTypes DEF Phases, Succeeded
  <2>3. /\ stat' = [stat EXCEPT ![req[c].id] = s]
        /\ kern' = [kern EXCEPT ![req[c].id] = Removed(@, req[c].rec)]
        /\ drifted' = drifted \ {req[c].id}
        /\ op' = [op EXCEPT ![c] = "updateCommit"]
        /\ UNCHANGED <<store, queueAll, queued, lost, task, req>>
    BY <1>7 DEF UpdateRemoved, SetResult, queueVars
  <2>4. InRemoval(req[c].id)'
    BY <2>1, <2>3 DEF InRemoval, TypeOK
  <2>5. ASSUME NEW i \in Ids \ {req[c].id}, InRemoval(i) PROVE InRemoval(i)'
    BY <1>7, <2>3, <2>5 DEF UpdateRemoved, InRemoval, TypeOK, task
  <2> HIDE DEF s
  <2> QED
    BY <2>1, <2>2, <2>3, <2>4, <2>5, TruthSettled DEF Awaited, task
<1>8. ASSUME NEW c \in Clients, UpdateRemoveFails(c) PROVE TruthInv'
  <2>1. req[c].id \in Ids /\ req[c].rec \in Record
    BY <1>8, RequestStored, RequestType DEF UpdateRemoveFails, Mutating
  <2> DEFINE s == Failed(stat[req[c].id])
  <2>2. s \in Status /\ s.phase = "error"
    BY <2>1, StatusTypes DEF TypeOK, Failed
  <2>3. PICK left : kern' = [kern EXCEPT ![req[c].id] = left]
    BY <1>8 DEF UpdateRemoveFails
  <2>4. /\ stat' = [stat EXCEPT ![req[c].id] = s]
        /\ drifted' = drifted \ {req[c].id}
        /\ UNCHANGED <<store, queueAll, queued, lost, task>>
    BY <1>8 DEF UpdateRemoveFails, SetResult, queueVars
  <2>5. \A i \in Ids \ {req[c].id} : InRemoval(i) => InRemoval(i)'
    BY <1>8, <2>4, LeftOther DEF UpdateRemoveFails
  <2> HIDE DEF s
  <2> QED
    BY <2>1, <2>2, <2>3, <2>4, <2>5, TruthSettled DEF Awaited, task
<1>9. ASSUME NEW c \in Clients, UpdateCommit(c) PROVE TruthInv'
  <2>1. req[c].id \in Ids
    BY <1>9, RequestStored DEF UpdateCommit, Mutating
  <2>2. \A i \in Ids \ {req[c].id} : InRemoval(i) => InRemoval(i)'
    BY <1>9, LeftOther DEF UpdateCommit
  <2> QED
    BY <1>9, <2>1, <2>2, TruthCommit DEF UpdateCommit, Commit
<1>10. ASSUME NEW c \in Clients, UpdateCommitFails(c) PROVE TruthInv'
  <2>1. req[c].id \in Ids
    BY <1>10, RequestStored DEF UpdateCommitFails, Mutating
  <2>2. \A i \in Ids \ {req[c].id} : InRemoval(i) => InRemoval(i)'
    BY <1>10, LeftOther DEF UpdateCommitFails
  <2>3. UNCHANGED <<store, stat, kern, drifted, queueAll, lost, task>>
    BY <1>10 DEF UpdateCommitFails, Enqueue
  <2>4. queued' = IF queueAll THEN queued ELSE queued \cup {req[c].id}
    BY <1>10 DEF UpdateCommitFails, Enqueue
  <2>5. ASSUME NEW i \in Ids, Awaited(i) \/ InRemoval(i) PROVE Awaited(i)' \/ InRemoval(i)'
    <3>1. CASE i = req[c].id
      BY <2>3, <2>4, <3>1 DEF Awaited
    <3>2. CASE i # req[c].id
      BY <2>2, <2>3, <2>4, <2>5, <3>2 DEF Awaited, task
    <3> QED
      BY <3>1, <3>2
  <2> QED
    BY <2>3, <2>5, TruthKept
<1>11. ASSUME NEW c \in Clients, DeleteRemoved(c) PROVE TruthInv'
  <2>1. req[c].id \in Ids /\ req[c].rec \in Record
    BY <1>11, RequestStored, RequestType DEF DeleteRemoved, Mutating
  <2> DEFINE s == Succeeded("disabled", req[c].rec)
  <2>2. s \in Status /\ s.phase # "ready"
    BY <2>1, StatusTypes DEF Phases, Succeeded
  <2>3. /\ stat' = [stat EXCEPT ![req[c].id] = s]
        /\ kern' = [kern EXCEPT ![req[c].id] = Removed(@, req[c].rec)]
        /\ drifted' = drifted \ {req[c].id}
        /\ op' = [op EXCEPT ![c] = "deleteCommit"]
        /\ UNCHANGED <<store, queueAll, queued, lost, task, req>>
    BY <1>11 DEF DeleteRemoved, SetResult, queueVars
  <2>4. InRemoval(req[c].id)'
    BY <2>1, <2>3 DEF InRemoval, TypeOK
  <2>5. ASSUME NEW i \in Ids \ {req[c].id}, InRemoval(i) PROVE InRemoval(i)'
    BY <1>11, <2>3, <2>5 DEF DeleteRemoved, InRemoval, TypeOK, task
  <2> HIDE DEF s
  <2> QED
    BY <2>1, <2>2, <2>3, <2>4, <2>5, TruthSettled DEF Awaited, task
<1>12. ASSUME NEW c \in Clients, DeleteRemoveFails(c) PROVE TruthInv'
  <2>1. req[c].id \in Ids /\ req[c].rec \in Record
    BY <1>12, RequestStored, RequestType DEF DeleteRemoveFails, Mutating
  <2> DEFINE s == Failed(stat[req[c].id])
  <2>2. s \in Status /\ s.phase = "error"
    BY <2>1, StatusTypes DEF TypeOK, Failed
  <2>3. PICK left : kern' = [kern EXCEPT ![req[c].id] = left]
    BY <1>12 DEF DeleteRemoveFails
  <2>4. /\ stat' = [stat EXCEPT ![req[c].id] = s]
        /\ drifted' = drifted \ {req[c].id}
        /\ UNCHANGED <<store, queueAll, queued, lost, task>>
    BY <1>12 DEF DeleteRemoveFails, SetResult, queueVars
  <2>5. \A i \in Ids \ {req[c].id} : InRemoval(i) => InRemoval(i)'
    BY <1>12, <2>4, LeftOther DEF DeleteRemoveFails
  <2> HIDE DEF s
  <2> QED
    BY <2>1, <2>2, <2>3, <2>4, <2>5, TruthSettled DEF Awaited, task
<1>13. ASSUME NEW c \in Clients, DeleteCommit(c) PROVE TruthInv'
  <2>1. req[c].id \in Ids
    BY <1>13, RequestStored DEF DeleteCommit, Mutating
  <2>2. \A i \in Ids \ {req[c].id} : InRemoval(i) => InRemoval(i)'
    BY <1>13, LeftOther DEF DeleteCommit
  <2>3. /\ UNCHANGED <<kern, drifted, queueAll, queued, lost, task>>
        /\ store' = [store EXCEPT ![req[c].id] = None] /\ stat' = [stat EXCEPT ![req[c].id] = None]
    BY <1>13 DEF DeleteCommit, queueVars
  <2> SUFFICES ASSUME NEW i \in Ids, store'[i] # None PROVE TruthAt(i)'
    BY DEF TruthInv, TruthAt
  <2>4. i # req[c].id /\ store'[i] = store[i] /\ stat'[i] = stat[i]
    BY <2>1, <2>3 DEF TypeOK
  <2> QED
    BY <2>2, <2>3, <2>4 DEF TruthInv, TruthAt, ViewPhase, Awaited, task
<1>14. ASSUME NEW c \in Clients, DeleteCommitFails(c) PROVE TruthInv'
  <2>1. req[c].id \in Ids
    BY <1>14, RequestStored, RequestType DEF DeleteCommitFails, Mutating
  <2>2. UNCHANGED <<store, stat, kern, drifted, queueAll, queued, lost, req>>
    BY <1>14 DEF DeleteCommitFails, queueVars
  <2>3. ASSUME NEW p \in Procs, NEW i \in Ids
        PROVE  tst'[<<p, i>>] = IF p = c /\ i \in {req[c].id} THEN "todo" ELSE tst[<<p, i>>]
    BY <1>14, StartedTodo DEF DeleteCommitFails
  <2>4. op'[c] = "deleteRepair" /\ \A d \in Clients \ {c} : op'[d] = op[d]
    BY <1>14 DEF DeleteCommitFails, TypeOK
  <2>5. ASSUME NEW i \in Ids, i = req[c].id PROVE InRemoval(i)'
    BY <2>1, <2>2, <2>3, <2>4, <2>5 DEF InRemoval, Procs
  <2>6. ASSUME NEW i \in Ids, InRemoval(i) PROVE InRemoval(i)'
    <3>1. PICK d \in Clients : /\ req[d].id = i
                                /\ \/ op[d] \in {"updateCommit", "deleteCommit"}
                                   \/ op[d] = "deleteRepair" /\ tst[<<d, i>>] \in {"todo", "call"}
      BY <2>6 DEF InRemoval
    <3>2. CASE d = c
      <4>1. i = req[c].id
        BY <3>1, <3>2
      <4> QED
        BY <2>5, <4>1
    <3>3. CASE d # c
      BY <2>2, <2>3, <2>4, <3>1, <3>3 DEF InRemoval, Procs
    <3> QED
      BY <3>2, <3>3
  <2>7. \A i \in Ids : Awaited(i) => Awaited(i)'
    BY <2>2, <2>3, ControlPlaneAssumption DEF Awaited, Procs
  <2> QED
    BY <2>2, <2>6, <2>7, TruthKept
<1>15. ASSUME NEW c \in Clients, DeleteRepaired(c) PROVE TruthInv'
  <2>1. op[c] = "deleteRepair" /\ tst[<<c, req[c].id>>] = "none"
        /\ UNCHANGED <<store, stat, kern, drifted, queueAll, queued, lost, task>>
    BY <1>15 DEF DeleteRepaired, queueVars
  <2>2. \A d \in Clients \ {c} : op'[d] = op[d] /\ req'[d] = req[d]
    BY <1>15 DEF DeleteRepaired, TypeOK, Leave
  <2>3. \A i \in Ids : InRemoval(i) => InRemoval(i)'
    BY <2>1, <2>2 DEF InRemoval, task
  <2>4. \A i \in Ids : Awaited(i) => Awaited(i)'
    BY <2>1 DEF Awaited, task
  <2> QED
    BY <2>1, <2>3, <2>4, TruthKept
<1>16. ASSUME NEW c \in Clients, ReadDone(c) PROVE TruthInv'
  <2>1. op[c] \in {"reconcile", "observe"} /\ UNCHANGED <<store, stat, kern, drifted, queueAll, queued, lost, task>>
    BY <1>16 DEF ReadDone, queueVars
  <2>2. \A d \in Clients \ {c} : op'[d] = op[d] /\ req'[d] = req[d]
    BY <1>16 DEF ReadDone, TypeOK, Leave
  <2>3. \A i \in Ids : InRemoval(i) => InRemoval(i)'
    BY <2>1, <2>2 DEF InRemoval, task
  <2>4. \A i \in Ids : Awaited(i) => Awaited(i)'
    BY <2>1 DEF Awaited, task
  <2> QED
    BY <2>1, <2>3, <2>4, TruthKept
<1>17. ASSUME NEW p \in Procs, NEW id \in Ids, TaskBegin(p, id) PROVE TruthInv'
  <2>1. UNCHANGED <<store, stat, kern, drifted, queueAll, queued, lost, cl>>
    BY <1>17 DEF TaskBegin, queueVars
  <2>2. ASSUME NEW q \in Procs, NEW i \in Ids, store[i] # None, tst[<<q, i>>] \in {"todo", "call"}
        PROVE  tst'[<<q, i>>] \in {"todo", "call"}
    BY <1>17, <2>2, TaskTypes, OwnTask DEF TaskBegin
  <2>3. ASSUME NEW i \in Ids, store[i] # None, Awaited(i) \/ InRemoval(i) PROVE Awaited(i)' \/ InRemoval(i)'
    BY <2>1, <2>2, <2>3 DEF Awaited, InRemoval, cl, Procs
  <2> QED
    BY <2>1, <2>3, TruthKept
<1>18. ASSUME NEW p \in Procs, NEW id \in Ids, TaskReadFails(p, id) PROVE TruthInv'
  <2>1. UNCHANGED <<store, stat, kern, drifted, queueAll, queued, cl>> /\ lost' = (lost \/ ~ Observing(p))
    BY <1>18 DEF TaskReadFails, queueVars
  <2>2. ASSUME NEW i \in Ids, store[i] # None, Awaited(i) \/ InRemoval(i) PROVE Awaited(i)' \/ InRemoval(i)'
    <3>1. CASE ~ Observing(p)
      BY <2>1, <3>1 DEF Awaited
    <3>2. CASE Observing(p)
      <4>1. \A q \in Procs, j \in Ids : q # p => tst'[<<q, j>>] = tst[<<q, j>>]
        BY <1>18, TaskTypes, OwnTask DEF TaskReadFails
      <4> QED
        BY <2>1, <2>2, <3>2, <4>1 DEF Observing, Awaited, InRemoval, cl, Procs
    <3> QED
      BY <3>1, <3>2
  <2> QED
    BY <2>1, <2>2, TruthKept
<1>19. ASSUME NEW p \in Procs, NEW id \in Ids, Reconciled(p, id) PROVE TruthInv'
  <2>1. tst[<<p, id>>] = "call" /\ targ[<<p, id>>] = store[id] /\ store[id] \in Record /\ store[id] # None
    BY <1>19, CallType DEF Reconciled, TaskInv, TaskAt
  <2> DEFINE s == Succeeded(IF store[id].en THEN "ready" ELSE "disabled", store[id])
             left == IF store[id].en THEN Applied(kern[id], store[id]) ELSE Removed(kern[id], store[id])
  <2>2. s \in Status
    BY <2>1, StatusTypes DEF Phases
  <2>3. Report(p, id, s) /\ kern' = [kern EXCEPT ![id] = left] /\ drifted' = drifted \ {id}
    BY <1>19, <2>1 DEF Reconciled
  <2>4. /\ s.phase = "ready" => store[id].en /\ left = {[key |-> store[id].key, gen |-> store[id].gen]}
                                 /\ s.observed = store[id].gen
        /\ s.phase = "disabled" => ~ store[id].en /\ left = {}
    BY RemovedAll DEF Succeeded, Applied
  <2> HIDE DEF s, left
  <2> QED
    BY <2>1, <2>2, <2>3, <2>4, TruthReport
<1>20. ASSUME NEW p \in Procs, NEW id \in Ids, ReconcileFails(p, id) PROVE TruthInv'
  <2>1. tst[<<p, id>>] = "call" /\ targ[<<p, id>>] = store[id] /\ store[id] \in Record /\ store[id] # None
    BY <1>20, CallType DEF ReconcileFails, TaskInv, TaskAt
  <2> DEFINE s == Failed(stat[id])
  <2>2. s \in Status /\ s.phase = "error"
    BY <2>1, StatusTypes DEF TypeOK, Failed
  <2>3. PICK left : kern' = [kern EXCEPT ![id] = left]
    BY <1>20 DEF ReconcileFails
  <2>4. Report(p, id, s) /\ drifted' = drifted \ {id}
    BY <1>20 DEF ReconcileFails
  <2> HIDE DEF s
  <2> QED
    BY <2>1, <2>2, <2>3, <2>4, TruthReport
<1>21. ASSUME NEW p \in Procs, NEW id \in Ids, ObservedHealthy(p, id) PROVE TruthInv'
  <2>1. tst[<<p, id>>] = "call" /\ targ[<<p, id>>] = store[id] /\ store[id] \in Record /\ store[id] # None
    BY <1>21, CallType DEF ObservedHealthy, TaskInv, TaskAt
  <2> DEFINE s == ObservedOk(stat[id], store[id])
  <2>2. s \in Status
    BY <2>1, StatusTypes DEF TypeOK
  <2>3. s.phase = ViewPhase(id) /\ (s.phase = "ready" => s.observed = stat[id].observed)
    BY DEF ObservedOk, ViewPhase, Observed, Unreported
  <2>4. Report(p, id, s) /\ UNCHANGED <<kern, drifted>> /\ Observing(p)
    BY <1>21, <2>1 DEF ObservedHealthy
  <2> HIDE DEF s
  <2> QED
    BY <2>1, <2>2, <2>3, <2>4, TruthObserved
<1>22. ASSUME NEW p \in Procs, NEW id \in Ids, ObservedDrift(p, id) PROVE TruthInv'
  <2>1. tst[<<p, id>>] = "call" /\ targ[<<p, id>>] = store[id] /\ store[id] \in Record /\ store[id] # None
    BY <1>22, CallType DEF ObservedDrift, TaskInv, TaskAt
  <2> DEFINE s == Failed(stat[id])
  <2>2. s \in Status /\ s.phase = "error"
    BY <2>1, StatusTypes DEF TypeOK, Failed
  <2>3. Report(p, id, s) /\ UNCHANGED <<kern, drifted>>
    BY <1>22 DEF ObservedDrift
  <2> HIDE DEF s
  <2> QED
    BY <2>1, <2>2, <2>3, TruthObserved
<1>23. ASSUME NEW p \in Procs, NEW id \in Ids, ObserveFails(p, id) PROVE TruthInv'
  <2>1. tst[<<p, id>>] = "call" /\ targ[<<p, id>>] = store[id] /\ store[id] \in Record /\ store[id] # None
    BY <1>23, CallType DEF ObserveFails, TaskInv, TaskAt
  <2> DEFINE s == Failed(stat[id])
  <2>2. s \in Status /\ s.phase = "error"
    BY <2>1, StatusTypes DEF TypeOK, Failed
  <2>3. Report(p, id, s) /\ UNCHANGED <<kern, drifted>>
    BY <1>23 DEF ObserveFails
  <2> HIDE DEF s
  <2> QED
    BY <2>1, <2>2, <2>3, TruthObserved
<1>24. ASSUME NEW p \in Procs, NEW id \in Ids, TaskPublish(p, id) PROVE TruthInv'
  <2>1. UNCHANGED <<store, stat, kern, drifted, queueAll, queued, lost, cl>>
    BY <1>24 DEF TaskPublish, queueVars
  <2>2. \A q \in Procs, i \in Ids : tst[<<q, i>>] \in {"todo", "call"} => tst'[<<q, i>>] = tst[<<q, i>>]
    BY <1>24, TaskTypes, OwnTask DEF TaskPublish
  <2>3. ASSUME NEW i \in Ids, Awaited(i) \/ InRemoval(i) PROVE Awaited(i)' \/ InRemoval(i)'
    BY <2>1, <2>2, <2>3 DEF Awaited, InRemoval, cl, Procs
  <2> QED
    BY <2>1, <2>3, TruthKept
<1>25. ASSUME Tick PROVE TruthInv'
  BY <1>25, TruthFrame DEF Tick, task, queueVars, cl, EnqueueAll, TakeQueue, Stored
<1>26. ASSUME ReceiveWake PROVE TruthInv'
  BY <1>26, TruthFrame DEF ReceiveWake, task, queueVars, cl, EnqueueAll, TakeQueue, Stored
<1>27. ASSUME ProcessQueue PROVE TruthInv'
  <2>1. UNCHANGED <<store, stat, kern, drifted, lost, cl>>
    BY <1>27 DEF ProcessQueue
  <2>2. ASSUME NEW q \in Procs, NEW i \in Ids
        PROVE  tst'[<<q, i>>] = IF q = Run /\ i \in (IF queueAll THEN Stored ELSE queued)
                                THEN "todo" ELSE tst[<<q, i>>]
    BY <1>27, StartedTodo DEF ProcessQueue
  <2>3. ASSUME NEW i \in Ids, store[i] # None, Awaited(i) \/ InRemoval(i) PROVE Awaited(i)' \/ InRemoval(i)'
    <3>1. Run \in Procs /\ i \in Stored
      BY <2>3 DEF Procs, Stored
    <3>2. CASE Awaited(i)
      BY <2>1, <2>2, <3>1, <3>2 DEF Awaited
    <3>3. CASE InRemoval(i)
      BY <2>1, <2>2, <3>3 DEF InRemoval, cl, Procs
    <3> QED
      BY <2>3, <3>2, <3>3
  <2> QED
    BY <2>1, <2>3, TruthKept
<1>28. ASSUME ProcessQueueFails PROVE TruthInv'
  BY <1>28, TruthFrame DEF ProcessQueueFails, task, queueVars, cl, EnqueueAll, TakeQueue, Stored
<1>29. ASSUME PassDone PROVE TruthInv'
  BY <1>29, TruthFrame DEF PassDone, task, queueVars, cl, EnqueueAll, TakeQueue, Stored
<1>30. ASSUME Debounce PROVE TruthInv'
  BY <1>30, TruthFrame DEF Debounce, task, queueVars, cl, EnqueueAll, TakeQueue, Stored
<1>31. ASSUME DebounceFails PROVE TruthInv'
  BY <1>31, TruthFrame DEF DebounceFails, task, queueVars, cl, EnqueueAll, TakeQueue, Stored
<1>32. ASSUME NEW id \in Ids, Drift(id) PROVE TruthInv'
  <2>1. UNCHANGED <<store, stat, queueAll, queued, lost, task, cl>> /\ drifted' = drifted \cup {id}
    BY <1>32 DEF Drift, queueVars
  <2> SUFFICES ASSUME NEW i \in Ids \ drifted' PROVE TruthAt(i)'
    BY DEF TruthInv, TruthAt
  <2>2. kern'[i] = kern[i]
    BY <1>32, <2>1 DEF Drift, TypeOK
  <2> QED
    BY <2>1, <2>2 DEF TruthInv, TruthAt, ViewPhase, Awaited, InRemoval, task, cl
<1>33. ASSUME Crash PROVE TruthInv'
  <2>1. queueAll' /\ store' = store /\ \A i \in Ids : stat'[i] = None
    BY <1>33 DEF Crash, EnqueueAll
  <2> QED
    BY <2>1 DEF TruthInv, TruthAt, ViewPhase, Unreported, Awaited
<1>34. CASE UNCHANGED vars
  BY <1>34, TruthFrame DEF vars, volatile, task, queueVars, cl
<1>35. ASSUME NEW c \in Clients, ReadRequest(c) PROVE TruthInv'
  BY <1>35, <1>6 DEF ReadRequest, Stored
<1>36. ASSUME NEW c \in Clients, ClientStep(c) PROVE TruthInv'
  BY <1>36, <1>7, <1>8, <1>9, <1>10, <1>11, <1>12, <1>13, <1>14, <1>15, <1>16 DEF ClientStep
<1>37. ASSUME NEW p \in Procs, NEW id \in Ids, TaskStep(p, id) PROVE TruthInv'
  BY <1>37, <1>19, <1>20, <1>21, <1>22, <1>23, <1>24 DEF TaskStep
<1>38. ASSUME RunLoop PROVE TruthInv'
  BY <1>38, <1>26, <1>27, <1>28, <1>29 DEF RunLoop
<1> QED
  BY <1>1, <1>2, <1>3, <1>4, <1>5, <1>17, <1>18, <1>25, <1>30, <1>31, <1>32, <1>33, <1>34,
     <1>35, <1>36, <1>37, <1>38 DEF Next, Mutation, MutationBegin


-----------------------------------------------------------------------------
(* Specification.                                                          *)

\* The daemon starts with no status, no event and a full pass queued (Run).
LEMMA InitS == Init => SInv
<1> SUFFICES ASSUME Init PROVE SInv
  OBVIOUS
<1>1. IInv
  BY InitInv
<1>2. LockInv
  BY DEF Init, VolatileInit, LockInv
<1>3. EventInv
  BY DEF Init, VolatileInit, EventInv, EventAt, Agrees
<1>4. PendingInv
  BY DEF Init, VolatileInit, PendingInv, Awaited
<1>5. WakeInv
  BY DEF Init, VolatileInit, WakeInv
<1>6. TruthInv
  BY DEF Init, VolatileInit, TruthInv, TruthAt
<1> QED
  BY <1>1, <1>2, <1>3, <1>4, <1>5, <1>6 DEF SInv

\* The gate's invariant and the five of this module are inductive together.
LEMMA InductiveS == SInv /\ [Next]_vars => SInv'
BY InductiveInv, LockStep, EventStep, PendingStep, WakeStep, TruthStep DEF SInv, IInv

\* Without a writer no mutation is in progress.
LEMMA NoRemoval ==
  ASSUME IInv, NoWriter
  PROVE  \A id \in Ids : ~ InRemoval(id)
<1>1. \A c \in Clients : op[c] \notin Mutating
  BY ControlPlaneAssumption DEF IInv, GateInv, NoWriter, Procs
<1> QED
  BY <1>1 DEF InRemoval, Mutating

\* A tunnel nobody holds has nothing left to publish.
LEMMA QuietEvents ==
  ASSUME SInv, NEW id \in Ids, Quiet(id)
  PROVE  Agrees(id)
<1>1. \A p \in Procs : tst[<<p, id>>] # "publish"
  BY ControlPlaneAssumption DEF SInv, LockInv, Quiet, Procs
<1> QED
  BY <1>1 DEF SInv, EventInv, EventAt

\* What is awaited is what the property calls on its way, or was given up.
LEMMA AwaitedThen ==
  ASSUME NEW id \in Ids, Awaited(id)
  PROVE  WillReconcile(id) \/ lost
BY DEF Awaited, WillReconcile

\* A tunnel nobody works on is not in the middle of a removal.
LEMMA StatusTruthFollows == SInv => StatusTruth
<1> SUFFICES ASSUME SInv, NEW id \in Stored, Quiet(id), id \notin drifted
             PROVE  /\ ViewPhase(id) = "ready" =>
                         /\ store[id].en
                         /\ kern[id] = {[key |-> store[id].key, gen |-> store[id].gen]}
                         /\ stat[id].observed = store[id].gen
                    /\ ViewPhase(id) = "disabled" /\ ~ WillReconcile(id) /\ ~ lost =>
                         ~ store[id].en /\ kern[id] = {}
  BY DEF StatusTruth
<1>1. id \in Ids /\ store[id] # None
  BY DEF Stored
<1>2. ~ InRemoval(id)
  BY <1>1, NoRemoval DEF SInv, Quiet
<1>3. Awaited(id) => WillReconcile(id) \/ lost
  BY <1>1, AwaitedThen
<1> QED
  BY <1>1, <1>2, <1>3 DEF SInv, TruthInv, TruthAt

\* A pending tunnel is awaited.
LEMMA NoLostRequestFollows == SInv => NoLostRequest
<1> SUFFICES ASSUME SInv PROVE NoLostRequest
  OBVIOUS
<1>1. ASSUME NEW id \in Stored, ViewPhase(id) = "pending" PROVE WillReconcile(id) \/ lost
  BY <1>1, AwaitedThen DEF SInv, PendingInv, Stored
<1>2. queueAll \/ queued # {} => wake \/ run = "woken"
  BY DEF SInv, WakeInv
<1> QED
  BY <1>1, <1>2 DEF NoLostRequest

\* A quiet tunnel owes no event.
LEMMA EventsAgreeFollows == SInv => EventsAgree
BY QuietEvents DEF EventsAgree, Agrees

\* For any number of tunnels, requests, failures, outside changes and crashes:
\* a tunnel shown as ready has exactly the objects of its current generation,
\* and one shown as disabled has none (setReconcileResult, MarkPending, Status).
THEOREM StatusTruthCorrect == Spec => []StatusTruth
BY InitS, InductiveS, StatusTruthFollows, PTL DEF Spec

\* A pending tunnel has a reconcile coming and a filled queue has a wake-up
\* coming (Reconciler.Enqueue, processQueue, the one-slot wake channel).
THEOREM NoLostRequestCorrect == Spec => []NoLostRequest
BY InitS, InductiveS, NoLostRequestFollows, PTL DEF Spec

\* The last event of a tunnel nobody is working on is its status: the tunnel's
\* mutex covers setReconcileResult and publishStatus together.
THEOREM EventsAgreeCorrect == Spec => []EventsAgree
BY InitS, InductiveS, EventsAgreeFollows, PTL DEF Spec
=============================================================================
