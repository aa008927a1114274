---------------------------- MODULE ControlPlane ----------------------------
(***************************************************************************)
(* The control plane of the thd daemon: internal/core/manager.go and       *)
(* internal/core/reconciler.go.  API clients mutate the stored tunnel      *)
(* records through the Manager; the Reconciler brings the kernel objects   *)
(* of each tunnel in line with its record, from a deduplicating queue, a   *)
(* ticker and debounced backend events, and reports a status per tunnel.   *)
(*                                                                         *)
(*  - mutations hold the write side of Manager.mutationMu ("the gate"),    *)
(*    reconciles, observations and the queue pass hold the read side;      *)
(*  - every backend call on one tunnel holds that tunnel's mutex;          *)
(*  - an operation that makes no backend call runs entirely under the      *)
(*    write side, so it is one action; one that does is split at the call. *)
(*                                                                         *)
(* Abstracted: a record is its generation, the key under which its kernel  *)
(* objects can be found again (route table, private-key fingerprint, IKE   *)
(* names) and its enabled flag.  The store is atomic here; FileStore.tla   *)
(* shows that internal/store implements such a store.                      *)
(***************************************************************************)
EXTENDS Naturals, FiniteSets

CONSTANTS
  Ids,          \* tunnel ids
  Keys,         \* ownership keys of kernel objects
  Clients,      \* concurrent API requests
  Run,          \* the Reconciler.Run goroutine
  KindOf,       \* KindOf[id]: how updates of that tunnel's key are treated
  MaxRecords,   \* model.MaxTunnelRecords
  MaxGen,       \* bound: generations per record
  MaxFault,     \* bound: failing backend or store calls
  MaxDrift,     \* bound: external changes of kernel objects
  MaxCrash,     \* bound: daemon crashes
  None          \* absent record, status, event or lock owner

Procs == Clients \cup {Run}
Kinds == {"plain", "routed", "ike"}
Record == [gen : Nat \ {0}, key : Keys, en : BOOLEAN]
Phases == {"pending", "ready", "disabled", "error"}
Status == [phase : Phases, observed : Nat]
Event == [phase : Phases \cup {"deleted"}, gen : Nat]

ASSUME ControlPlaneAssumption ==
  /\ Run \notin Clients
  /\ KindOf \in [Ids -> Kinds]
  /\ MaxRecords \in Nat /\ MaxGen \in Nat
  /\ MaxFault \in Nat /\ MaxDrift \in Nat /\ MaxCrash \in Nat
  /\ None \notin Procs \cup Record \cup Status \cup Event

VARIABLES
  store,     \* store[id]: the stored record, or None (survives a crash)
  used,      \* ids ever given out by model.NewID (survives a crash)
  kern,      \* kern[id]: kernel objects of the tunnel (survives a crash)
  drifted,   \* ids whose kernel objects were changed from outside since the
             \* last completed backend call (history, for the properties)
  stat,      \* Reconciler.statuses
  evt,       \* the last event published for each tunnel
  queueAll, queued, wake,   \* the Reconciler's queue and its wake channel
  bevents,   \* debounced backend events, by the tunnel they match
  writer, readers,   \* Manager.mutationMu ("the gate")
  lock,      \* Reconciler.locks: the holder of each tunnel's mutex
  op, req,   \* op[c]: where API request c is; req[c]: what it works on
  run,       \* where Reconciler.Run is: "idle", "woken" or "work"
  tst, targ, \* tst[<<p, id>>]: where process p's reconcile or observe of id
             \* is; targ: the record, then the event, it holds in a local
  lost,      \* TRUE after a reconcile given up because the store could not be
             \* read, until the next EnqueueAll (history, for the properties)
  faults, drifts, crashes   \* what is left of the bounds

gate == <<writer, readers>>
cl == <<op, req>>
task == <<tst, targ>>
budget == <<faults, drifts, crashes>>
volatile == <<stat, evt, queueAll, queued, wake, bevents, gate, lock, cl, run, task, lost>>
queueVars == <<queueAll, queued, wake>>
vars == <<store, used, kern, drifted, volatile, budget>>

-----------------------------------------------------------------------------
(* Data.                                                                   *)

\* A kernel object carries the generation that installed it; 0 is a partial one.
Object == [key : Keys, gen : Nat]

Request == [id : Ids, rec : Record, next : Record \cup {None}]

Stored == {id \in Ids : store[id] # None}

\* Fault: a moved route table is not recognised as a change of ownership.
RequiresCleanupIKEOnly(id, cur, next) == KindOf[id] = "ike"

\* requiresCleanupBeforeUpdate: the new record cannot identify the old objects.
RequiresCleanup(id, cur, next) ==
  \/ KindOf[id] = "ike"
  \/ KindOf[id] = "routed" /\ cur.key # next.key

\* validateStableOwnership: other kinds may not change the key at all.
StableOwnership(id, cur, next) == KindOf[id] = "plain" => cur.key = next.key

\* Fault: the caller's record is taken as it is, without the next generation.
SuccessorUnprepared(cur, key, en) == [gen |-> 0, key |-> key, en |-> en]

\* PrepareUpdate: the caller's desired state under the next generation.
Successor(cur, key, en) == [gen |-> cur.gen + 1, key |-> key, en |-> en]

\* Backend.Remove finds the objects by what the record it is given says.
Removed(objs, rec) == {o \in objs : o.key # rec.key}
Applied(objs, rec) == Removed(objs, rec) \cup {[key |-> rec.key, gen |-> rec.gen]}
Partial(objs, rec) == Removed(objs, rec) \cup {[key |-> rec.key, gen |-> 0]}
\* What a backend call that fails, or is cut short, may leave behind.
Remains(objs, rec) == {objs, Removed(objs, rec), Partial(objs, rec)}

\* The status setReconcileResult stores, MarkPending's, setObservationResult's.
Succeeded(phase, rec) == [phase |-> phase, observed |-> rec.gen]
Observed(s) == IF s = None THEN 0 ELSE s.observed
Failed(s) == [phase |-> "error", observed |-> Observed(s)]
Pending(s) == [phase |-> "pending", observed |-> Observed(s)]
Unreported(rec) == IF rec.en THEN "pending" ELSE "disabled"
ObservedOk(s, rec) ==
  [phase |-> IF s = None THEN Unreported(rec) ELSE s.phase, observed |-> Observed(s)]

\* Reconciler.Status: the phase an API reader sees.
ViewPhase(id) == IF stat[id] = None THEN Unreported(store[id]) ELSE stat[id].phase

EventOf(s, rec) == [phase |-> s.phase, gen |-> rec.gen]

-----------------------------------------------------------------------------
(* Queue and gate.                                                         *)

Enqueue(id) ==
  /\ queued' = IF queueAll THEN queued ELSE queued \cup {id}
  /\ wake' = TRUE
  /\ UNCHANGED queueAll

EnqueueAll ==
  /\ queueAll' = TRUE /\ queued' = {} /\ wake' = TRUE
  /\ lost' = FALSE

MarkPending(id, rec) ==
  /\ stat' = [stat EXCEPT ![id] = Pending(@)]
  /\ evt' = [evt EXCEPT ![id] = EventOf(Pending(stat[id]), rec)]

\* setReconcileResult together with publishStatus, under the write gate.
SetResult(id, s, rec) ==
  /\ stat' = [stat EXCEPT ![id] = s]
  /\ evt' = [evt EXCEPT ![id] = EventOf(s, rec)]

NoWriter == writer = None
GateFree == NoWriter /\ readers = {}
WriteGate(c) == writer' = c /\ UNCHANGED readers
WriteRelease == writer' = None /\ UNCHANGED readers
ReadGate(p) == readers' = readers \cup {p} /\ UNCHANGED writer
ReadRelease(p) == readers' = readers \ {p} /\ UNCHANGED writer

Leave(c) == op' = [op EXCEPT ![c] = "idle"] /\ req' = [req EXCEPT ![c] = None]

StartTasks(p, ids) ==
  /\ tst' = [q \in Procs \X Ids |->
                IF q[1] = p /\ q[2] \in ids THEN "todo" ELSE tst[q]]
  /\ UNCHANGED targ

Fault == faults > 0 /\ faults' = faults - 1 /\ UNCHANGED <<drifts, crashes>>

-----------------------------------------------------------------------------
(* Mutations that make no backend call: one action under the write gate.   *)

Create(id, key, en) ==
  LET rec == [gen |-> 1, key |-> key, en |-> en] IN
  /\ GateFree
  /\ id \notin used
  /\ Cardinality(Stored) < MaxRecords
  /\ used' = used \cup {id}
  /\ store' = [store EXCEPT ![id] = rec]
  /\ MarkPending(id, rec)
  /\ Enqueue(id)
  /\ UNCHANGED <<kern, drifted, bevents, gate, lock, cl, run, task, lost, budget>>

\* Faults: the old status is left standing; a disabled tunnel is not enqueued.
CommitSilently(id, next) ==
  /\ store' = [store EXCEPT ![id] = next]
  /\ Enqueue(id)
  /\ UNCHANGED <<stat, evt>>

CommitIfEnabled(id, next) ==
  /\ store' = [store EXCEPT ![id] = next]
  /\ MarkPending(id, next)
  /\ IF next.en THEN Enqueue(id) ELSE UNCHANGED queueVars

Commit(id, next) ==
  /\ store' = [store EXCEPT ![id] = next]
  /\ MarkPending(id, next)
  /\ Enqueue(id)

UpdateInPlace(id, key, en) ==
  LET next == Successor(store[id], key, en) IN
  /\ GateFree
  /\ store[id] # None
  /\ store[id].gen < MaxGen
  /\ StableOwnership(id, store[id], next)
  /\ ~ RequiresCleanup(id, store[id], next)
  /\ Commit(id, next)
  /\ UNCHANGED <<used, kern, drifted, bevents, gate, lock, cl, run, task, lost, budget>>

SetEnabled(id, en) ==
  /\ GateFree
  /\ store[id] # None
  /\ store[id].gen < MaxGen
  /\ Commit(id, Successor(store[id], store[id].key, en))
  /\ UNCHANGED <<used, kern, drifted, bevents, gate, lock, cl, run, task, lost, budget>>

-----------------------------------------------------------------------------
(* Manager.Update of a tunnel whose old objects the new record cannot      *)
(* identify: remove them first, then commit the new generation.            *)

UpdateBegin(c, id, key, en) ==
  LET next == Successor(store[id], key, en) IN
  /\ op[c] = "idle"
  /\ GateFree /\ WriteGate(c)
  /\ store[id] # None
  /\ store[id].gen < MaxGen
  /\ StableOwnership(id, store[id], next)
  /\ RequiresCleanup(id, store[id], next)
  /\ lock[id] = None
  /\ lock' = [lock EXCEPT ![id] = c]
  /\ op' = [op EXCEPT ![c] = "updateRemove"]
  /\ req' = [req EXCEPT ![c] = [id |-> id, rec |-> store[id], next |-> next]]
  /\ UNCHANGED <<store, used, kern, drifted, stat, evt, queueVars, bevents, run, task, lost, budget>>

UpdateRemoved(c) ==
  LET id == req[c].id  rec == req[c].rec IN
  /\ op[c] = "updateRemove"
  /\ kern' = [kern EXCEPT ![id] = Removed(@, rec)]
  /\ drifted' = drifted \ {id}
  /\ SetResult(id, Succeeded("disabled", rec), rec)
  /\ lock' = [lock EXCEPT ![id] = None]
  /\ op' = [op EXCEPT ![c] = "updateCommit"] /\ UNCHANGED req
  /\ UNCHANGED <<store, used, queueVars, bevents, gate, run, task, lost, budget>>

UpdateRemoveFails(c) ==
  LET id == req[c].id  rec == req[c].rec IN
  /\ op[c] = "updateRemove"
  /\ Fault
  /\ \E left \in Remains(kern[id], rec) : kern' = [kern EXCEPT ![id] = left]
  /\ drifted' = drifted \ {id}
  /\ SetResult(id, Failed(stat[id]), rec)
  /\ lock' = [lock EXCEPT ![id] = None]
  /\ Leave(c)
  /\ WriteRelease
  /\ UNCHANGED <<store, used, queueVars, bevents, run, task, lost>>

UpdateCommit(c) ==
  /\ op[c] = "updateCommit"
  /\ Commit(req[c].id, req[c].next)
  /\ Leave(c)
  /\ WriteRelease
  /\ UNCHANGED <<used, kern, drifted, bevents, lock, run, task, lost, budget>>

UpdateCommitFails(c) ==
  /\ op[c] = "updateCommit"
  /\ Fault
  /\ Enqueue(req[c].id)
  /\ Leave(c)
  /\ WriteRelease
  /\ UNCHANGED <<store, used, kern, drifted, stat, evt, bevents, lock, run, task, lost>>

-----------------------------------------------------------------------------
(* Manager.Delete: kernel objects first, then the record.                  *)

DeleteBegin(c, id) ==
  /\ op[c] = "idle"
  /\ GateFree /\ WriteGate(c)
  /\ store[id] # None
  /\ lock[id] = None
  /\ lock' = [lock EXCEPT ![id] = c]
  /\ op' = [op EXCEPT ![c] = "deleteRemove"]
  /\ req' = [req EXCEPT ![c] = [id |-> id, rec |-> store[id], next |-> None]]
  /\ UNCHANGED <<store, used, kern, drifted, stat, evt, queueVars, bevents, run, task, lost, budget>>

DeleteRemoved(c) ==
  LET id == req[c].id  rec == req[c].rec IN
  /\ op[c] = "deleteRemove"
  /\ kern' = [kern EXCEPT ![id] = Removed(@, rec)]
  /\ drifted' = drifted \ {id}
  /\ SetResult(id, Succeeded("disabled", rec), rec)
  /\ op' = [op EXCEPT ![c] = "deleteCommit"] /\ UNCHANGED req
  /\ UNCHANGED <<store, used, queueVars, bevents, gate, lock, run, task, lost, budget>>

DeleteRemoveFails(c) ==
  LET id == req[c].id  rec == req[c].rec IN
  /\ op[c] = "deleteRemove"
  /\ Fault
  /\ \E left \in Remains(kern[id], rec) : kern' = [kern EXCEPT ![id] = left]
  /\ drifted' = drifted \ {id}
  /\ SetResult(id, Failed(stat[id]), rec)
  /\ lock' = [lock EXCEPT ![id] = None]
  /\ Leave(c)
  /\ WriteRelease
  /\ UNCHANGED <<store, used, queueVars, bevents, run, task, lost>>

\* Store deletion, then Forget and the EventDeleted.
DeleteCommit(c) ==
  LET id == req[c].id IN
  /\ op[c] = "deleteCommit"
  /\ store' = [store EXCEPT ![id] = None]
  /\ stat' = [stat EXCEPT ![id] = None]
  /\ evt' = [evt EXCEPT ![id] = [phase |-> "deleted", gen |-> req[c].rec.gen]]
  /\ lock' = [lock EXCEPT ![id] = None]
  /\ Leave(c)
  /\ WriteRelease
  /\ UNCHANGED <<used, kern, drifted, queueVars, bevents, run, task, lost, budget>>

\* Fault: the repair starts while Delete still holds the tunnel's mutex.
DeleteCommitFailsLocked(c) ==
  /\ op[c] = "deleteCommit"
  /\ Fault
  /\ op' = [op EXCEPT ![c] = "deleteRepair"] /\ UNCHANGED req
  /\ StartTasks(c, {req[c].id})
  /\ UNCHANGED <<store, used, kern, drifted, stat, evt, queueVars, bevents, gate, lock, run, lost>>

\* The record stays authoritative: it is reconciled again at once, in a
\* critical section of its own, still under the write gate.
DeleteCommitFails(c) ==
  LET id == req[c].id IN
  /\ op[c] = "deleteCommit"
  /\ Fault
  /\ lock' = [lock EXCEPT ![id] = None]
  /\ op' = [op EXCEPT ![c] = "deleteRepair"] /\ UNCHANGED req
  /\ StartTasks(c, {id})
  /\ UNCHANGED <<store, used, kern, drifted, stat, evt, queueVars, bevents, gate, run, lost>>

DeleteRepaired(c) ==
  /\ op[c] = "deleteRepair"
  /\ tst[<<c, req[c].id>>] = "none"
  /\ Leave(c)
  /\ WriteRelease
  /\ UNCHANGED <<store, used, kern, drifted, stat, evt, queueVars, bevents, lock, run, task, lost, budget>>

-----------------------------------------------------------------------------
(* Manager.Reconcile, ReconcileAll, Observe, ObserveAll: read gate.        *)

ReadBegin(c, kind, ids) ==
  /\ op[c] = "idle"
  /\ NoWriter /\ ReadGate(c)
  /\ op' = [op EXCEPT ![c] = kind] /\ UNCHANGED req
  /\ StartTasks(c, ids)
  /\ UNCHANGED <<store, used, kern, drifted, stat, evt, queueVars, bevents, lock, run, lost, budget>>

ReadDone(c) ==
  /\ op[c] \in {"reconcile", "observe"}
  /\ \A id \in Ids : tst[<<c, id>>] = "none"
  /\ Leave(c)
  /\ ReadRelease(c)
  /\ UNCHANGED <<store, used, kern, drifted, stat, evt, queueVars, bevents, lock, run, task, lost, budget>>

-----------------------------------------------------------------------------
(* One reconcile or observe of one tunnel: reconcileRecord and Observe.    *)

Observing(p) == p # Run /\ op[p] = "observe"

\* Lock the tunnel and read its record again; it may be gone.
TaskBegin(p, id) ==
  /\ tst[<<p, id>>] = "todo"
  /\ lock[id] = None
  /\ IF store[id] = None
       THEN tst' = [tst EXCEPT ![<<p, id>>] = "none"] /\ UNCHANGED <<targ, lock>>
       ELSE /\ tst' = [tst EXCEPT ![<<p, id>>] = "call"]
            /\ targ' = [targ EXCEPT ![<<p, id>>] = store[id]]
            /\ lock' = [lock EXCEPT ![id] = p]
  /\ UNCHANGED <<store, used, kern, drifted, stat, evt, queueVars, bevents, gate, cl, run, lost, budget>>

\* The record cannot be read: the reconcile is given up without a status.
TaskReadFails(p, id) ==
  /\ tst[<<p, id>>] = "todo"
  /\ Fault
  /\ tst' = [tst EXCEPT ![<<p, id>>] = "none"] /\ UNCHANGED targ
  /\ lost' = (lost \/ ~ Observing(p))
  /\ UNCHANGED <<store, used, kern, drifted, stat, evt, queueVars, bevents, gate, lock, cl, run>>

\* Fault: the tunnel's mutex is released before the event is published.
ReportUnlocked(p, id, s) ==
  /\ stat' = [stat EXCEPT ![id] = s]
  /\ tst' = [tst EXCEPT ![<<p, id>>] = "publish"]
  /\ targ' = [targ EXCEPT ![<<p, id>>] = EventOf(s, @)]
  /\ lock' = [lock EXCEPT ![id] = None]
  /\ UNCHANGED <<store, used, evt, queueVars, bevents, gate, cl, run, lost>>

\* The backend call has returned and its status is stored; not yet published.
Report(p, id, s) ==
  /\ stat' = [stat EXCEPT ![id] = s]
  /\ tst' = [tst EXCEPT ![<<p, id>>] = "publish"]
  /\ targ' = [targ EXCEPT ![<<p, id>>] = EventOf(s, @)]
  /\ UNCHANGED <<store, used, evt, queueVars, bevents, gate, lock, cl, run, lost>>

Reconciled(p, id) ==
  LET rec == targ[<<p, id>>] IN
  /\ tst[<<p, id>>] = "call" /\ ~ Observing(p)
  /\ kern' = [kern EXCEPT ![id] = IF rec.en THEN Applied(@, rec) ELSE Removed(@, rec)]
  /\ drifted' = drifted \ {id}
  /\ Report(p, id, Succeeded(IF rec.en THEN "ready" ELSE "disabled", rec))
  /\ UNCHANGED budget

ReconcileFails(p, id) ==
  LET rec == targ[<<p, id>>] IN
  /\ tst[<<p, id>>] = "call" /\ ~ Observing(p)
  /\ Fault
  /\ \E left \in Remains(kern[id], rec) : kern' = [kern EXCEPT ![id] = left]
  /\ drifted' = drifted \ {id}
  /\ Report(p, id, Failed(stat[id]))

\* An enabled tunnel whose interface is missing (or, half installed, down) is
\* drift; a successful observation never clears an error.
ObservedHealthy(p, id) ==
  LET rec == targ[<<p, id>>] IN
  /\ tst[<<p, id>>] = "call" /\ Observing(p)
  /\ rec.en => kern[id] # {}
  /\ Report(p, id, ObservedOk(stat[id], rec))
  /\ UNCHANGED <<kern, drifted, budget>>

ObservedDrift(p, id) ==
  LET rec == targ[<<p, id>>] IN
  /\ tst[<<p, id>>] = "call" /\ Observing(p)
  /\ rec.en /\ \A o \in kern[id] : o.gen = 0
  /\ Report(p, id, Failed(stat[id]))
  /\ UNCHANGED <<kern, drifted, budget>>

ObserveFails(p, id) ==
  /\ tst[<<p, id>>] = "call" /\ Observing(p)
  /\ Fault
  /\ Report(p, id, Failed(stat[id]))
  /\ UNCHANGED <<kern, drifted>>

TaskPublish(p, id) ==
  /\ tst[<<p, id>>] = "publish"
  /\ evt' = [evt EXCEPT ![id] = targ[<<p, id>>]]
  /\ tst' = [tst EXCEPT ![<<p, id>>] = "none"]
  /\ targ' = [targ EXCEPT ![<<p, id>>] = None]
  /\ lock' = [lock EXCEPT ![id] = None]
  /\ UNCHANGED <<store, used, kern, drifted, stat, queueVars, bevents, gate, cl, run, lost, budget>>

-----------------------------------------------------------------------------
(* Reconciler.Run.                                                         *)

\* Fault: the ticker wakes the loop without asking for a full pass.
TickEmpty ==
  /\ run = "idle"
  /\ wake' = TRUE
  /\ UNCHANGED <<store, used, kern, drifted, stat, evt, queueAll, queued, bevents, gate, lock, cl, run, task, lost, budget>>

Tick ==
  /\ run = "idle"
  /\ EnqueueAll
  /\ UNCHANGED <<store, used, kern, drifted, stat, evt, bevents, gate, lock, cl, run, task, budget>>

ReceiveWake ==
  /\ run = "idle" /\ wake
  /\ wake' = FALSE
  /\ run' = "woken"
  /\ UNCHANGED <<store, used, kern, drifted, stat, evt, queueAll, queued, bevents, gate, lock, cl, task, lost, budget>>

TakeQueue ==
  /\ run = "woken" /\ NoWriter
  /\ queueAll' = FALSE /\ queued' = {} /\ UNCHANGED wake

ProcessQueue ==
  /\ TakeQueue
  /\ StartTasks(Run, IF queueAll THEN Stored ELSE queued)
  /\ ReadGate(Run)
  /\ run' = "work"
  /\ UNCHANGED <<store, used, kern, drifted, stat, evt, bevents, lock, cl, lost, budget>>

\* ReconcileAll's List fails: the request for a full pass is consumed.
ProcessQueueFails ==
  /\ TakeQueue /\ queueAll
  /\ Fault
  /\ run' = "idle"
  /\ lost' = TRUE
  /\ UNCHANGED <<store, used, kern, drifted, stat, evt, bevents, gate, lock, cl, task>>

PassDone ==
  /\ run = "work"
  /\ \A id \in Ids : tst[<<Run, id>>] = "none"
  /\ ReadRelease(Run)
  /\ run' = "idle"
  /\ UNCHANGED <<store, used, kern, drifted, stat, evt, queueVars, bevents, lock, cl, task, lost, budget>>

\* The debounce timer fires: matching records are queued, under the read gate.
Debounce ==
  /\ run = "idle" /\ NoWriter
  /\ bevents # {}
  /\ queued' = IF queueAll THEN queued ELSE queued \cup (bevents \cap Stored)
  /\ wake' = (wake \/ bevents \cap Stored # {})
  /\ bevents' = {}
  /\ UNCHANGED <<store, used, kern, drifted, stat, evt, queueAll, gate, lock, cl, run, task, lost, budget>>

\* List fails: everything is queued instead.
DebounceFails ==
  /\ run = "idle" /\ NoWriter
  /\ bevents # {}
  /\ Fault
  /\ EnqueueAll
  /\ bevents' = {}
  /\ UNCHANGED <<store, used, kern, drifted, stat, evt, gate, lock, cl, run, task>>

-----------------------------------------------------------------------------
(* Environment: kernel objects lost to an outside change, which a watcher  *)
(* may or may not report, and a crash of the daemon in any state.          *)

Drift(id) ==
  /\ drifts > 0
  /\ kern[id] # {}
  /\ drifts' = drifts - 1 /\ UNCHANGED <<faults, crashes>>
  /\ kern' = [kern EXCEPT ![id] = {}]
  /\ drifted' = drifted \cup {id}
  /\ bevents' \in {bevents, bevents \cup {id}}
  /\ UNCHANGED <<store, used, stat, evt, queueVars, gate, lock, cl, run, task, lost>>

\* The records a backend call is running for, by tunnel.
InFlight(id) ==
  {req[c].rec : c \in {d \in Clients : op[d] \in {"updateRemove", "deleteRemove"} /\ req[d].id = id}}
    \cup {targ[<<p, id>>] : p \in {q \in Procs : tst[<<q, id>>] = "call" /\ ~ Observing(q)}}

VolatileInit ==
  /\ stat = [id \in Ids |-> None]
  /\ evt = [id \in Ids |-> None]
  /\ queueAll = TRUE /\ queued = {} /\ wake = TRUE    \* Run starts with EnqueueAll
  /\ bevents = {}
  /\ writer = None /\ readers = {}
  /\ lock = [id \in Ids |-> None]
  /\ op = [c \in Clients |-> "idle"]
  /\ req = [c \in Clients |-> None]
  /\ run = "idle"
  /\ tst = [q \in Procs \X Ids |-> "none"]
  /\ targ = [q \in Procs \X Ids |-> None]
  /\ lost = FALSE

\* What a crash may leave of a tunnel's kernel objects.
CrashRemains(id) == {kern[id]} \cup UNION {Remains(kern[id], rec) : rec \in InFlight(id)}

Crash ==
  /\ crashes > 0
  /\ crashes' = crashes - 1 /\ UNCHANGED <<faults, drifts>>
  /\ kern' \in {k \in [Ids -> UNION {CrashRemains(id) : id \in Ids}] :
                  \A id \in Ids : k[id] \in CrashRemains(id)}
  /\ stat' = [id \in Ids |-> None]
  /\ evt' = [id \in Ids |-> None]
  /\ EnqueueAll
  /\ bevents' = {}
  /\ writer' = None /\ readers' = {}
  /\ lock' = [id \in Ids |-> None]
  /\ op' = [c \in Clients |-> "idle"]
  /\ req' = [c \in Clients |-> None]
  /\ run' = "idle"
  /\ tst' = [q \in Procs \X Ids |-> "none"]
  /\ targ' = [q \in Procs \X Ids |-> None]
  /\ UNCHANGED <<store, used, drifted>>

-----------------------------------------------------------------------------
Init ==
  /\ store = [id \in Ids |-> None]
  /\ used = {}
  /\ kern = [id \in Ids |-> {}]
  /\ drifted = {}
  /\ VolatileInit
  /\ faults = MaxFault /\ drifts = MaxDrift /\ crashes = MaxCrash

Mutation(id, key, en) ==
  \/ Create(id, key, en)
  \/ UpdateInPlace(id, key, en)

MutationBegin(c, id) ==
  \/ \E key \in Keys, en \in BOOLEAN : UpdateBegin(c, id, key, en)
  \/ DeleteBegin(c, id)

ReadRequest(c) ==
  \E kind \in {"reconcile", "observe"}, ids \in {{id} : id \in Stored} \cup {Stored} :
    ReadBegin(c, kind, ids)

\* The rest of a request that has begun.
ClientStep(c) ==
  \/ UpdateRemoved(c) \/ UpdateRemoveFails(c)
  \/ UpdateCommit(c) \/ UpdateCommitFails(c)
  \/ DeleteRemoved(c) \/ DeleteRemoveFails(c)
  \/ DeleteCommit(c) \/ DeleteCommitFails(c) \/ DeleteRepaired(c)
  \/ ReadDone(c)

TaskStep(p, id) ==
  \/ Reconciled(p, id) \/ ReconcileFails(p, id)
  \/ ObservedHealthy(p, id) \/ ObservedDrift(p, id) \/ ObserveFails(p, id)
  \/ TaskPublish(p, id)

RunLoop == ReceiveWake \/ ProcessQueue \/ ProcessQueueFails \/ PassDone

Next ==
  \/ \E id \in Ids, key \in Keys, en \in BOOLEAN : Mutation(id, key, en)
  \/ \E id \in Ids, en \in BOOLEAN : SetEnabled(id, en)
  \/ \E c \in Clients, id \in Ids : MutationBegin(c, id)
  \/ \E c \in Clients : ReadRequest(c) \/ ClientStep(c)
  \/ \E p \in Procs, id \in Ids : TaskBegin(p, id) \/ TaskReadFails(p, id) \/ TaskStep(p, id)
  \/ Tick \/ RunLoop \/ Debounce \/ DebounceFails
  \/ \E id \in Ids : Drift(id)
  \/ Crash

Spec == Init /\ [][Next]_vars

(***************************************************************************)
(* Fairness.  Backend calls return (every backend uses a request timeout), *)
(* so requests and tasks that began make progress; a sync.Mutex hands the  *)
(* lock over to a waiter that has starved for a millisecond, so a task     *)
(* cannot be locked out forever; and Go's select picks a ready case at     *)
(* random, so the ticker is served however often the queue wakes.          *)
(* Clients are not obliged to start requests.                              *)
(***************************************************************************)
Fairness ==
  /\ WF_vars(RunLoop)
  /\ SF_vars(Tick)
  /\ \A c \in Clients : WF_vars(ClientStep(c))
  /\ \A p \in Procs, id \in Ids : SF_vars(TaskBegin(p, id)) /\ WF_vars(TaskStep(p, id))

FairSpec == Spec /\ Fairness

-----------------------------------------------------------------------------
(* Type invariant.                                                         *)

TypeOK ==
  /\ store \in [Ids -> Record \cup {None}]
  /\ used \subseteq Ids
  /\ kern \in [Ids -> SUBSET Object]
  /\ drifted \subseteq Ids
  /\ stat \in [Ids -> Status \cup {None}]
  /\ evt \in [Ids -> Event \cup {None}]
  /\ queueAll \in BOOLEAN /\ queued \subseteq Ids /\ wake \in BOOLEAN
  /\ bevents \subseteq Ids
  /\ writer \in Clients \cup {None} /\ readers \subseteq Procs
  /\ lock \in [Ids -> Procs \cup {None}]
  /\ op \in [Clients -> {"idle", "updateRemove", "updateCommit", "deleteRemove",
                         "deleteCommit", "deleteRepair", "reconcile", "observe"}]
  /\ req \in [Clients -> Request \cup {None}]
  /\ run \in {"idle", "woken", "work"}
  /\ tst \in [Procs \X Ids -> {"none", "todo", "call", "publish"}]
  /\ targ \in [Procs \X Ids -> Record \cup Event \cup {None}]
  /\ lost \in BOOLEAN
  /\ faults \in Nat /\ drifts \in Nat /\ crashes \in Nat

-----------------------------------------------------------------------------
(* Safety.                                                                 *)

\* Somebody is going to reconcile the tunnel without waiting for the ticker.
WillReconcile(id) == queueAll \/ id \in queued \/ tst[<<Run, id>>] # "none"

\* No tunnel is in the middle of a backend call and no mutation is running.
Quiet(id) == NoWriter /\ lock[id] = None

\* TH never leaves a kernel object behind that no stored record can identify:
\* updateLocked removes what the new generation could not find again before it
\* commits it, and Delete removes the objects before the record; a crash, a
\* failing call or a reconcile in between must not bring one back.
NoOrphans ==
  \A id \in Ids : \A o \in kern[id] : store[id] # None /\ o.key = store[id].key

\* A status an API reader sees tells the truth (kernel drift not yet noticed
\* aside): "ready" means the current generation is what is installed, and
\* "disabled" that the tunnel is disabled and nothing is installed, unless a
\* reconcile is already on its way (setReconcileResult, MarkPending, Status).
StatusTruth ==
  \A id \in Stored : Quiet(id) /\ id \notin drifted =>
    /\ ViewPhase(id) = "ready" =>
         /\ store[id].en
         /\ kern[id] = {[key |-> store[id].key, gen |-> store[id].gen]}
         /\ stat[id].observed = store[id].gen
    /\ ViewPhase(id) = "disabled" /\ ~ WillReconcile(id) /\ ~ lost =>
         ~ store[id].en /\ kern[id] = {}

\* A tunnel that is shown as pending has a reconcile coming, and a queued
\* request has a wake-up coming: the queue and its one-slot wake channel lose
\* nothing, whatever is enqueued while a pass runs (Enqueue, processQueue).
NoLostRequest ==
  /\ \A id \in Stored : NoWriter /\ ViewPhase(id) = "pending" => WillReconcile(id) \/ lost
  /\ queueAll \/ queued # {} => wake \/ run = "woken"

\* The last event a watcher got about a tunnel is its current status, although
\* the status is stored and published in two steps (publishStatus, Forget).
EventsAgree ==
  \A id \in Ids : Quiet(id) =>
    IF stat[id] = None
      THEN evt[id] = None \/ evt[id].phase = "deleted"
      ELSE store[id] # None /\ evt[id] = EventOf(stat[id], store[id])

-----------------------------------------------------------------------------
(* Liveness.                                                               *)

Converged(id) ==
  IF store[id] = None THEN kern[id] = {} /\ stat[id] = None
  ELSE IF store[id].en
    THEN /\ kern[id] = {[key |-> store[id].key, gen |-> store[id].gen]}
         /\ stat[id] = Succeeded("ready", store[id])
    ELSE kern[id] = {} /\ stat[id] = Succeeded("disabled", store[id])

\* Once failures, drift and mutations stop, every tunnel reaches its desired
\* state and reports so, and stays there (the ticker's full pass repairs what
\* no queue entry and no backend event covers).
Convergence == <>[](\A id \in Ids : Converged(id))

\* Every request that entered the Manager leaves it: no operation waits for a
\* tunnel mutex or a gate that it, or one waiting for it, holds.
RequestsFinish == \A c \in Clients : op[c] # "idle" ~> op[c] = "idle"
=============================================================================
