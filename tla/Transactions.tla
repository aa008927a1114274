---------------------------- MODULE Transactions ----------------------------
(***************************************************************************)
(* The operations that change several tunnels at once:                     *)
(* Manager.ApplyBundle (internal/core/batch.go) and Manager.RestoreBackup  *)
(* (internal/core/backup.go).  Both plan on the stored records, apply one  *)
(* change after another, and undo what they changed when one of them       *)
(* fails.  They hold the write side of the mutation gate from the plan to  *)
(* the answer, so nothing interleaves with them but failing calls and a    *)
(* crash; between two of them the Reconciler works its queue off.          *)
(*                                                                         *)
(* Abstracted: every tunnel is an enabled WireGuard tunnel with routes; a  *)
(* record is its generation, the route table that it claims (no two may    *)
(* claim the same, and its kernel objects are found by it) and the         *)
(* preshared key of its peer.  Single mutations, disabled tunnels and the  *)
(* interleaving of reconciles are ControlPlane.tla's.                      *)
(***************************************************************************)
EXTENDS Naturals, FiniteSets, SequencesExt

CONSTANTS
  Ids,          \* tunnel ids
  Tables,       \* route tables
  Secrets,      \* preshared keys
  Empty,        \* the empty string, where a preshared key is expected
  Clear,        \* model.ClearSecretValue
  MaxRecords,   \* model.MaxTunnelRecords
  MaxArchived,  \* bound: generations in an archive
  MaxTx,        \* bound: bundles and restores
  MaxFault,     \* bound: failing backend or store calls
  MaxCrash,     \* bound: daemon crashes
  None          \* absent record, status or transaction

Record == [gen : Nat \ {0}, table : Tables, psk : Secrets \cup {Empty}]
Desired == [table : Tables, psk : Secrets \cup {Empty, Clear}]

\* A step of a plan is what it does, to which tunnel, and the records before and
\* after it: a replaced tunnel is a deletion that knows what comes after it, and a
\* creation that knows what was before it.
Change == [act : {"delete", "update", "create"}, id : Ids,
           before : Record \cup {None}, after : Record \cup {None}]

\* A bundle or a restore: its plan and the place of the next step in it, whether the
\* objects of that step are removed, the places still to be undone or waited for,
\* whether a step failed, was undone and was undone cleanly, and the records before
\* and after the plan.
Transaction ==
  [kind : {"bundle", "restore"}, phase : {"apply", "undo", "wait", "answer"},
   plan : Seq(Change), next : Nat \ {0}, left : SUBSET Nat,
   removed : BOOLEAN, failed : BOOLEAN, undone : BOOLEAN, clean : BOOLEAN,
   before : [Ids -> Record \cup {None}], target : [Ids -> Record \cup {None}]]

ASSUME TransactionsAssumption ==
  /\ IsFiniteSet(Ids)
  /\ Empty \notin Secrets /\ Clear \notin Secrets \cup {Empty}
  /\ MaxRecords \in Nat /\ MaxArchived \in Nat /\ MaxTx \in Nat /\ MaxFault \in Nat /\ MaxCrash \in Nat
  /\ None \notin Record \cup Transaction

VARIABLES
  store,     \* store[id]: the stored record, or None (survives a crash)
  used,      \* ids ever given out by model.NewID (survives a crash)
  kern,      \* kern[id]: kernel objects of the tunnel (survives a crash)
  stat,      \* phase of Reconciler.statuses[id]
  queue,     \* the Reconciler's queue
  tx,        \* the bundle or restore that runs, or None
  lost,      \* TRUE after an undo that failed, or a reconcile given up because
             \* its record could not be read, until the next full pass
             \* (history, for the properties)
  txs, faults, crashes   \* what is left of the bounds

budget == <<txs, faults, crashes>>
vars == <<store, used, kern, stat, queue, tx, lost, budget>>

-----------------------------------------------------------------------------
(* Data.                                                                   *)

\* An object of the kernel is its table and the generation that installed it, 0 if
\* it is a partial one.

Stored == {id \in Ids : store[id] # None}
Objects(rec) == {[table |-> rec.table, gen |-> rec.gen]}

\* Backend.Remove finds the objects by what the record it is given says; a
\* call that fails, or is cut short, leaves all, some or a part of them.
Removed(objs, rec) == {o \in objs : o.table # rec.table}
Applied(objs, rec) == Removed(objs, rec) \cup Objects(rec)
Remains(objs, rec) ==
  {objs, Removed(objs, rec), Removed(objs, rec) \cup {[table |-> rec.table, gen |-> 0]}}

\* mergeWireGuardSecrets: an empty secret keeps the current one.
Merged(psk, cur) == IF psk = Clear THEN Empty ELSE IF psk = Empty THEN cur.psk ELSE psk

\* PrepareUpdate and PrepareNew.
PrepareUpdate(next, cur) ==
  [gen |-> cur.gen + 1, table |-> next.table, psk |-> Merged(next.psk, cur)]
PrepareNew(next) == [gen |-> 1, table |-> next.table, psk |-> next.psk]

\* Fault: a moved route table is not recognised as a change of ownership.
RequiresNoCleanup(cur, next) == FALSE

\* requiresCleanupBeforeUpdate, of a tunnel with routes.
RequiresCleanup(cur, next) == cur.table # next.table

-----------------------------------------------------------------------------
(* The store: FileStore.Create, Update and Delete with checkNamesLocked.   *)

TableFree(id, rec) == \A j \in Stored \ {id} : store[j].table # rec.table
CanCreate(id, rec) ==
  store[id] = None /\ Cardinality(Stored) < MaxRecords /\ TableFree(id, rec)
CanUpdate(id, rec) ==
  store[id] # None /\ rec.gen = store[id].gen + 1 /\ TableFree(id, rec)
CanDelete(id, rec) == store[id] # None /\ store[id].gen = rec.gen

Put(id, rec) == store' = [store EXCEPT ![id] = rec]
Report(id, phase) == stat' = [stat EXCEPT ![id] = phase]

Fault == faults > 0 /\ faults' = faults - 1 /\ UNCHANGED <<txs, crashes>>

-----------------------------------------------------------------------------
(* Plans.                                                                  *)

\* validateRecordSet.
ValidSet(s) ==
  LET held == {id \in Ids : s[id] # None} IN
  /\ Cardinality(held) <= MaxRecords
  /\ \A i, j \in held : i # j => s[i].table # s[j].table

\* buildBundlePlanLocked: the records a bundle (desired state by tunnel) leads
\* to; a tunnel that is not stored is created, with an id of its own.
Planned(desired, prune) ==
  [id \in Ids |->
     IF id \notin DOMAIN desired THEN (IF prune THEN None ELSE store[id])
     ELSE IF store[id] = None THEN PrepareNew(desired[id])
     ELSE LET next == PrepareUpdate(desired[id], store[id]) IN
          IF next.table = store[id].table /\ next.psk = store[id].psk
            THEN store[id] ELSE next]

\* The changes that lead from the stored records to the given ones.
Step(act, id, target) == [act |-> act, id |-> id, before |-> store[id], after |-> target[id]]
Deletions(target) ==
  {Step("delete", id, target) : id \in {i \in Stored : target[i] = None}}
Creations(target) ==
  {Step("create", id, target) : id \in {i \in Ids \ Stored : target[i] # None}}
Differing(target) == {i \in Stored : target[i] # None /\ target[i] # store[i]}
Updates(target) == {Step("update", id, target) : id \in Differing(target)}
Replacements(target) ==
  {Step(act, id, target) : act \in {"delete", "create"}, id \in Differing(target)}

\* orderBundleChanges, and the two loops of RestoreBackup over its sorted plan.
Rank(c) ==
  CASE c.act = "delete" -> IF c.after = None THEN 1 ELSE 2
    [] c.act = "update" -> 3
    [] c.act = "create" -> IF c.before # None THEN 4 ELSE 5

\* Within a rank the order is the bundle's, or that of the tunnels' names.
Ordered(changes) ==
  {s \in SetToSeqs(changes) : \A i, j \in DOMAIN s : i < j => Rank(s[i]) <= Rank(s[j])}

Begin(kind, target, changes) ==
  /\ txs' = txs - 1 /\ UNCHANGED <<faults, crashes>>
  /\ ValidSet(target)
  /\ \E s \in Ordered(changes) :
       tx' = [kind |-> kind, phase |-> "apply", plan |-> s, next |-> 1, left |-> {},
              removed |-> FALSE, failed |-> FALSE, undone |-> FALSE, clean |-> TRUE,
              before |-> store, target |-> target]

ApplyBundle(desired, prune) ==
  LET target == Planned(desired, prune)
      new == DOMAIN desired \ Stored IN
  /\ new \cap used = {}
  /\ Begin("bundle", target, Deletions(target) \cup Updates(target) \cup Creations(target))
  /\ used' = used \cup new
  /\ UNCHANGED <<store, kern, stat, queue, lost>>

RestoreBackup(archive) ==
  /\ Begin("restore", archive,
           Deletions(archive) \cup Replacements(archive) \cup Creations(archive))
  /\ used' = used \cup {id \in Ids : archive[id] # None}
  /\ UNCHANGED <<store, kern, stat, queue, lost>>

-----------------------------------------------------------------------------
(* Applying: applyBundleChangeLocked, Reconciler.Delete, FileStore.Create. *)

Undoing == tx # None /\ tx.phase = "undo" /\ tx.left # {}
Applying == tx # None /\ tx.phase = "apply" /\ tx.next <= Len(tx.plan)
Waiting == tx # None /\ tx.phase = "wait" /\ tx.left # {}

Done(t) == 1 .. t.next - 1

\* Faults: changes are undone in the order they were made; a bundle's deletions
\* are not undone.
UndoNextForward(t) == Min(t.left)
UndoableKept(t) == {i \in Done(t) : t.plan[i].act # "delete"}

\* What a failed step has undone, and in which order: rollbackBundleChangesLocked
\* goes back in reverse; rollbackRestoreLocked deletes what was created in reverse,
\* then creates what was deleted in order.
Undoable(t) == Done(t)
UndoNext(t) ==
  LET created == {i \in t.left : t.plan[i].act = "create"} IN
  IF t.kind = "bundle" THEN Max(t.left)
  ELSE IF created # {} THEN Max(created) ELSE Min(t.left)

\* The place in the plan of what is done, undone or waited for next.
Place ==
  IF tx.phase = "apply" THEN tx.next
  ELSE IF tx.phase = "undo" THEN UndoNext(tx) ELSE Min(tx.left)
Current == tx.plan[Place]

NeedsRemoval(c) ==
  \/ c.act = "delete"
  \/ c.act = "update" /\ RequiresCleanup(c.before, c.after)

Advance == tx' = [tx EXCEPT !.next = @ + 1, !.removed = FALSE]

Rollback ==
  tx' = [tx EXCEPT !.phase = "undo", !.left = Undoable(tx), !.removed = FALSE,
                   !.failed = TRUE, !.undone = TRUE]

\* Reconciler.Remove, or the first half of Reconciler.Delete.
ApplyRemoved ==
  LET c == Current IN
  /\ Applying /\ NeedsRemoval(c) /\ ~ tx.removed
  /\ kern' = [kern EXCEPT ![c.id] = Removed(@, c.before)]
  /\ Report(c.id, "disabled")
  /\ tx' = [tx EXCEPT !.removed = TRUE]
  /\ UNCHANGED <<store, used, queue, lost, budget>>

\* The removal fails, or already the record cannot be read.
ApplyRemoveFails ==
  LET c == Current IN
  /\ Applying /\ NeedsRemoval(c) /\ ~ tx.removed
  /\ Fault
  /\ \/ /\ \E left \in Remains(kern[c.id], c.before) : kern' = [kern EXCEPT ![c.id] = left]
        /\ Report(c.id, "error")
     \/ UNCHANGED <<kern, stat>>
  /\ Rollback
  /\ UNCHANGED <<store, used, queue, lost>>

Accepted(c) ==
  CASE c.act = "delete" -> CanDelete(c.id, c.before)
    [] c.act = "update" -> CanUpdate(c.id, c.after)
    [] c.act = "create" -> CanCreate(c.id, c.after)

Ready(c) == Applying /\ (NeedsRemoval(c) => tx.removed)

ApplyStored ==
  LET c == Current IN
  /\ Ready(c) /\ Accepted(c)
  /\ Put(c.id, IF c.act = "delete" THEN None ELSE c.after)
  /\ IF c.act = "delete" THEN Report(c.id, None) ELSE UNCHANGED stat   \* Forget
  /\ Advance
  /\ UNCHANGED <<used, kern, queue, lost, budget>>

\* What is done about the objects that were removed for nothing: an update
\* queues the tunnel; Delete reconciles it at once, which the same outage may
\* make fail as well, the last time before anything is known of the record.
ApplyRepaired(c) ==
  CASE c.act = "delete" ->
         /\ \/ /\ kern' = [kern EXCEPT ![c.id] = Applied(@, c.before)]
               /\ Report(c.id, "ready") /\ UNCHANGED lost
            \/ /\ \E left \in Remains(kern[c.id], c.before) :
                    kern' = [kern EXCEPT ![c.id] = left]
               /\ Report(c.id, "error") /\ UNCHANGED lost
            \/ lost' = TRUE /\ UNCHANGED <<kern, stat>>
         /\ UNCHANGED queue
    [] c.act = "update" ->
         /\ queue' = IF NeedsRemoval(c) THEN queue \cup {c.id} ELSE queue
         /\ UNCHANGED <<kern, stat, lost>>
    [] c.act = "create" -> UNCHANGED <<kern, stat, queue, lost>>

\* The store fails, or refuses the change.
ApplyRefused ==
  LET c == Current IN
  /\ Ready(c)
  /\ IF Accepted(c) THEN Fault ELSE UNCHANGED budget
  /\ ApplyRepaired(c)
  /\ Rollback
  /\ UNCHANGED <<store, used>>

-----------------------------------------------------------------------------
(* Undoing: rollbackBundleChangesLocked and rollbackRestoreLocked.         *)

UndoAccepted(c) ==
  CASE c.act = "delete" -> CanCreate(c.id, c.before)
    [] c.act = "update" -> store[c.id] # None /\ CanUpdate(c.id, PrepareUpdate(c.before, store[c.id]))
    [] c.act = "create" -> CanDelete(c.id, c.after)

\* Fault: what comes back is stored and shown as pending, and not enqueued.
UndoneUnqueued(c, rec) == Put(c.id, rec) /\ Report(c.id, "pending") /\ UNCHANGED queue

\* MarkPending and Enqueue of what comes back.
Undone(c, rec) ==
  /\ Put(c.id, rec)
  /\ Report(c.id, "pending")
  /\ queue' = queue \cup {c.id}

UndoStored ==
  LET c == Current IN
  /\ Undoing /\ UndoAccepted(c)
  /\ CASE c.act = "delete" -> Undone(c, c.before)
       [] c.act = "update" -> Undone(c, PrepareUpdate(c.before, store[c.id]))
       [] c.act = "create" -> Put(c.id, None) /\ Report(c.id, None) /\ UNCHANGED queue
  /\ tx' = [tx EXCEPT !.left = @ \ {Place}]
  /\ UNCHANGED <<used, kern, lost, budget>>

\* The error is joined to the answer and the rest is undone all the same.
UndoRefused ==
  /\ Undoing
  /\ IF UndoAccepted(Current) THEN Fault ELSE UNCHANGED budget
  /\ tx' = [tx EXCEPT !.left = @ \ {Place}, !.clean = FALSE]
  /\ lost' = TRUE
  /\ UNCHANGED <<store, used, kern, stat, queue>>

UndoDone ==
  /\ tx # None /\ tx.phase = "undo" /\ tx.left = {}
  /\ tx' = [tx EXCEPT !.phase = "answer"]
  /\ UNCHANGED <<store, used, kern, stat, queue, lost, budget>>

-----------------------------------------------------------------------------
(* Concluding: what was stored is marked pending and queued, and, if the   *)
(* caller waits, reconciled before the gate is released.                   *)

Written(t) == {i \in DOMAIN t.plan : t.plan[i].act # "delete"}

Conclude(wait) ==
  /\ tx # None /\ tx.phase = "apply" /\ tx.next > Len(tx.plan)
  /\ LET ids == {tx.plan[i].id : i \in Written(tx)} IN
     /\ stat' = [id \in Ids |-> IF id \in ids THEN "pending" ELSE stat[id]]
     /\ queue' = queue \cup ids
  /\ tx' = IF wait THEN [tx EXCEPT !.phase = "wait", !.left = Written(tx)]
                   ELSE [tx EXCEPT !.phase = "answer"]
  /\ UNCHANGED <<store, used, kern, lost, budget>>

\* Reconciler.Reconcile of a stored record, with its outcomes.
Reconciled(id) ==
  /\ kern' = [kern EXCEPT ![id] = Applied(@, store[id])]
  /\ Report(id, "ready")
  /\ UNCHANGED budget
ReconcileFails(id) ==
  /\ Fault
  /\ \E left \in Remains(kern[id], store[id]) : kern' = [kern EXCEPT ![id] = left]
  /\ Report(id, "error")
Unread == Fault /\ UNCHANGED <<kern, stat>>

\* A tunnel that is waited for is queued as well, whatever comes of it here.
WaitReconcile ==
  /\ Waiting
  /\ Reconciled(Current.id) \/ ReconcileFails(Current.id) \/ Unread
  /\ tx' = [tx EXCEPT !.left = @ \ {Place}]
  /\ UNCHANGED <<store, used, queue, lost>>

WaitDone ==
  /\ tx # None /\ tx.phase = "wait" /\ tx.left = {}
  /\ tx' = [tx EXCEPT !.phase = "answer"]
  /\ UNCHANGED <<store, used, kern, stat, queue, lost, budget>>

\* ApplyBundle reads the records again for its answer; when that fails, it
\* answers an error although everything was applied.
ViewFails ==
  /\ tx # None /\ tx.phase = "answer" /\ tx.kind = "bundle" /\ ~ tx.failed
  /\ Fault
  /\ tx' = [tx EXCEPT !.failed = TRUE]
  /\ UNCHANGED <<store, used, kern, stat, queue, lost>>

Answer ==
  /\ tx # None /\ tx.phase = "answer"
  /\ tx' = None
  /\ UNCHANGED <<store, used, kern, stat, queue, lost, budget>>

-----------------------------------------------------------------------------
(* The Reconciler between transactions, and crashes.                       *)

LoopReconcile(id) ==
  /\ tx = None
  /\ id \in queue
  /\ queue' = queue \ {id}
  /\ IF store[id] = None THEN UNCHANGED <<kern, stat, lost, budget>>
     ELSE \/ (Reconciled(id) \/ ReconcileFails(id)) /\ UNCHANGED lost
          \/ Unread /\ lost' = TRUE
  /\ UNCHANGED <<store, used, tx>>

Tick ==
  /\ tx = None
  /\ queue' = Stored
  /\ lost' = FALSE
  /\ UNCHANGED <<store, used, kern, stat, tx, budget>>

\* The tunnels a backend call may be running for.
InFlight ==
  IF tx = None THEN queue \cap Stored
  ELSE IF Waiting \/ (Applying /\ NeedsRemoval(Current) /\ ~ tx.removed)
    THEN {Current.id} ELSE {}

CrashRemains(id) == IF id \in InFlight THEN Remains(kern[id], store[id]) ELSE {kern[id]}

Crash ==
  /\ crashes > 0
  /\ crashes' = crashes - 1 /\ UNCHANGED <<txs, faults>>
  /\ kern' \in {k \in [Ids -> UNION {CrashRemains(id) : id \in Ids}] :
                  \A id \in Ids : k[id] \in CrashRemains(id)}
  /\ stat' = [id \in Ids |-> None]
  /\ queue' = Stored
  /\ tx' = None
  /\ lost' = FALSE
  /\ UNCHANGED <<store, used>>

-----------------------------------------------------------------------------
\* The daemon starts, after a boot, on any records it may have stored before.
Init ==
  /\ store \in [Ids -> {None} \cup [gen : {1}, table : Tables, psk : Secrets \cup {Empty}]]
  /\ ValidSet(store)
  /\ used = Stored
  /\ kern = [id \in Ids |-> {}]
  /\ stat = [id \in Ids |-> None]
  /\ queue = Stored
  /\ tx = None
  /\ lost = FALSE
  /\ txs = MaxTx /\ faults = MaxFault /\ crashes = MaxCrash

\* What BuildBackup may have written, here or elsewhere, at any earlier time.
Archives ==
  {s \in [Ids -> {None} \cup [gen : 1..MaxArchived, table : Tables, psk : Secrets \cup {Empty}]] :
     ValidSet(s)}

\* Clearing a secret is for updates only.
Bundles ==
  {d \in UNION {[ids -> Desired] : ids \in SUBSET Ids \ {{}}} :
     \A id \in DOMAIN d : store[id] = None => d[id].psk # Clear}

TxStep ==
  \/ ApplyRemoved \/ ApplyRemoveFails \/ ApplyStored \/ ApplyRefused
  \/ UndoStored \/ UndoRefused \/ UndoDone
  \/ \E wait \in BOOLEAN : Conclude(wait)
  \/ WaitReconcile \/ WaitDone \/ ViewFails \/ Answer

\* The write gate is free.
TxBegin ==
  /\ tx = None /\ txs > 0
  /\ \/ \E d \in Bundles, prune \in BOOLEAN : ApplyBundle(d, prune)
     \/ \E archive \in Archives : RestoreBackup(archive)

Next ==
  \/ TxBegin
  \/ TxStep
  \/ \E id \in Ids : LoopReconcile(id)
  \/ Tick \/ Crash

Spec == Init /\ [][Next]_vars

-----------------------------------------------------------------------------
(* Safety.                                                                 *)

\* What Remove and Delete cannot find by the stored record must not exist:
\* neither a plan cut short, nor its undoing, nor a restored older record
\* leaves objects behind under a table that no record of the tunnel names.
NoOrphans ==
  \A id \in Ids : \A o \in kern[id] : store[id] # None /\ o.table = store[id].table

\* The record is back as it was, under a generation that is not older; a
\* preshared key it did not have may have stayed: the undo prepares the old
\* record as an update of the new one, whose key is merged into it.
Back(old, new) ==
  IF old = None THEN new = None
  ELSE /\ new # None
       /\ new.table = old.table /\ new.gen >= old.gen
       /\ new.psk = old.psk \/ old.psk = Empty

\* A bundle or a restore is answered with all of its plan in place, under the
\* archived generations if it is a restore, or with nothing of it; what an
\* undo reports as failed is excepted (ApplyBundle, RestoreBackup).
AllOrNothing ==
  tx # None /\ tx.phase = "answer" /\ tx.clean =>
    \/ store = tx.target /\ ~ tx.undone
    \/ tx.failed /\ \A id \in Ids : Back(tx.before[id], store[id])

\* Undoing is never refused by the store's own checks: on the way back every
\* table is free and there is room for every record, as long as no store call
\* has failed (rollbackBundleChangesLocked, rollbackRestoreLocked).
UndoPossible == Undoing /\ tx.clean => UndoAccepted(Current)

\* When a transaction has been answered, or the daemon restarted, each tunnel
\* is installed as its record says, or shown as failed, or queued; "ready" is
\* never shown for what is neither (applyBundleChangeLocked, Delete, rollback).
RepairComes ==
  tx = None /\ ~ lost =>
    \A id \in Stored :
      \/ kern[id] = Objects(store[id]) /\ stat[id] = "ready"
      \/ stat[id] = "error"
      \/ id \in queue
=============================================================================
