-------------------------- MODULE TransactionsProofs --------------------------
(***************************************************************************)
(* Proofs about Transactions for any tunnels, tables and secrets, plans of *)
(* any length and any number of failures and crashes: a plan leaves no     *)
(* kernel objects behind, is in place as a whole or undone, its undoing is *)
(* not refused by the store, and what it stores is repaired.               *)
(***************************************************************************)
EXTENDS Transactions, FiniteSetTheorems, WellFoundedInduction, TLAPS

Object == [table : Tables, gen : Nat]
Records == [Ids -> Record \cup {None}]
Phases == {"pending", "ready", "error", "disabled", None}

TypeInv ==
  /\ store \in Records /\ used \subseteq Ids
  /\ kern \in [Ids -> SUBSET Object]
  /\ stat \in [Ids -> Phases]
  /\ queue \subseteq Ids
  /\ tx \in Transaction \cup {None}
  /\ lost \in BOOLEAN
  /\ txs \in Nat /\ faults \in Nat /\ crashes \in Nat

-----------------------------------------------------------------------------
(* Plans.                                                                  *)

\* Every step is about the records before and after the plan.
StepsFit(t) ==
  \A i \in DOMAIN t.plan :
    LET c == t.plan[i] IN
    /\ c.before = t.before[c.id] /\ c.after = t.target[c.id]
    /\ c.act # "create" => c.before # None
    /\ c.act # "delete" => c.after # None
    /\ c.act = "update" => c.after.gen >= c.before.gen

\* Only a restore replaces a tunnel, by a deletion and then a creation.
StepsOrdered(t) ==
  /\ \A i, j \in DOMAIN t.plan : i < j =>
       /\ t.plan[j].act = "delete" => t.plan[i].act = "delete"
       /\ t.plan[i].id = t.plan[j].id => t.plan[i].act = "delete" /\ t.plan[j].act = "create"
  /\ \A i \in DOMAIN t.plan :
       LET c == t.plan[i] IN
       /\ c.act = "update" => t.kind = "bundle"
       /\ c.act = "create" /\ c.before # None =>
            t.kind = "restore" /\ \E j \in 1 .. i - 1 : t.plan[j].id = c.id
       /\ c.act = "delete" /\ c.after # None =>
            t.kind = "restore" /\ \E j \in DOMAIN t.plan : j > i /\ t.plan[j].id = c.id

\* A tunnel that no step is about stays as it is.
StepsCover(t) ==
  \A id \in Ids : (\A i \in DOMAIN t.plan : t.plan[i].id # id) => t.target[id] = t.before[id]

PlanOf(t) == StepsFit(t) /\ StepsOrdered(t) /\ StepsCover(t) /\ ValidSet(t.before)

PlanInv == tx # None => PlanOf(tx)

-----------------------------------------------------------------------------
(* Progress of a plan.                                                     *)

\* The steps whose changes are in the store.
InPlace(t) == IF t.phase = "undo" THEN t.left ELSE Done(t)

Writes(t, i) == t.plan[i].act # "delete"
About(t, i, id) == t.plan[i].id = id

\* The undoing goes back through the plan of a bundle, and through the creations of
\* a restore before its deletions.
PlaceInv ==
  tx # None =>
    /\ tx.next <= Len(tx.plan) + 1
    /\ tx.phase = "apply" => tx.left = {} /\ ~ tx.undone /\ ~ tx.failed
    /\ tx.phase = "apply" => tx.clean
    /\ tx.removed => Applying /\ NeedsRemoval(Current)
    /\ tx.undone => tx.failed
    /\ tx.phase = "undo" =>
         /\ tx.undone /\ tx.left \subseteq Done(tx)
         /\ tx.kind = "bundle" => \A i \in tx.left : 1 .. i \subseteq tx.left
         /\ \A i \in tx.left : Writes(tx, i) =>
              \A j \in Done(tx) : ~ Writes(tx, j) => j \in tx.left
    /\ tx.phase = "wait" => tx.left \subseteq Written(tx)

\* What the store holds for a tunnel while a plan is applied or undone.
StoredAt(t, id) ==
  /\ \A i \in InPlace(t) : About(t, i, id) /\ Writes(t, i) => store[id] = t.target[id]
  /\ t.clean /\ (\E i \in InPlace(t) : About(t, i, id))
             /\ (\A i \in InPlace(t) : About(t, i, id) => ~ Writes(t, i)) => store[id] = None
  /\ t.clean /\ (\A i \in InPlace(t) : ~ About(t, i, id)) =>
       IF t.phase = "apply" THEN store[id] = t.before[id] ELSE Back(t.before[id], store[id])

\* No change that is in place claims the table that an update after it gives up.
Apart(t) ==
  \A i \in Done(t), j \in DOMAIN t.plan :
    i < j /\ Writes(t, i) /\ t.plan[j].act = "update" => t.plan[i].after.table # t.plan[j].before.table

StoreInv ==
  /\ ValidSet(store)
  /\ tx # None /\ tx.phase \in {"apply", "undo"} => Apart(tx) /\ \A id \in Ids : StoredAt(tx, id)
  /\ tx # None /\ tx.phase \in {"wait", "answer"} /\ ~ tx.undone => store = tx.target
  /\ tx # None /\ tx.phase = "wait" => ~ tx.undone
  /\ tx # None /\ tx.phase = "answer" /\ tx.undone /\ tx.clean =>
       \A id \in Ids : Back(tx.before[id], store[id])

-----------------------------------------------------------------------------
(* Kernel objects and what repairs them.                                   *)

\* Nothing is installed of a tunnel whose objects the next step has removed, nor of
\* one that a step in place has created or moved.
Moved(c) == c.act = "create" \/ NeedsRemoval(c)

KernInv ==
  /\ NoOrphans
  /\ tx # None /\ tx.removed => kern[Current.id] = {}
  /\ tx # None /\ tx.phase \in {"apply", "undo"} =>
       \A i \in InPlace(tx) : Writes(tx, i) /\ Moved(tx.plan[i]) => kern[tx.plan[i].id] = {}

Repaired(id) ==
  \/ kern[id] = Objects(store[id]) /\ stat[id] = "ready"
  \/ stat[id] = "error"
  \/ id \in queue

\* A plan that is applied or undone will queue what it has written or removed.
Owed(id) ==
  /\ tx # None /\ tx.phase \in {"apply", "undo"}
  /\ \/ tx.removed /\ Current.id = id
     \/ \E i \in InPlace(tx) : About(tx, i, id) /\ Writes(tx, i)

RepairInv == ~ lost => \A id \in Stored : Repaired(id) \/ Owed(id)

IInv == TypeInv /\ PlanInv /\ PlaceInv /\ StoreInv /\ KernInv /\ RepairInv

-----------------------------------------------------------------------------
(* Records, objects and places of a plan.                                  *)

LEMMA NoneApart == None \notin Record /\ None \notin Transaction
BY TransactionsAssumption

LEMMA ObjectTypes ==
  ASSUME NEW objs \in SUBSET Object, NEW rec \in Record
  PROVE  /\ Removed(objs, rec) \in SUBSET Object /\ Applied(objs, rec) \in SUBSET Object
         /\ Remains(objs, rec) \subseteq SUBSET Object
BY DEF Object, Removed, Applied, Objects, Remains, Record

LEMMA PreparedTypes ==
  ASSUME NEW next \in Desired \cup Record, NEW cur \in Record
  PROVE  /\ PrepareUpdate(next, cur) \in Record
         /\ PrepareUpdate(next, cur).gen = cur.gen + 1
         /\ PrepareUpdate(next, cur).table = next.table
BY TransactionsAssumption DEF PrepareUpdate, Merged, Desired, Record

\* Every set of natural numbers that is not empty has a least element.
LEMMA Smallest ==
  ASSUME NEW T, T \subseteq Nat, T # {}
  PROVE  \E x \in T : \A y \in T : x <= y
<1> DEFINE U == {0..n : n \in T}
<1>1. U # {} /\ U \subseteq FiniteSubsetsOf(Nat)
  <2>1. ASSUME NEW n \in T PROVE 0..n \in FiniteSubsetsOf(Nat)
    BY FS_Interval, n \in Nat DEF FiniteSubsetsOf
  <2> QED  BY <2>1
<1>2. PICK u \in U : \A v \in U : <<v, u>> \notin StrictSubsetOrdering(Nat)
  <2> HIDE DEF U
  <2> QED  BY <1>1, FS_StrictSubsetOrderingWellFounded, WFMin
<1>3. PICK x \in T : u = 0..x
  BY DEF U
<1>4. ASSUME NEW y \in T, ~ (x <= y) PROVE FALSE
  <2>1. x \in Nat /\ y \in Nat /\ y < x
    BY <1>4
  <2>2. <<0..y, 0..x>> \notin StrictSubsetOrdering(Nat)
    BY <1>2, <1>3
  <2>3. 0..y \subseteq 0..x /\ 0..x # 0..y /\ 0..x \subseteq Nat
    <3>1. x \in 0..x /\ x \notin 0..y
      BY <2>1
    <3> QED  BY <2>1, <3>1
  <2> QED  BY <2>2, <2>3 DEF StrictSubsetOrdering
<1> QED  BY <1>4

LEMMA Extremes ==
  ASSUME NEW n \in Nat, NEW S \in SUBSET (1..n), S # {}
  PROVE  /\ Min(S) \in S
         /\ Max(S) \in S /\ \A y \in S : y <= Max(S)
<1>1. \E x \in S : \A y \in S : x <= y
  <2>1. S \subseteq Nat
    OBVIOUS
  <2> QED  BY <2>1, Smallest
<1>2. \E x \in S : \A y \in S : x >= y
  <2> DEFINE T == {n - y : y \in S}
  <2>1. T \subseteq Nat /\ T # {}
    <3>1. ASSUME NEW y \in S PROVE n - y \in Nat
      OBVIOUS
    <3> QED  BY <3>1
  <2>2. PICK z \in T : \A y \in T : z <= y
    <3> HIDE DEF T
    <3> QED  BY <2>1, Smallest
  <2>3. PICK x \in S : z = n - x
    OBVIOUS
  <2>4. \A y \in S : n - x <= n - y
    BY <2>2, <2>3
  <2> QED  BY <2>4
<1>3. Min(S) \in S
  BY <1>1 DEF Min
<1>4. Max(S) \in S /\ \A y \in S : Max(S) >= y
  BY <1>2 DEF Max
<1> QED  BY <1>3, <1>4

\* What is done, undone or waited for next is a step of the plan.
LEMMA PlaceFits ==
  ASSUME TypeInv, PlaceInv, Applying \/ Undoing \/ Waiting
  PROVE  /\ tx \in Transaction /\ Place \in DOMAIN tx.plan /\ Current = tx.plan[Place]
         /\ Current \in Change
         /\ Applying => Place = tx.next
         /\ Undoing \/ Waiting => Place \in tx.left
         /\ Undoing => Place \in Done(tx)
         /\ Waiting => Place \in Written(tx)
<1>1. tx \in Transaction
  BY DEF TypeInv, Applying, Undoing, Waiting
<1>2. /\ tx.plan \in Seq(Change) /\ Len(tx.plan) \in Nat /\ DOMAIN tx.plan = 1..Len(tx.plan)
      /\ tx.next \in Nat \ {0}
  BY <1>1 DEF Transaction
<1>3. CASE Applying
  BY <1>1, <1>2, <1>3 DEF Applying, Undoing, Waiting, Place, Current
<1>4. CASE Undoing
  <2>1. tx.left \in SUBSET (1..Len(tx.plan)) /\ tx.left # {} /\ tx.left \subseteq Done(tx)
    BY <1>1, <1>2, <1>4 DEF PlaceInv, Undoing, Done
  <2>2. ASSUME NEW S \in SUBSET tx.left, S # {} PROVE Max(S) \in S /\ Min(S) \in S
    BY <2>1, <2>2, <1>2, Extremes
  <2>3. Place \in tx.left
    BY <2>1, <2>2, <1>4 DEF Undoing, Place, UndoNext
  <2> QED  BY <1>1, <1>2, <1>4, <2>1, <2>3 DEF Undoing, Applying, Waiting, Current
<1>5. CASE Waiting
  <2>1. tx.left \in SUBSET (1..Len(tx.plan)) /\ tx.left # {} /\ tx.left \subseteq Written(tx)
    BY <1>1, <1>2, <1>5 DEF PlaceInv, Waiting, Written
  <2>2. Place \in tx.left
    BY <2>1, <1>2, <1>5, Extremes DEF Waiting, Place
  <2> QED  BY <1>1, <1>2, <1>5, <2>1, <2>2 DEF Undoing, Applying, Waiting, Current
<1> QED  BY <1>3, <1>4, <1>5

\* A plan that is begun keeps its steps and its records until it is answered.
LEMMA Frame ==
  ASSUME TypeInv, TxStep \/ (\E id \in Ids : LoopReconcile(id)) \/ Tick \/ Crash \/ UNCHANGED vars,
         tx' # None
  PROVE  /\ tx \in Transaction /\ tx # None /\ tx' \in Transaction
         /\ tx'.kind = tx.kind /\ tx'.plan = tx.plan /\ tx'.before = tx.before /\ tx'.target = tx.target
<1>1. tx # None /\ tx \in Transaction
  BY DEF TypeInv, TxStep, LoopReconcile, Tick, Crash, vars, ApplyRemoved, ApplyRemoveFails,
     ApplyStored, ApplyRefused, UndoStored, UndoRefused, UndoDone, Conclude, WaitReconcile, WaitDone,
     ViewFails, Answer, Ready, Applying, Undoing, Waiting
<1>0. tx.next \in Nat \ {0} /\ tx.left \subseteq Nat
  BY <1>1 DEF Transaction
<1>2. CASE ApplyRemoved
  <2>1. tx' = [tx EXCEPT !.removed = TRUE]
    BY <1>2 DEF ApplyRemoved
  <2> QED  BY <1>1, <2>1 DEF Transaction
<1>3. CASE ApplyRemoveFails \/ ApplyRefused
  <2>1. Undoable(tx) \subseteq Nat
    BY <1>0 DEF Undoable, Done
  <2>2. tx' = [tx EXCEPT !.phase = "undo", !.left = Undoable(tx), !.removed = FALSE,
                         !.failed = TRUE, !.undone = TRUE]
    BY <1>3 DEF ApplyRemoveFails, ApplyRefused, Rollback
  <2> QED  BY <1>1, <2>1, <2>2 DEF Transaction
<1>4. CASE ApplyStored
  <2> DEFINE n == tx.next + 1
  <2>1. n \in Nat \ {0}
    BY <1>0
  <2>2. tx' = [tx EXCEPT !.next = n, !.removed = FALSE]
    BY <1>4 DEF ApplyStored, Advance
  <2> HIDE DEF n
  <2> QED  BY <1>1, <2>1, <2>2 DEF Transaction
<1>5. CASE UndoStored \/ UndoRefused \/ WaitReconcile
  <2> DEFINE left == tx.left \ {Place}
  <2>1. left \subseteq Nat
    BY <1>0
  <2>2. tx' = [tx EXCEPT !.left = left] \/ tx' = [tx EXCEPT !.left = left, !.clean = FALSE]
    BY <1>5 DEF UndoStored, UndoRefused, WaitReconcile
  <2> HIDE DEF left
  <2>3. CASE tx' = [tx EXCEPT !.left = left]
    BY <1>1, <2>1, <2>3 DEF Transaction
  <2>4. CASE tx' = [tx EXCEPT !.left = left, !.clean = FALSE]
    BY <1>1, <2>1, <2>4 DEF Transaction
  <2> QED  BY <2>2, <2>3, <2>4
<1>6. CASE UndoDone \/ (\E wait \in BOOLEAN : Conclude(wait)) \/ WaitDone \/ ViewFails \/ Answer
  <2>1. Written(tx) \subseteq Nat
    BY <1>1 DEF Transaction, Written
  <2>2. \/ tx' = [tx EXCEPT !.phase = "answer"]
        \/ tx' = [tx EXCEPT !.phase = "wait", !.left = Written(tx)]
        \/ tx' = [tx EXCEPT !.failed = TRUE]
    BY <1>6 DEF UndoDone, Conclude, WaitDone, ViewFails, Answer
  <2>3. CASE tx' = [tx EXCEPT !.phase = "answer"]
    BY <1>1, <2>3 DEF Transaction
  <2>4. CASE tx' = [tx EXCEPT !.phase = "wait", !.left = Written(tx)]
    BY <1>1, <2>1, <2>4 DEF Transaction
  <2>5. CASE tx' = [tx EXCEPT !.failed = TRUE]
    BY <1>1, <2>5 DEF Transaction
  <2> QED  BY <2>2, <2>3, <2>4, <2>5
<1>7. CASE (\E id \in Ids : LoopReconcile(id)) \/ Tick \/ Crash \/ UNCHANGED vars
  BY <1>1, <1>7 DEF LoopReconcile, Tick, Crash, vars
<1> QED  BY <1>2, <1>3, <1>4, <1>5, <1>6, <1>7 DEF TxStep

LEMMA CurrentFits ==
  ASSUME TypeInv, PlanInv, PlaceInv, Applying \/ Undoing \/ Waiting
  PROVE  /\ Current.id \in Ids /\ Current.act \in {"delete", "update", "create"}
         /\ Current.before = tx.before[Current.id] /\ Current.after = tx.target[Current.id]
         /\ Current.act # "create" => Current.before \in Record
         /\ Current.act # "delete" => Current.after \in Record
         /\ Current.act = "update" => Current.after.gen >= Current.before.gen
<1>1. Current \in Change /\ Place \in DOMAIN tx.plan /\ Current = tx.plan[Place] /\ tx # None
  BY PlaceFits, NoneApart
<1>2. StepsFit(tx)
  BY <1>1 DEF PlanInv, PlanOf
<1> QED  BY <1>1, <1>2 DEF StepsFit, Change

-----------------------------------------------------------------------------
(* Plans that are begun.                                                   *)

Changes == {"delete", "update", "create"} \X Ids

LEMMA ChangesFinite ==
  ASSUME NEW target, NEW changes,
         \A c \in changes : \E x \in Changes : c = Step(x[1], x[2], target)
  PROVE  IsFiniteSet(changes)
<1> DEFINE f == [x \in Changes |-> Step(x[1], x[2], target)]
           All == {f[x] : x \in Changes}
<1>1. IsFiniteSet({"delete", "update", "create"})
  <2> DEFINE A == {"delete"} \cup {"update"}
  <2>1. {"delete", "update", "create"} = A \cup {"create"}
    OBVIOUS
  <2>2. IsFiniteSet({"delete"}) /\ IsFiniteSet({"update"}) /\ IsFiniteSet({"create"})
    BY FS_Singleton
  <2>3. IsFiniteSet(A)
    BY <2>2, FS_Union
  <2> HIDE DEF A
  <2>4. IsFiniteSet(A \cup {"create"})
    BY <2>2, <2>3, FS_Union
  <2> QED  BY <2>1, <2>4
<1>2. IsFiniteSet(Changes)
  BY <1>1, FS_Product, TransactionsAssumption DEF Changes
<1>3. f \in Surjection(Changes, All)
  BY DEF Surjection
<1>4. IsFiniteSet(All)
  <2> HIDE DEF f, All
  <2> QED  BY <1>2, <1>3, FS_Surjection
<1>5. changes \in SUBSET All
  OBVIOUS
<1> QED
  <2> HIDE DEF f, All
  <2> QED  BY <1>4, <1>5, FS_Subset

\* An ordered plan has every change once, and those of a lower rank first.
LEMMA OrderedPlan ==
  ASSUME NEW changes, IsFiniteSet(changes), NEW s \in Ordered(changes)
  PROVE  /\ s \in Seq(changes)
         /\ \A i, j \in DOMAIN s : i # j => s[i] # s[j]
         /\ \A c \in changes : \E i \in DOMAIN s : s[i] = c
         /\ \A i, j \in DOMAIN s : i < j => Rank(s[i]) <= Rank(s[j])
<1> DEFINE n == Cardinality(changes)
           D == 1..n
<1>1. s \in [D -> changes] /\ \A i, j \in D : i # j => s[i] # s[j]
  <2>1. s \in SetToSeqs(changes)
    BY DEF Ordered
  <2> QED  BY <2>1 DEF SetToSeqs
<1>2. n \in Nat
  BY FS_CardinalityType
<1>3. IsFiniteSet(D) /\ Cardinality(D) = n
  BY <1>2, FS_Interval
<1>4. s \in Injection(D, changes)
  BY <1>1 DEF Injection, IsInjective
<1>5. s \in Surjection(D, changes)
  <2> HIDE DEF D
  <2> QED  BY <1>3, <1>4, FS_Injection
<1>6. s \in Seq(changes) /\ DOMAIN s = D
  BY <1>1, <1>2
<1>7. \A i, j \in DOMAIN s : i < j => Rank(s[i]) <= Rank(s[j])
  BY DEF Ordered
<1> QED  BY <1>1, <1>5, <1>6, <1>7 DEF Surjection

\* The ranks of an ordered plan put deletions first, and the deletion of a replaced
\* tunnel before its creation.
LEMMA RankOrder ==
  ASSUME NEW c \in Change, NEW d \in Change, Rank(c) <= Rank(d)
  PROVE  /\ d.act = "delete" => c.act = "delete"
         /\ ~ (c.act = "create" /\ d.act = "delete")
BY DEF Rank, Change

LEMMA StepTypes ==
  ASSUME TypeInv, NEW target \in Records, NEW id \in Ids, NEW act \in {"delete", "update", "create"}
  PROVE  Step(act, id, target) \in Change
BY DEF TypeInv, Records, Step, Change

\* A plan is made of the changes that it is ordered from.
LEMMA PlanSteps ==
  ASSUME TypeInv, NEW target \in Records, NEW changes, NEW s \in Ordered(changes),
         \A c \in changes :
           \E act \in {"delete", "update", "create"}, id \in Ids : c = Step(act, id, target)
  PROVE  /\ s \in Seq(Change) /\ DOMAIN s \subseteq Nat
         /\ \A i \in DOMAIN s : s[i] \in changes
         /\ \A i, j \in DOMAIN s : i # j => s[i] # s[j]
         /\ \A c \in changes : \E i \in DOMAIN s : s[i] = c
         /\ \A i, j \in DOMAIN s : i < j =>
              /\ s[j].act = "delete" => s[i].act = "delete"
              /\ ~ (s[i].act = "create" /\ s[j].act = "delete")
<1>1. \A c \in changes : \E x \in Changes : c = Step(x[1], x[2], target)
  <2>1. ASSUME NEW act \in {"delete", "update", "create"}, NEW id \in Ids
        PROVE  \E x \in Changes : Step(act, id, target) = Step(x[1], x[2], target)
    <3>1. <<act, id>> \in Changes /\ <<act, id>>[1] = act /\ <<act, id>>[2] = id
      BY DEF Changes
    <3> QED  BY <3>1
  <2> QED  BY <2>1
<1>2. IsFiniteSet(changes) /\ changes \subseteq Change
  BY <1>1, ChangesFinite, StepTypes
<1>3. /\ s \in Seq(changes)
      /\ \A i, j \in DOMAIN s : i # j => s[i] # s[j]
      /\ \A c \in changes : \E i \in DOMAIN s : s[i] = c
      /\ \A i, j \in DOMAIN s : i < j => Rank(s[i]) <= Rank(s[j])
  BY <1>2, OrderedPlan
<1>4. s \in Seq(Change) /\ DOMAIN s \subseteq Nat /\ \A i \in DOMAIN s : s[i] \in changes
  BY <1>2, <1>3
<1> QED  BY <1>2, <1>3, <1>4, RankOrder

LEMMA BundlePlanned ==
  ASSUME TypeInv, ValidSet(store), NEW target \in Records,
         \A id \in Differing(target) : target[id].gen >= store[id].gen,
         NEW s \in Ordered(Deletions(target) \cup Updates(target) \cup Creations(target)),
         NEW t, t.kind = "bundle", t.plan = s, t.before = store, t.target = target
  PROVE  s \in Seq(Change) /\ PlanOf(t)
<1> DEFINE D == Deletions(target)
           U == Updates(target)
           C == Creations(target)
           all == D \cup U \cup C
<1>1. s \in Ordered(all)
  OBVIOUS
<1>2. \A c \in all : \E act \in {"delete", "update", "create"}, id \in Ids : c = Step(act, id, target)
  BY DEF Deletions, Updates, Creations, Stored, Differing
<1>3. /\ s \in Seq(Change) /\ DOMAIN s \subseteq Nat
      /\ \A i \in DOMAIN s : s[i] \in all
      /\ \A i, j \in DOMAIN s : i # j => s[i] # s[j]
      /\ \A c \in all : \E i \in DOMAIN s : s[i] = c
      /\ \A i, j \in DOMAIN s : i < j =>
           /\ s[j].act = "delete" => s[i].act = "delete"
           /\ ~ (s[i].act = "create" /\ s[j].act = "delete")
  <2> HIDE DEF all
  <2> QED  BY <1>1, <1>2, PlanSteps
<1>4. \A c \in all :
        /\ c = Step(c.act, c.id, target) /\ c.id \in Ids
        /\ \/ c.act = "delete" /\ c.before # None /\ c.after = None
           \/ c.act = "update" /\ c.before # None /\ c.after # None /\ c.after.gen >= c.before.gen
           \/ c.act = "create" /\ c.before = None /\ c.after # None
  <2>1. ASSUME NEW c \in D
        PROVE  c = Step("delete", c.id, target) /\ c.id \in Stored /\ target[c.id] = None
    BY DEF Deletions, Step
  <2>2. ASSUME NEW c \in U PROVE c = Step("update", c.id, target) /\ c.id \in Differing(target)
    BY DEF Updates, Step
  <2>3. ASSUME NEW c \in C
        PROVE  c = Step("create", c.id, target) /\ c.id \in Ids \ Stored /\ target[c.id] # None
    BY DEF Creations, Step
  <2>4. ASSUME NEW c \in D PROVE c.act = "delete" /\ c.before # None /\ c.after = None
    BY <2>1 DEF Step, Stored
  <2>5. ASSUME NEW c \in U
        PROVE  c.act = "update" /\ c.before # None /\ c.after # None /\ c.after.gen >= c.before.gen
    BY <2>2 DEF Step, Stored, Differing
  <2>6. ASSUME NEW c \in C PROVE c.act = "create" /\ c.before = None /\ c.after # None
    BY <2>3 DEF Step, Stored
  <2>7. \A c \in all : c = Step(c.act, c.id, target) /\ c.id \in Ids
    <3> HIDE DEF D, U, C
    <3> QED  BY <2>1, <2>2, <2>3, <2>4, <2>5, <2>6 DEF Stored, Differing
  <2> HIDE DEF D, U, C
  <2> QED  BY <2>4, <2>5, <2>6, <2>7
<1> HIDE DEF all
<1>6. StepsFit(t)
  BY <1>3, <1>4 DEF StepsFit, Step
<1>7. ASSUME NEW i \in DOMAIN s, NEW j \in DOMAIN s, i < j
      PROVE  (s[j].act = "delete" => s[i].act = "delete") /\ s[i].id # s[j].id
  <2>1. s[i] # s[j] /\ s[i] \in all /\ s[j] \in all
    BY <1>3, <1>7
  <2>2. s[i].id # s[j].id
    BY <2>1, <1>4 DEF Step
  <2> QED  BY <1>3, <1>7, <2>2
<1>8. StepsOrdered(t)
  BY <1>3, <1>4, <1>7 DEF StepsOrdered
<1>9. StepsCover(t)
  <2> SUFFICES ASSUME NEW id \in Ids, target[id] # store[id]
               PROVE  \E i \in DOMAIN s : s[i].id = id
    BY DEF StepsCover
  <2>1. \E c \in all : c.id = id
    <3>1. CASE store[id] = None
      <4>1. Step("create", id, target) \in all
        BY <3>1 DEF all, Creations, Stored
      <4> QED  BY <4>1 DEF Step
    <3>2. CASE store[id] # None /\ target[id] = None
      <4>1. Step("delete", id, target) \in all
        BY <3>2 DEF all, Deletions, Stored
      <4> QED  BY <4>1 DEF Step
    <3>3. CASE store[id] # None /\ target[id] # None
      <4>1. Step("update", id, target) \in all
        BY <3>3 DEF all, Updates, Differing, Stored
      <4> QED  BY <4>1 DEF Step
    <3> QED  BY <3>1, <3>2, <3>3
  <2> QED  BY <2>1, <1>3
<1> QED  BY <1>3, <1>6, <1>8, <1>9 DEF PlanOf

LEMMA RestorePlanned ==
  ASSUME TypeInv, ValidSet(store), NEW target \in Records,
         NEW s \in Ordered(Deletions(target) \cup Replacements(target) \cup Creations(target)),
         NEW t, t.kind = "restore", t.plan = s, t.before = store, t.target = target
  PROVE  s \in Seq(Change) /\ PlanOf(t)
<1> DEFINE D == Deletions(target)
           R == Replacements(target)
           C == Creations(target)
           all == D \cup R \cup C
<1>1. s \in Ordered(all)
  OBVIOUS
<1>2. \A c \in all : \E act \in {"delete", "update", "create"}, id \in Ids : c = Step(act, id, target)
  BY DEF Deletions, Replacements, Creations, Stored, Differing
<1>3. /\ s \in Seq(Change) /\ DOMAIN s \subseteq Nat
      /\ \A i \in DOMAIN s : s[i] \in all
      /\ \A i, j \in DOMAIN s : i # j => s[i] # s[j]
      /\ \A c \in all : \E i \in DOMAIN s : s[i] = c
      /\ \A i, j \in DOMAIN s : i < j =>
           /\ s[j].act = "delete" => s[i].act = "delete"
           /\ ~ (s[i].act = "create" /\ s[j].act = "delete")
  <2> HIDE DEF all
  <2> QED  BY <1>1, <1>2, PlanSteps
<1>4. \A c \in all :
        /\ c = Step(c.act, c.id, target) /\ c.id \in Ids
        /\ \/ c.act = "delete" /\ c.before # None /\ c.after = None
           \/ c.act \in {"delete", "create"} /\ c.id \in Differing(target)
              /\ c.before # None /\ c.after # None
           \/ c.act = "create" /\ c.before = None /\ c.after # None
  <2>1. ASSUME NEW c \in D
        PROVE  /\ c = Step("delete", c.id, target) /\ c.id \in Ids
               /\ c.act = "delete" /\ c.before # None /\ c.after = None
    BY DEF Deletions, Step, Stored
  <2>2. ASSUME NEW c \in R
        PROVE  /\ c = Step(c.act, c.id, target) /\ c.act \in {"delete", "create"}
               /\ c.id \in Differing(target) /\ c.id \in Ids /\ c.before # None /\ c.after # None
    BY DEF Replacements, Step, Stored, Differing
  <2>3. ASSUME NEW c \in C
        PROVE  /\ c = Step("create", c.id, target) /\ c.id \in Ids
               /\ c.act = "create" /\ c.before = None /\ c.after # None
    BY DEF Creations, Step, Stored
  <2> HIDE DEF D, R, C
  <2> QED  BY <2>1, <2>2, <2>3
<1>5. ASSUME NEW id \in Differing(target)
      PROVE  /\ \E i \in DOMAIN s : s[i].act = "delete" /\ s[i].id = id
             /\ \E i \in DOMAIN s : s[i].act = "create" /\ s[i].id = id
  <2>1. Step("delete", id, target) \in all /\ Step("create", id, target) \in all
    BY DEF Replacements
  <2> HIDE DEF all
  <2> QED  BY <2>1, <1>3 DEF Step
<1> HIDE DEF all
<1>6. StepsFit(t)
  BY <1>3, <1>4 DEF StepsFit, Step
<1>7. ASSUME NEW i \in DOMAIN s, NEW j \in DOMAIN s, i < j, s[i].id = s[j].id
      PROVE  s[i].act = "delete" /\ s[j].act = "create"
  <2>1. s[i] # s[j] /\ s[i] \in all /\ s[j] \in all
    BY <1>3, <1>7
  <2>2. s[i].act # s[j].act
    BY <2>1, <1>4, <1>7
  <2> QED  BY <1>3, <1>4, <1>7, <2>1, <2>2
<1>8. StepsOrdered(t)
  <2>1. ASSUME NEW i \in DOMAIN s, s[i].act = "create", s[i].before # None
        PROVE  \E j \in 1 .. i - 1 : s[j].id = s[i].id
    <3>1. PICK j \in DOMAIN s : s[j].act = "delete" /\ s[j].id = s[i].id
      BY <1>3, <1>4, <1>5, <2>1
    <3>2. j < i
      BY <1>3, <1>7, <2>1, <3>1
    <3>3. i \in Nat /\ j \in 1 .. i - 1
      BY <1>3, <3>2
    <3> QED  BY <3>1, <3>3
  <2>2. ASSUME NEW i \in DOMAIN s, s[i].act = "delete", s[i].after # None
        PROVE  \E j \in DOMAIN s : j > i /\ s[j].id = s[i].id
    <3>1. PICK j \in DOMAIN s : s[j].act = "create" /\ s[j].id = s[i].id
      BY <1>3, <1>4, <1>5, <2>2
    <3>2. j > i
      BY <1>3, <1>7, <2>2, <3>1
    <3> QED  BY <3>1, <3>2
  <2>3. \A i \in DOMAIN s : s[i].act # "update"
    BY <1>3, <1>4
  <2> QED  BY <1>3, <1>7, <2>1, <2>2, <2>3 DEF StepsOrdered
<1>9. StepsCover(t)
  <2> SUFFICES ASSUME NEW id \in Ids, target[id] # store[id]
               PROVE  \E i \in DOMAIN s : s[i].id = id
    BY DEF StepsCover
  <2>1. CASE store[id] = None
    <3>1. Step("create", id, target) \in all
      BY <2>1 DEF all, Creations, Stored
    <3> QED  BY <3>1, <1>3 DEF Step
  <2>2. CASE store[id] # None /\ target[id] = None
    <3>1. Step("delete", id, target) \in all
      BY <2>2 DEF all, Deletions, Stored
    <3> QED  BY <3>1, <1>3 DEF Step
  <2>3. CASE store[id] # None /\ target[id] # None
    BY <2>3, <1>5 DEF Differing, Stored
  <2> QED  BY <2>1, <2>2, <2>3
<1> QED  BY <1>3, <1>6, <1>8, <1>9 DEF PlanOf

LEMMA PlannedTypes ==
  ASSUME TypeInv, NEW d \in Bundles, NEW prune \in BOOLEAN
  PROVE  /\ Planned(d, prune) \in Records
         /\ \A id \in Differing(Planned(d, prune)) : Planned(d, prune)[id].gen >= store[id].gen
<1>1. d \in [DOMAIN d -> Desired] /\ \A id \in DOMAIN d : store[id] = None => d[id].psk # Clear
  BY DEF Bundles
<1>2. ASSUME NEW id \in Ids
      PROVE  /\ Planned(d, prune)[id] \in Record \cup {None}
             /\ id \in Differing(Planned(d, prune)) => Planned(d, prune)[id].gen >= store[id].gen
  <2>1. store[id] \in Record \cup {None}
    BY DEF TypeInv, Records
  <2>2. CASE id \notin DOMAIN d
    BY <2>1, <2>2 DEF Planned, Differing
  <2>3. CASE id \in DOMAIN d /\ store[id] = None
    <3>1. PrepareNew(d[id]) \in Record
      BY <1>1, <2>3 DEF PrepareNew, Desired, Record
    <3> QED  BY <2>3, <3>1 DEF Planned, Differing, Stored
  <2>4. CASE id \in DOMAIN d /\ store[id] # None
    <3>1. store[id] \in Record /\ d[id] \in Desired
      BY <1>1, <2>1, <2>4
    <3>2. PrepareUpdate(d[id], store[id]) \in Record
          /\ PrepareUpdate(d[id], store[id]).gen = store[id].gen + 1
      BY <3>1, PreparedTypes
    <3>3. \/ Planned(d, prune)[id] = store[id]
          \/ Planned(d, prune)[id] = PrepareUpdate(d[id], store[id])
      BY <2>4 DEF Planned
    <3>4. store[id].gen \in Nat
      BY <3>1 DEF Record
    <3> QED  BY <3>1, <3>2, <3>3, <3>4
  <2> QED  BY <2>2, <2>3, <2>4
<1>3. DOMAIN Planned(d, prune) = Ids /\ Planned(d, prune) = [id \in Ids |-> Planned(d, prune)[id]]
  BY DEF Planned
<1> QED  BY <1>2, <1>3 DEF Records, Differing, Stored

\* The transaction that is there once one has begun.
Begun(t) ==
  /\ t \in Transaction /\ PlanOf(t)
  /\ t.phase = "apply" /\ t.next = 1 /\ t.left = {} /\ t.before = store
  /\ ~ t.removed /\ ~ t.failed /\ ~ t.undone /\ t.clean

LEMMA BeginsWell ==
  ASSUME TypeInv, StoreInv, TxBegin
  PROVE  Begun(tx') /\ tx = None /\ used' \subseteq Ids /\ txs' \in Nat
         /\ UNCHANGED <<store, kern, stat, queue, lost, faults, crashes>>
<1>1. txs - 1 \in Nat
  BY DEF TypeInv, TxBegin
<1>2. ASSUME NEW kind \in {"bundle", "restore"}, NEW target \in Records, NEW s \in Seq(Change), NEW t,
             t = [kind |-> kind, phase |-> "apply", plan |-> s, next |-> 1, left |-> {},
                  removed |-> FALSE, failed |-> FALSE, undone |-> FALSE, clean |-> TRUE,
                  before |-> store, target |-> target]
      PROVE  t \in Transaction
  BY <1>2 DEF Transaction, TypeInv, Records
<1>3. CASE \E d \in Bundles, prune \in BOOLEAN : ApplyBundle(d, prune)
  <2>1. PICK d \in Bundles, prune \in BOOLEAN : ApplyBundle(d, prune)
    BY <1>3
  <2> DEFINE target == Planned(d, prune)
  <2>2. target \in Records /\ \A id \in Differing(target) : target[id].gen >= store[id].gen
    BY PlannedTypes
  <2>3. PICK s \in Ordered(Deletions(target) \cup Updates(target) \cup Creations(target)) :
          tx' = [kind |-> "bundle", phase |-> "apply", plan |-> s, next |-> 1, left |-> {},
                 removed |-> FALSE, failed |-> FALSE, undone |-> FALSE, clean |-> TRUE,
                 before |-> store, target |-> target]
    BY <2>1 DEF ApplyBundle, Begin
  <2>4. used' \subseteq Ids
    <3>1. DOMAIN d \subseteq Ids
      BY DEF Bundles
    <3> QED  BY <2>1, <3>1 DEF ApplyBundle, TypeInv
  <2> HIDE DEF target
  <2>5. tx'.kind = "bundle" /\ tx'.plan = s /\ tx'.before = store /\ tx'.target = target
    BY <2>3
  <2>6. s \in Seq(Change) /\ PlanOf(tx')
    BY <2>2, <2>5, BundlePlanned DEF StoreInv
  <2> QED  BY <1>1, <1>2, <2>1, <2>2, <2>3, <2>4, <2>6 DEF Begun, ApplyBundle, Begin, TxBegin
<1>4. CASE \E archive \in Archives : RestoreBackup(archive)
  <2>1. PICK target \in Archives : RestoreBackup(target)
    BY <1>4
  <2>2. target \in Records
    BY DEF Archives, Records, Record
  <2>3. PICK s \in Ordered(Deletions(target) \cup Replacements(target) \cup Creations(target)) :
          tx' = [kind |-> "restore", phase |-> "apply", plan |-> s, next |-> 1, left |-> {},
                 removed |-> FALSE, failed |-> FALSE, undone |-> FALSE, clean |-> TRUE,
                 before |-> store, target |-> target]
    BY <2>1 DEF RestoreBackup, Begin
  <2>4. used' \subseteq Ids
    BY <2>1 DEF RestoreBackup, TypeInv
  <2>5. tx'.kind = "restore" /\ tx'.plan = s /\ tx'.before = store /\ tx'.target = target
    BY <2>3
  <2>6. s \in Seq(Change) /\ PlanOf(tx')
    BY <2>2, <2>5, RestorePlanned DEF StoreInv
  <2> QED  BY <1>1, <1>2, <2>1, <2>2, <2>3, <2>4, <2>6 DEF Begun, RestoreBackup, Begin, TxBegin
<1> QED  BY <1>3, <1>4 DEF TxBegin

-----------------------------------------------------------------------------
(* Types and plans.                                                        *)

\* What the next step deletes or updates is stored as it was before the plan.
LEMMA CurrentStored ==
  ASSUME TypeInv, PlanInv, PlaceInv, StoreInv, Applying, Current.act # "create"
  PROVE  /\ Current.id \in Ids /\ store[Current.id] = Current.before /\ Current.before \in Record
         /\ \A i \in Done(tx) : ~ About(tx, i, Current.id)
<1>1. /\ Current.id \in Ids /\ Current.act # "create"
      /\ Current.before = tx.before[Current.id] /\ Current.before \in Record
  BY CurrentFits
<1>2. /\ tx # None /\ tx.phase = "apply" /\ Place \in DOMAIN tx.plan /\ Current = tx.plan[Place]
      /\ Place = tx.next /\ tx \in Transaction
  BY PlaceFits DEF Applying
<1>3. ASSUME NEW i \in Done(tx) PROVE ~ About(tx, i, Current.id)
  <2>1. i \in DOMAIN tx.plan /\ i < Place
    BY <1>2 DEF Done, Transaction
  <2> QED  BY <1>1, <1>2, <2>1 DEF PlanInv, PlanOf, StepsOrdered, About
<1>4. StoredAt(tx, Current.id) /\ tx.clean
  BY <1>1, <1>2 DEF StoreInv, PlaceInv
<1> QED  BY <1>1, <1>2, <1>3, <1>4 DEF StoredAt, InPlace

\* A tunnel that is waited for is stored as the plan has it.
LEMMA WaitStored ==
  ASSUME TypeInv, PlanInv, PlaceInv, StoreInv, Waiting
  PROVE  Current.id \in Ids /\ store[Current.id] = Current.after /\ Current.after \in Record
<1>1. store = tx.target
  BY DEF Waiting, StoreInv
<1>2. Place \in Written(tx) /\ Current = tx.plan[Place]
  BY PlaceFits
<1> QED  BY <1>1, <1>2, CurrentFits DEF Written

LEMMA InFlightStored ==
  ASSUME TypeInv, PlanInv, PlaceInv, StoreInv, NEW id \in InFlight
  PROVE  id \in Ids /\ store[id] # None
<1>1. CASE tx = None
  BY <1>1 DEF InFlight, Stored
<1>2. CASE Waiting /\ tx # None /\ id = Current.id
  BY <1>2, WaitStored, NoneApart
<1>3. CASE Applying /\ NeedsRemoval(Current) /\ tx # None /\ id = Current.id
  BY <1>3, CurrentStored, NoneApart DEF NeedsRemoval
<1> QED  BY <1>1, <1>2, <1>3 DEF InFlight

LEMMA PlanSame ==
  ASSUME NEW t, NEW u, PlanOf(t),
         u.kind = t.kind, u.plan = t.plan, u.before = t.before, u.target = t.target
  PROVE  PlanOf(u)
BY DEF PlanOf, StepsFit, StepsOrdered, StepsCover

\* What a call fails with is one of the failures that are left.
LEMMA CountsKept ==
  ASSUME TypeInv, PlanInv, PlaceInv,
         TxStep \/ (\E id \in Ids : LoopReconcile(id)) \/ Tick \/ Crash \/ UNCHANGED vars
  PROVE  used' \subseteq Ids /\ lost' \in BOOLEAN /\ txs' \in Nat /\ faults' \in Nat /\ crashes' \in Nat
<1> DEFINE Counts == txs' \in Nat /\ faults' \in Nat /\ crashes' \in Nat
<1>1. UNCHANGED budget \/ Fault => Counts
  BY DEF TypeInv, budget, Fault
<1>2. CASE ApplyRemoved \/ ApplyRemoveFails \/ ApplyStored
  BY <1>1, <1>2 DEF TypeInv, ApplyRemoved, ApplyRemoveFails, ApplyStored
<1>3. CASE ApplyRefused
  <2>1. lost' \in BOOLEAN
    <3>1. Current.act \in {"delete", "update", "create"}
      BY <1>3, CurrentFits DEF ApplyRefused, Ready
    <3> QED  BY <1>3, <3>1 DEF TypeInv, ApplyRefused, ApplyRepaired
  <2> QED  BY <1>1, <1>3, <2>1 DEF TypeInv, ApplyRefused
<1>4. CASE UndoStored \/ UndoRefused \/ UndoDone
  BY <1>1, <1>4 DEF TypeInv, UndoStored, UndoRefused, UndoDone
<1>5. CASE \E wait \in BOOLEAN : Conclude(wait)
  BY <1>1, <1>5 DEF TypeInv, Conclude
<1>6. CASE WaitReconcile \/ WaitDone \/ ViewFails \/ Answer
  BY <1>1, <1>6 DEF TypeInv, WaitReconcile, WaitDone, ViewFails, Answer, Reconciled, ReconcileFails, Unread
<1>7. CASE (\E id \in Ids : LoopReconcile(id)) \/ Tick
  BY <1>1, <1>7 DEF TypeInv, LoopReconcile, Tick, Reconciled, ReconcileFails, Unread
<1>8. CASE Crash
  <2>1. crashes' \in Nat
    BY <1>8 DEF TypeInv, Crash
  <2> QED  BY <1>8, <2>1 DEF TypeInv, Crash
<1>9. CASE UNCHANGED vars
  BY <1>9 DEF TypeInv, vars, budget
<1> QED  BY <1>2, <1>3, <1>4, <1>5, <1>6, <1>7, <1>8, <1>9 DEF TxStep

LEMMA TypeStep ==
  ASSUME TypeInv, PlanInv, PlaceInv, StoreInv, [Next]_vars
  PROVE  TypeInv' /\ PlanInv'
<1> DEFINE New == /\ store' \in Records /\ kern' \in [Ids -> SUBSET Object]
                  /\ stat' \in [Ids -> Phases] /\ queue' \subseteq Ids
           Quiet == TxStep \/ (\E id \in Ids : LoopReconcile(id)) \/ Tick \/ Crash \/ UNCHANGED vars
<1>1. CASE TxBegin
  BY <1>1, BeginsWell, NoneApart DEF TypeInv, Begun, Records, PlanInv
<1>2. ASSUME Quiet, New PROVE TypeInv' /\ PlanInv'
  <2>1. tx' # None => tx' \in Transaction /\ PlanOf(tx')
    <3>1. ASSUME tx' # None PROVE PlanOf(tx)
      BY <1>2, <3>1, Frame DEF PlanInv
    <3> QED  BY <1>2, <3>1, Frame, PlanSame
  <2> QED  BY <1>2, <2>1, CountsKept DEF TypeInv, PlanInv
<1> HIDE DEF New, Quiet
<1>3. CASE ApplyRemoved
  <2>1. Current.id \in Ids /\ Current.before \in Record
    BY <1>3, CurrentFits DEF ApplyRemoved, NeedsRemoval
  <2>2. Removed(kern[Current.id], Current.before) \in SUBSET Object
    <3>1. kern[Current.id] \in SUBSET Object
      BY <2>1 DEF TypeInv
    <3> QED  BY <2>1, <3>1, ObjectTypes
  <2>3. New
    BY <1>3, <2>1, <2>2 DEF New, TypeInv, ApplyRemoved, Report, Phases
  <2> QED  BY <1>2, <1>3, <2>3 DEF Quiet, TxStep
<1>4. CASE ApplyRemoveFails
  <2>1. Current.id \in Ids /\ Current.before \in Record
    BY <1>4, CurrentFits DEF ApplyRemoveFails, NeedsRemoval
  <2>2. Remains(kern[Current.id], Current.before) \subseteq SUBSET Object
    BY <2>1, ObjectTypes DEF TypeInv
  <2>3. New
    BY <1>4, <2>1, <2>2 DEF New, TypeInv, ApplyRemoveFails, Report, Phases
  <2> QED  BY <1>2, <1>4, <2>3 DEF Quiet, TxStep
<1>5. CASE ApplyStored
  <2>1. /\ Current.id \in Ids /\ Current.act \in {"delete", "update", "create"}
        /\ Current.act # "delete" => Current.after \in Record
    BY <1>5, CurrentFits DEF ApplyStored, Ready
  <2>2. New
    BY <1>5, <2>1 DEF New, TypeInv, Records, ApplyStored, Put, Report, Phases
  <2> QED  BY <1>2, <1>5, <2>2 DEF Quiet, TxStep
<1>6. CASE ApplyRefused
  <2>1. /\ Current.id \in Ids /\ Current.act \in {"delete", "update", "create"}
        /\ Current.act # "create" => Current.before \in Record
    BY <1>6, CurrentFits DEF ApplyRefused, Ready
  <2>2. Current.act = "delete" =>
          /\ Remains(kern[Current.id], Current.before) \subseteq SUBSET Object
          /\ Applied(kern[Current.id], Current.before) \in SUBSET Object
    BY <2>1, ObjectTypes DEF TypeInv
  <2>3. kern' \in [Ids -> SUBSET Object] /\ stat' \in [Ids -> Phases] /\ queue' \subseteq Ids
    <3>1. CASE Current.act = "delete"
      BY <1>6, <2>1, <2>2, <3>1 DEF TypeInv, ApplyRefused, ApplyRepaired, Report, Phases
    <3>2. CASE Current.act # "delete"
      BY <1>6, <2>1, <3>2 DEF TypeInv, ApplyRefused, ApplyRepaired
    <3> QED  BY <3>1, <3>2
  <2>4. New
    BY <1>6, <2>3 DEF New, TypeInv, ApplyRefused
  <2> QED  BY <1>2, <1>6, <2>4 DEF Quiet, TxStep
<1>7. CASE UndoStored
  <2>1. /\ Current.id \in Ids /\ Current.act \in {"delete", "update", "create"}
        /\ Current.act # "create" => Current.before \in Record
    BY <1>7, CurrentFits DEF UndoStored
  <2>2. Current.act = "update" => PrepareUpdate(Current.before, store[Current.id]) \in Record
    <3>1. Current.act = "update" => store[Current.id] \in Record
      BY <1>7, <2>1 DEF UndoStored, UndoAccepted, TypeInv, Records
    <3> QED  BY <2>1, <3>1, PreparedTypes
  <2>3. New
    BY <1>7, <2>1, <2>2 DEF New, TypeInv, Records, UndoStored, Undone, Put, Report, Phases
  <2> QED  BY <1>2, <1>7, <2>3 DEF Quiet, TxStep
<1>8. CASE UndoRefused \/ UndoDone
  BY <1>2, <1>8 DEF Quiet, TxStep, New, TypeInv, UndoRefused, UndoDone
<1>9. CASE \E wait \in BOOLEAN : Conclude(wait)
  <2>1. \A i \in DOMAIN tx.plan : tx.plan[i].id \in Ids
    <3>1. tx.plan \in Seq(Change)
      BY <1>9 DEF Conclude, TypeInv, Transaction
    <3>2. \A i \in DOMAIN tx.plan : tx.plan[i] \in Change
      BY <3>1
    <3> QED  BY <3>2 DEF Change
  <2>2. New
    BY <1>9, <2>1 DEF New, TypeInv, Conclude, Written, Phases
  <2> QED  BY <1>2, <1>9, <2>2 DEF Quiet, TxStep
<1>10. ASSUME NEW id \in Ids, store[id] # None, Reconciled(id) \/ ReconcileFails(id) \/ Unread
       PROVE  kern' \in [Ids -> SUBSET Object] /\ stat' \in [Ids -> Phases]
  <2>1. store[id] \in Record
    BY <1>10 DEF TypeInv, Records
  <2>2. Applied(kern[id], store[id]) \in SUBSET Object /\ Remains(kern[id], store[id]) \subseteq SUBSET Object
    BY <2>1, ObjectTypes DEF TypeInv
  <2> QED  BY <1>10, <2>2 DEF TypeInv, Reconciled, ReconcileFails, Unread, Report, Phases
<1>11. CASE WaitReconcile
  <2>1. Current.id \in Ids /\ store[Current.id] # None
    BY <1>11, WaitStored, NoneApart DEF WaitReconcile
  <2>2. New
    BY <1>10, <1>11, <2>1 DEF New, TypeInv, WaitReconcile
  <2> QED  BY <1>2, <1>11, <2>2 DEF Quiet, TxStep
<1>12. CASE WaitDone \/ ViewFails \/ Answer
  BY <1>2, <1>12 DEF Quiet, TxStep, New, TypeInv, WaitDone, ViewFails, Answer
<1>13. CASE \E id \in Ids : LoopReconcile(id)
  <2>1. New
    BY <1>10, <1>13 DEF New, TypeInv, LoopReconcile
  <2> QED  BY <1>2, <1>13, <2>1 DEF Quiet
<1>14. CASE Tick
  BY <1>2, <1>14 DEF Quiet, New, TypeInv, Tick, Stored
<1>15. CASE Crash
  <2>1. ASSUME NEW id \in Ids PROVE CrashRemains(id) \subseteq SUBSET Object
    <3>1. id \in InFlight => store[id] \in Record
      BY InFlightStored DEF TypeInv, Records
    <3>2. kern[id] \in SUBSET Object
      BY DEF TypeInv
    <3>3. CASE id \in InFlight
      <4>1. Remains(kern[id], store[id]) \subseteq SUBSET Object
        BY <3>1, <3>2, <3>3, ObjectTypes
      <4> QED  BY <3>3, <4>1 DEF CrashRemains
    <3>4. CASE id \notin InFlight
      BY <3>2, <3>4 DEF CrashRemains
    <3> QED  BY <3>3, <3>4
  <2>2. kern' \in [Ids -> SUBSET Object]
    BY <1>15, <2>1 DEF Crash
  <2> QED  BY <1>2, <1>15, <2>2 DEF Quiet, New, TypeInv, Crash, Stored, Phases
<1>16. CASE UNCHANGED vars
  BY <1>2, <1>16 DEF Quiet, New, TypeInv, vars
<1> QED  BY <1>1, <1>3, <1>4, <1>5, <1>6, <1>7, <1>8, <1>9, <1>11, <1>12, <1>13, <1>14, <1>15, <1>16
         DEF Next, TxStep

-----------------------------------------------------------------------------
(* The way through a plan and back.                                        *)

\* A bundle goes back from its last change; a deletion is undone when no writing
\* that is in place is left.
LEMMA WayBack ==
  ASSUME TypeInv, PlanInv, PlaceInv, Undoing
  PROVE  /\ tx.kind = "bundle" => \A i \in tx.left : i <= Place
         /\ ~ Writes(tx, Place) => \A i \in tx.left : ~ Writes(tx, i)
<1>1. /\ tx \in Transaction /\ tx # None /\ tx.phase = "undo" /\ Place \in tx.left
      /\ Place = UndoNext(tx)
  BY PlaceFits DEF Undoing, Place
<1>2. /\ Len(tx.plan) \in Nat /\ DOMAIN tx.plan = 1..Len(tx.plan) /\ tx.left \subseteq DOMAIN tx.plan
      /\ StepsOrdered(tx) /\ tx.plan \in Seq(Change)
  BY <1>1 DEF PlaceInv, Transaction, Done, PlanInv, PlanOf
<1>3. ASSUME NEW S \in SUBSET tx.left, S # {} PROVE Max(S) \in S /\ \A i \in S : i <= Max(S)
  BY <1>2, <1>3, Extremes
<1>4. CASE tx.kind = "bundle"
  <2>1. \A i \in tx.left : i <= Place
    BY <1>1, <1>3, <1>4 DEF UndoNext
  <2>2. ASSUME ~ Writes(tx, Place), NEW i \in tx.left PROVE ~ Writes(tx, i)
    <3>1. i = Place \/ i < Place
      BY <1>2, <2>1, <1>1
    <3> QED  BY <1>1, <1>2, <2>2, <3>1 DEF StepsOrdered, Writes
  <2> QED  BY <2>1, <2>2
<1>5. CASE tx.kind # "bundle"
  <2>1. \A i \in tx.left : tx.plan[i] \in Change /\ tx.plan[i].act # "update"
    BY <1>2, <1>5 DEF StepsOrdered
  <2>2. \A i \in tx.left : Writes(tx, i) <=> tx.plan[i].act = "create"
    BY <2>1 DEF Writes, Change
  <2> DEFINE created == {i \in tx.left : tx.plan[i].act = "create"}
  <2>3. created # {} => Place \in created
    BY <1>1, <1>3, <1>5 DEF UndoNext
  <2> QED  BY <1>5, <2>2, <2>3
<1> QED  BY <1>4, <1>5

LEMMA PlaceStep ==
  ASSUME TypeInv, PlanInv, PlaceInv, StoreInv, [Next]_vars
  PROVE  PlaceInv'
<1>1. CASE TxBegin
  <2>1. Begun(tx')
    BY <1>1, BeginsWell
  <2>2. tx'.plan \in Seq(Change)
    BY <2>1 DEF Begun, Transaction
  <2> QED  BY <2>1, <2>2 DEF Begun, PlaceInv
<1> SUFFICES ASSUME tx # None, tx' # None, tx \in Transaction, ~ TxBegin PROVE PlaceInv'
  BY <1>1, Frame, NoneApart DEF PlaceInv, Next
<1>2. tx.next \in Nat \ {0} /\ Len(tx.plan) \in Nat /\ DOMAIN tx.plan = 1..Len(tx.plan)
  BY DEF Transaction
<1>3. CASE ApplyRemoved
  <2>1. Applying /\ NeedsRemoval(Current) /\ tx' = [tx EXCEPT !.removed = TRUE]
    BY <1>3 DEF ApplyRemoved
  <2>2. Applying' /\ Current' = Current
    BY <2>1 DEF Applying, Current, Place, Transaction
  <2>3. NeedsRemoval(Current)'
    BY <2>1, <2>2 DEF NeedsRemoval
  <2> QED  BY <2>1, <2>2, <2>3 DEF PlaceInv, Applying, Transaction
<1>4. CASE ApplyRemoveFails \/ ApplyRefused
  <2>1. Applying /\ Rollback
    BY <1>4 DEF ApplyRemoveFails, ApplyRefused, Ready
  <2>2. tx' = [tx EXCEPT !.phase = "undo", !.left = Done(tx), !.removed = FALSE, !.failed = TRUE,
                         !.undone = TRUE]
    BY <2>1 DEF Rollback, Undoable
  <2>3. Done(tx') = Done(tx) /\ \A i \in Done(tx) : 1 .. i \subseteq Done(tx)
    BY <1>2, <2>2 DEF Done, Transaction
  <2> QED  BY <2>1, <2>2, <2>3 DEF PlaceInv, Transaction
<1>5. CASE ApplyStored
  <2>1. Applying /\ tx' = [tx EXCEPT !.next = tx.next + 1, !.removed = FALSE]
    BY <1>5 DEF ApplyStored, Ready, Advance
  <2>2. tx.next + 1 <= Len(tx.plan) + 1
    BY <1>2, <2>1 DEF Applying
  <2> QED  BY <2>1, <2>2 DEF PlaceInv, Applying, Transaction
<1>6. CASE UndoStored \/ UndoRefused
  <2>1. /\ Undoing
        /\ \/ tx' = [tx EXCEPT !.left = tx.left \ {Place}]
           \/ tx' = [tx EXCEPT !.left = tx.left \ {Place}, !.clean = FALSE]
    BY <1>6 DEF UndoStored, UndoRefused
  <2>2. /\ tx.phase = "undo" /\ tx.undone /\ tx.failed /\ tx.left \subseteq Done(tx) /\ ~ tx.removed
        /\ tx.kind = "bundle" => \A i \in tx.left : 1 .. i \subseteq tx.left
        /\ \A i \in tx.left : Writes(tx, i) => \A j \in Done(tx) : ~ Writes(tx, j) => j \in tx.left
        /\ tx.next <= Len(tx.plan) + 1
    BY <2>1 DEF Undoing, PlaceInv, Applying
  <2>3. ASSUME tx.kind = "bundle", NEW i \in tx.left \ {Place} PROVE 1 .. i \subseteq tx.left \ {Place}
    <3>1. i <= Place /\ i # Place /\ i \in Nat /\ Place \in Nat
      BY <1>2, <2>1, <2>2, <2>3, WayBack, PlaceFits DEF Done
    <3> QED  BY <2>2, <2>3, <3>1
  <2>4. ASSUME NEW i \in tx.left \ {Place}, Writes(tx, i), NEW j \in Done(tx), ~ Writes(tx, j)
        PROVE  j \in tx.left \ {Place}
    BY <2>1, <2>2, <2>4, WayBack
  <2>5. /\ tx'.kind = tx.kind /\ tx'.phase = "undo" /\ tx'.plan = tx.plan /\ tx'.next = tx.next
        /\ tx'.left = tx.left \ {Place} /\ tx'.undone /\ tx'.failed /\ ~ tx'.removed
    BY <2>1, <2>2 DEF Transaction
  <2>6. Done(tx') = Done(tx) /\ \A i \in DOMAIN tx.plan : Writes(tx', i) <=> Writes(tx, i)
    BY <2>5 DEF Done, Writes
  <2>7. Done(tx) \subseteq DOMAIN tx.plan
    BY <1>2, <2>2 DEF Done
  <2> QED  BY <2>2, <2>3, <2>4, <2>5, <2>6, <2>7 DEF PlaceInv
<1>7. CASE UndoDone
  <2>1. tx' = [tx EXCEPT !.phase = "answer"] /\ ~ tx.removed
    BY <1>7 DEF UndoDone, PlaceInv, Applying
  <2> QED  BY <2>1 DEF PlaceInv, Transaction
<1>8. CASE \E wait \in BOOLEAN : Conclude(wait)
  <2>1. /\ \/ tx' = [tx EXCEPT !.phase = "wait", !.left = Written(tx)]
           \/ tx' = [tx EXCEPT !.phase = "answer"]
        /\ ~ tx.removed /\ tx.phase = "apply"
    BY <1>2, <1>8 DEF Conclude, PlaceInv, Applying
  <2>2. CASE tx' = [tx EXCEPT !.phase = "wait", !.left = Written(tx)]
    <3>1. /\ tx'.phase = "wait" /\ tx'.left = Written(tx) /\ tx'.plan = tx.plan /\ tx'.next = tx.next
          /\ tx'.undone = tx.undone /\ tx'.failed = tx.failed /\ tx'.removed = tx.removed
      BY <2>2 DEF Transaction
    <3>2. Written(tx') = Written(tx)
      BY <3>1 DEF Written
    <3> QED  BY <2>1, <3>1, <3>2 DEF PlaceInv
  <2>3. CASE tx' = [tx EXCEPT !.phase = "answer"]
    BY <2>1, <2>3 DEF PlaceInv, Transaction
  <2> QED  BY <2>1, <2>2, <2>3
<1>9. CASE WaitReconcile \/ WaitDone \/ ViewFails
  <2>1. /\ tx.phase \in {"wait", "answer"}
        /\ \/ tx.phase = "wait" /\ tx' = [tx EXCEPT !.left = tx.left \ {Place}]
           \/ tx' = [tx EXCEPT !.phase = "answer"]
           \/ tx.phase = "answer" /\ tx' = [tx EXCEPT !.failed = TRUE]
        /\ ~ tx.removed
    BY <1>9 DEF WaitReconcile, Waiting, WaitDone, ViewFails, PlaceInv, Applying
  <2>2. CASE tx.phase = "wait" /\ tx' = [tx EXCEPT !.left = tx.left \ {Place}]
    <3>1. tx'.phase = "wait" /\ tx'.left \subseteq tx.left /\ tx'.plan = tx.plan /\ tx'.next = tx.next
          /\ tx'.undone = tx.undone /\ tx'.failed = tx.failed /\ tx'.removed = tx.removed
      BY <2>2 DEF Transaction
    <3>2. Written(tx') = Written(tx)
      BY <3>1 DEF Written
    <3> QED  BY <2>1, <2>2, <3>1, <3>2 DEF PlaceInv
  <2>3. CASE tx' = [tx EXCEPT !.phase = "answer"]
    BY <2>1, <2>3 DEF PlaceInv, Transaction
  <2>4. CASE tx.phase = "answer" /\ tx' = [tx EXCEPT !.failed = TRUE]
    BY <2>1, <2>4 DEF PlaceInv, Transaction
  <2> QED  BY <2>1, <2>2, <2>3, <2>4
<1>10. CASE tx' = tx
  BY <1>10 DEF PlaceInv, Applying, NeedsRemoval, Current, Place, Done, Writes, Written, UndoNext
<1>11. CASE Answer \/ (\E id \in Ids : LoopReconcile(id)) \/ Tick \/ Crash \/ UNCHANGED vars
  BY <1>10, <1>11 DEF Answer, LoopReconcile, Tick, Crash, vars
<1> QED  BY <1>3, <1>4, <1>5, <1>6, <1>7, <1>8, <1>9, <1>11 DEF Next, TxStep

-----------------------------------------------------------------------------
(* The records.                                                            *)

\* What the store accepts keeps its records apart and within their number.
LEMMA ValidPut ==
  ASSUME TypeInv, ValidSet(store), NEW id \in Ids, NEW rec \in Record \cup {None},
         rec = None \/ CanCreate(id, rec) \/ CanUpdate(id, rec)
  PROVE  ValidSet([store EXCEPT ![id] = rec])
<1> DEFINE s == [store EXCEPT ![id] = rec]
           held == {i \in Ids : s[i] # None}
<1>1. store \in Records /\ s \in Records /\ \A i \in Ids : s[i] = IF i = id THEN rec ELSE store[i]
  BY DEF TypeInv, Records
<1>2. Stored \in SUBSET Ids /\ IsFiniteSet(Stored)
  BY FS_Subset, TransactionsAssumption DEF Stored
<1>3. Cardinality(Stored) \in Nat /\ Cardinality(Stored) <= MaxRecords /\ MaxRecords \in Nat
      /\ \A i, j \in Stored : i # j => store[i].table # store[j].table
  BY <1>2, FS_CardinalityType, TransactionsAssumption DEF ValidSet, Stored
<1>4. Cardinality(held) <= MaxRecords
  <2>1. CASE rec = None \/ CanUpdate(id, rec)
    <3>1. held \in SUBSET Stored
      BY <1>1, <2>1 DEF Stored, CanUpdate
    <3>2. Cardinality(held) <= Cardinality(Stored) /\ Cardinality(held) \in Nat
      <4> HIDE DEF held
      <4> QED  BY <1>2, <3>1, FS_Subset, FS_CardinalityType
    <3> QED  BY <1>3, <3>2
  <2>2. CASE rec # None /\ CanCreate(id, rec)
    <3>1. held = Stored \cup {id} /\ id \notin Stored /\ Cardinality(Stored) < MaxRecords
      BY <1>1, <2>2 DEF Stored, CanCreate
    <3>2. Cardinality(Stored \cup {id}) = Cardinality(Stored) + 1
      BY <1>2, <3>1, FS_AddElement
    <3> HIDE DEF held
    <3> QED  BY <1>3, <3>1, <3>2
  <2> QED  BY <2>1, <2>2
<1>5. ASSUME NEW i \in held, NEW j \in held, i # j PROVE s[i].table # s[j].table
  <2>1. rec # None => \A k \in Stored \ {id} : store[k].table # rec.table
    BY DEF CanCreate, CanUpdate, TableFree
  <2> QED  BY <1>1, <1>3, <1>5, <2>1 DEF Stored
<1> QED  BY <1>4, <1>5 DEF ValidSet

LEMMA BackRefl ==
  ASSUME NEW rec \in Record \cup {None}
  PROVE  Back(rec, rec)
BY DEF Back, Record

\* While a plan is undone, every table it needs is free, and there is room.
LEMMA UndoFits ==
  ASSUME TypeInv, PlanInv, PlaceInv, StoreInv, Undoing, tx.clean
  PROVE  UndoAccepted(Current)
<1> DEFINE c == Current
<1>1. /\ tx \in Transaction /\ tx # None /\ tx.phase = "undo" /\ Place \in tx.left /\ Place \in DOMAIN tx.plan
      /\ c = tx.plan[Place] /\ tx.left \subseteq Done(tx) /\ tx.next \in Nat
      /\ InPlace(tx) = tx.left
  BY PlaceFits DEF Undoing, PlaceInv, InPlace, Transaction
<1>2. /\ c.id \in Ids /\ c.act \in {"delete", "update", "create"}
      /\ c.before = tx.before[c.id] /\ c.after = tx.target[c.id]
      /\ c.act # "create" => c.before \in Record
      /\ c.act # "delete" => c.after \in Record
  BY CurrentFits
<1>3. /\ StepsFit(tx) /\ StepsOrdered(tx) /\ ValidSet(tx.before) /\ Apart(tx)
      /\ \A id \in Ids : StoredAt(tx, id)
  BY <1>1 DEF PlanInv, PlanOf, StoreInv
<1>4. Writes(tx, Place) => store[c.id] = c.after
  BY <1>1, <1>2, <1>3 DEF StoredAt, About
<1>5. ASSUME NEW id \in Ids, \A i \in tx.left : ~ About(tx, i, id) PROVE Back(tx.before[id], store[id])
  BY <1>1, <1>3, <1>5 DEF StoredAt
<1>6. /\ store \in Records /\ tx.before \in Records
      /\ \A i, j \in Ids : i # j /\ tx.before[i] # None /\ tx.before[j] # None =>
           tx.before[i].table # tx.before[j].table
  BY <1>1, <1>3 DEF TypeInv, Transaction, Records, ValidSet
<1> HIDE DEF c
<1>7. CASE c.act = "create"
  <2>1. store[c.id] = c.after
    BY <1>1, <1>4, <1>7 DEF Writes
  <2> QED  BY <1>2, <1>7, <2>1, NoneApart DEF UndoAccepted, CanDelete, c
<1>8. CASE c.act = "update"
  <2>1. store[c.id] = c.after /\ store[c.id] \in Record
    BY <1>1, <1>2, <1>4, <1>8 DEF Writes
  <2> DEFINE next == PrepareUpdate(c.before, store[c.id])
  <2>2. next.gen = store[c.id].gen + 1 /\ next.table = c.before.table
    BY <1>2, <1>8, <2>1, PreparedTypes
  <2>3. ASSUME NEW j \in Stored \ {c.id} PROVE store[j].table # c.before.table
    <3>1. j \in Ids /\ store[j] # None /\ StoredAt(tx, j)
      BY <1>3 DEF Stored
    <3>2. CASE \E i \in tx.left : About(tx, i, j) /\ Writes(tx, i)
      <4>1. PICK i \in tx.left : About(tx, i, j) /\ Writes(tx, i)
        BY <3>2
      <4>2. i \in Done(tx) /\ i \in DOMAIN tx.plan /\ store[j] = tx.plan[i].after
        BY <1>1, <1>3, <3>1, <4>1 DEF StoredAt, About, StepsFit, Done, PlaceInv, Transaction
      <4>3. i < Place
        <5>1. tx.kind = "bundle"
          BY <1>1, <1>3, <1>8 DEF StepsOrdered
        <5>2. i <= Place /\ i # Place /\ i \in Nat /\ Place \in Nat
          BY <1>1, <4>1, <5>1, WayBack DEF About, Done
        <5> QED  BY <5>2
      <4> QED  BY <1>1, <1>3, <1>8, <4>1, <4>2, <4>3 DEF Apart
    <3>3. CASE \A i \in tx.left : ~ About(tx, i, j)
      <4>1. Back(tx.before[j], store[j])
        BY <1>5, <3>1, <3>3
      <4> QED  BY <1>2, <1>6, <1>8, <3>1, <4>1, NoneApart DEF Back
    <3> QED  BY <1>1, <3>1, <3>2, <3>3 DEF StoredAt
  <2>4. TableFree(c.id, next)
    BY <2>2, <2>3 DEF TableFree
  <2> HIDE DEF next
  <2>5. CanUpdate(c.id, next) /\ store[c.id] # None
    BY <2>1, <2>2, <2>4, NoneApart DEF CanUpdate
  <2> QED  BY <1>8, <2>5 DEF UndoAccepted, c, next
<1>9. CASE c.act = "delete"
  <2>1. \A i \in tx.left : ~ Writes(tx, i)
    BY <1>1, <1>9, WayBack DEF Writes
  <2>2. ASSUME NEW j \in Ids, store[j] # None
        PROVE  j # c.id /\ tx.before[j] # None /\ store[j].table = tx.before[j].table
    <3>1. StoredAt(tx, j)
      BY <1>3
    <3>2. \A i \in tx.left : ~ About(tx, i, j)
      BY <1>1, <2>1, <2>2, <3>1 DEF StoredAt
    <3>3. Back(tx.before[j], store[j])
      BY <1>5, <3>2
    <3> QED  BY <1>1, <2>2, <3>2, <3>3 DEF Back, About
  <2> DEFINE held == {id \in Ids : tx.before[id] # None}
  <2>3. IsFiniteSet(held) /\ Cardinality(held) <= MaxRecords
    <3>1. held \in SUBSET Ids
      OBVIOUS
    <3>2. IsFiniteSet(held)
      BY <3>1, FS_Subset, TransactionsAssumption
    <3> QED  BY <1>3, <3>2 DEF ValidSet
  <2>4. c.id \in held /\ Stored \in SUBSET (held \ {c.id})
    BY <1>2, <1>9, <2>2, NoneApart DEF Stored
  <2>5. Cardinality(Stored) < MaxRecords
    <3> HIDE DEF held
    <3>1. IsFiniteSet(held \ {c.id}) /\ Cardinality(held \ {c.id}) = Cardinality(held) - 1
      BY <2>3, <2>4, FS_RemoveElement
    <3>2. Cardinality(Stored) <= Cardinality(held \ {c.id}) /\ IsFiniteSet(Stored)
      BY <2>4, <3>1, FS_Subset
    <3>3. Cardinality(Stored) \in Nat /\ Cardinality(held) \in Nat /\ MaxRecords \in Nat
      BY <2>3, <3>2, FS_CardinalityType, TransactionsAssumption
    <3> QED  BY <2>3, <3>1, <3>2, <3>3
  <2>6. TableFree(c.id, c.before)
    BY <1>2, <1>6, <1>9, <2>2, NoneApart DEF TableFree, Stored
  <2>7. store[c.id] = None
    BY <1>2, <2>2
  <2>8. CanCreate(c.id, c.before)
    BY <2>5, <2>6, <2>7 DEF CanCreate
  <2> QED  BY <1>9, <2>8 DEF UndoAccepted, c
<1> QED  BY <1>2, <1>7, <1>8, <1>9

\* The part of StoreInv that is about a transaction t.
StoreOf(t) ==
  /\ t.phase \in {"apply", "undo"} => Apart(t) /\ \A id \in Ids : StoredAt(t, id)
  /\ t.phase \in {"wait", "answer"} /\ ~ t.undone => store = t.target
  /\ t.phase = "wait" => ~ t.undone
  /\ t.phase = "answer" /\ t.undone /\ t.clean => \A id \in Ids : Back(t.before[id], store[id])

LEMMA StoreByTx == StoreInv <=> ValidSet(store) /\ (tx # None => StoreOf(tx))
BY DEF StoreInv, StoreOf

\* A step is put in place: what its tunnel and the others hold.
LEMMA AdvanceStores ==
  ASSUME TypeInv, PlanInv, PlaceInv, StoreInv, ApplyStored
  PROVE  ValidSet(store') /\ Apart(tx') /\ (\A id \in Ids : StoredAt(tx, id)') /\ tx'.phase = "apply"
<1> DEFINE c == Current
           v == IF c.act = "delete" THEN None ELSE c.after
           n == tx.next
<1>1. /\ tx \in Transaction /\ tx # None /\ tx.phase = "apply" /\ n \in DOMAIN tx.plan /\ n \in Nat \ {0}
      /\ c = tx.plan[n] /\ InPlace(tx) = 1 .. n - 1 /\ Done(tx) = 1 .. n - 1 /\ tx.clean
      /\ DOMAIN tx.plan \subseteq Nat
  BY PlaceFits DEF ApplyStored, Ready, Applying, InPlace, Done, PlaceInv, Transaction
<1>2. /\ c.id \in Ids /\ c.act \in {"delete", "update", "create"}
      /\ c.before = tx.before[c.id] /\ c.after = tx.target[c.id]
      /\ c.act # "create" => c.before \in Record
      /\ c.act # "delete" => c.after \in Record
  BY CurrentFits DEF ApplyStored, Ready
<1>3. /\ StepsFit(tx) /\ StepsOrdered(tx) /\ Apart(tx) /\ ValidSet(store)
      /\ \A id \in Ids : StoredAt(tx, id)
  BY <1>1 DEF PlanInv, PlanOf, StoreInv
<1>4. /\ store' = [store EXCEPT ![c.id] = v] /\ store \in Records
      /\ c.act = "update" => CanUpdate(c.id, c.after)
      /\ c.act = "create" => CanCreate(c.id, c.after)
  BY <1>2 DEF ApplyStored, Put, Accepted, TypeInv
<1>5. \A id \in Ids : store'[id] = IF id = c.id THEN v ELSE store[id]
  BY <1>4 DEF Records
<1>6. /\ tx'.plan = tx.plan /\ tx'.phase = "apply" /\ tx'.before = tx.before /\ tx'.target = tx.target
      /\ tx'.clean /\ tx'.next = n + 1
  BY <1>1 DEF ApplyStored, Advance, Transaction
<1>7. /\ Done(tx') = 1 .. n /\ InPlace(tx') = 1 .. n /\ n \in 1 .. n /\ 1 .. n - 1 \subseteq 1 .. n
      /\ \A i \in 1 .. n : i = n \/ (i \in 1 .. n - 1 /\ i < n)
      /\ 1 .. n \subseteq DOMAIN tx.plan
  <2>1. Done(tx') = 1 .. n
    BY <1>1, <1>6 DEF Done
  <2>2. DOMAIN tx.plan = 1 .. Len(tx.plan) /\ Len(tx.plan) \in Nat
    BY <1>1 DEF Transaction
  <2>3. InPlace(tx') = 1 .. n
    BY <1>6, <2>1 DEF InPlace
  <2>4. n \in 1 .. Len(tx.plan) /\ n \in Nat
    BY <1>1, <2>2
  <2> HIDE DEF n
  <2>5. /\ n \in 1 .. n /\ 1 .. n - 1 \subseteq 1 .. n /\ 1 .. n \subseteq 1 .. Len(tx.plan)
        /\ \A i \in 1 .. n : i = n \/ (i \in 1 .. n - 1 /\ i < n)
    BY <2>2, <2>4
  <2> QED  BY <2>1, <2>2, <2>3, <2>5
<1> HIDE DEF c, n
<1>8. ValidSet(store')
  BY <1>2, <1>3, <1>4, ValidPut DEF v
<1>9. Apart(tx')
  <2> SUFFICES ASSUME NEW i \in 1 .. n, NEW j \in DOMAIN tx.plan, i < j, tx.plan[i].act # "delete",
                      tx.plan[j].act = "update"
               PROVE  tx.plan[i].after.table # tx.plan[j].before.table
    BY <1>6, <1>7 DEF Apart, Writes
  <2>1. CASE i \in 1 .. n - 1
    BY <1>1, <1>3, <2>1 DEF Apart, Writes
  <2>2. CASE i = n
    <3> DEFINE d == tx.plan[j]
    <3>1. d.id \in Ids /\ d.before = tx.before[d.id] /\ d.before # None
      <4>1. d \in Change
        BY <1>1 DEF Transaction
      <4> QED  BY <1>3, <4>1 DEF StepsFit, Change
    <3>2. \A k \in 1 .. n - 1 : ~ About(tx, k, d.id)
      <4> SUFFICES ASSUME NEW k \in 1 .. n - 1 PROVE tx.plan[k].id # d.id
        BY DEF About
      <4>1. k \in DOMAIN tx.plan /\ k < j
        BY <1>1, <1>7, <2>2
      <4> QED  BY <1>3, <4>1 DEF StepsOrdered
    <3>3. store[d.id] = d.before
      BY <1>1, <1>3, <3>1, <3>2 DEF StoredAt
    <3>4. d.id # c.id
      BY <1>1, <1>3, <2>2 DEF StepsOrdered
    <3>5. TableFree(c.id, c.after)
      BY <1>1, <1>2, <1>4, <2>2 DEF CanCreate, CanUpdate
    <3> QED  BY <1>1, <2>2, <3>1, <3>3, <3>4, <3>5 DEF TableFree, Stored
  <2> QED  BY <1>7, <2>1, <2>2
<1>10. ASSUME NEW id \in Ids PROVE StoredAt(tx, id)'
  <2>0. StoredAt(tx, id)
    BY <1>3
  <2> SUFFICES /\ \A i \in 1 .. n : About(tx, i, id) /\ Writes(tx, i) => store'[id] = tx.target[id]
               /\ (\E i \in 1 .. n : About(tx, i, id))
                  /\ (\A i \in 1 .. n : About(tx, i, id) => ~ Writes(tx, i)) => store'[id] = None
               /\ (\A i \in 1 .. n : ~ About(tx, i, id)) => store'[id] = tx.before[id]
    BY <1>6, <1>7 DEF StoredAt, About, Writes
  <2>1. CASE id = c.id
    <3>1. About(tx, n, id) /\ (Writes(tx, n) <=> c.act # "delete")
      BY <1>1, <2>1 DEF About, Writes
    <3>2. ASSUME NEW i \in 1 .. n, About(tx, i, id), Writes(tx, i) PROVE i = n
      BY <1>1, <1>3, <1>7, <2>1, <3>2 DEF StepsOrdered, About, Writes
    <3> QED  BY <1>2, <1>5, <1>7, <2>1, <3>1, <3>2 DEF v
  <2>2. CASE id # c.id
    <3>1. ~ About(tx, n, id) /\ store'[id] = store[id]
      BY <1>1, <1>5, <2>2 DEF About
    <3> QED  BY <1>1, <1>7, <2>0, <3>1 DEF StoredAt
  <2> QED  BY <2>1, <2>2
<1> QED  BY <1>6, <1>8, <1>9, <1>10

\* A step is undone, or its undoing is refused.
LEMMA UndoStores ==
  ASSUME TypeInv, PlanInv, PlaceInv, StoreInv, UndoStored
  PROVE  ValidSet(store') /\ StoreOf(tx)'
<1> DEFINE c == Current
           v == CASE c.act = "delete" -> c.before
                  [] c.act = "update" -> PrepareUpdate(c.before, store[c.id])
                  [] c.act = "create" -> None
<1>1. /\ tx \in Transaction /\ tx # None /\ tx.phase = "undo" /\ Place \in tx.left /\ Place \in DOMAIN tx.plan
      /\ c = tx.plan[Place] /\ tx.left \subseteq Done(tx) /\ Done(tx) \subseteq DOMAIN tx.plan
      /\ DOMAIN tx.plan \subseteq Nat /\ InPlace(tx) = tx.left /\ Undoing
  <2>1. tx \in Transaction /\ tx.phase = "undo" /\ tx # None /\ Undoing
    BY PlaceFits DEF UndoStored, Undoing
  <2>2. Done(tx) \subseteq DOMAIN tx.plan /\ DOMAIN tx.plan \subseteq Nat
    BY <2>1 DEF PlaceInv, Done, Transaction
  <2> QED  BY <2>1, <2>2, PlaceFits DEF PlaceInv, InPlace
<1>2. /\ c.id \in Ids /\ c.act \in {"delete", "update", "create"}
      /\ c.before = tx.before[c.id] /\ c.after = tx.target[c.id]
      /\ c.act # "create" => c.before \in Record
      /\ c.act # "delete" => c.after \in Record
      /\ c.act = "update" => c.after.gen >= c.before.gen
  BY <1>1, CurrentFits
<1>3. /\ StepsFit(tx) /\ StepsOrdered(tx) /\ Apart(tx) /\ ValidSet(store)
      /\ \A id \in Ids : StoredAt(tx, id)
  BY <1>1 DEF PlanInv, PlanOf, StoreInv
<1>4. store' = [store EXCEPT ![c.id] = v] /\ UndoAccepted(c)
  BY <1>2 DEF UndoStored, Undone, Put
<1>5. \A id \in Ids : store'[id] = IF id = c.id THEN v ELSE store[id]
  <2> HIDE DEF v
  <2> QED  BY <1>4 DEF TypeInv, Records
<1>6. /\ tx'.plan = tx.plan /\ tx'.phase = "undo" /\ tx'.before = tx.before /\ tx'.target = tx.target
      /\ tx'.clean = tx.clean /\ tx'.next = tx.next /\ tx'.left = tx.left \ {Place}
  BY <1>1 DEF UndoStored, Transaction
<1>7. InPlace(tx') = tx.left \ {Place} /\ Done(tx') = Done(tx)
  BY <1>6 DEF InPlace, Done
<1> HIDE DEF c
<1>8. c.act = "update" =>
        /\ store[c.id] = c.after /\ v \in Record /\ v.table = c.before.table /\ v.gen = c.after.gen + 1
        /\ v.psk = c.before.psk \/ c.before.psk = Empty
  <2> SUFFICES ASSUME c.act = "update"
               PROVE  /\ store[c.id] = c.after /\ v \in Record /\ v.table = c.before.table
                      /\ v.gen = c.after.gen + 1
                      /\ v.psk = c.before.psk \/ c.before.psk = Empty
    OBVIOUS
  <2>1. store[c.id] = c.after
    BY <1>1, <1>2, <1>3 DEF StoredAt, About, Writes
  <2>2. v = PrepareUpdate(c.before, c.after)
    BY <2>1
  <2>3. c.before.psk # Clear
    BY <1>2, TransactionsAssumption DEF Record
  <2> HIDE DEF v
  <2> QED  BY <1>2, <2>1, <2>2, <2>3, PreparedTypes DEF PrepareUpdate, Merged
<1>9. v \in Record \cup {None} /\ (v = None \/ CanCreate(c.id, v) \/ CanUpdate(c.id, v))
  BY <1>2, <1>4, <1>8 DEF UndoAccepted
<1>10. c.act # "create" \/ c.before = None => Back(c.before, v)
  <2>1. CASE c.act = "delete"
    BY <1>2, <2>1, BackRefl
  <2>2. CASE c.act = "update"
    <3>1. c.before.gen \in Nat /\ c.after.gen \in Nat /\ c.before # None /\ v # None
      BY <1>2, <1>8, <2>2, NoneApart DEF Record
    <3> HIDE DEF v
    <3> QED  BY <1>2, <1>8, <2>2, <3>1 DEF Back
  <2>3. CASE c.act = "create" /\ c.before = None
    BY <2>3 DEF Back
  <2> QED  BY <1>2, <2>1, <2>2, <2>3
<1>11. c.act = "create" => v = None
  OBVIOUS
<1> HIDE DEF v
<1>12. ValidSet(store')
  BY <1>2, <1>3, <1>4, <1>9, ValidPut
\* Another step in place that is about the same tunnel is its deletion.
<1>13. ASSUME NEW i \in tx.left \ {Place}, About(tx, i, c.id)
       PROVE  ~ Writes(tx, i) /\ c.act = "create"
  <2>1. i \in DOMAIN tx.plan /\ i # Place
    BY <1>1
  <2>2. CASE i < Place
    BY <1>1, <1>3, <1>13, <2>1, <2>2 DEF StepsOrdered, About, Writes
  <2>3. CASE Place < i
    <3>1. c.act = "delete" /\ tx.plan[i].act = "create"
      BY <1>1, <1>3, <1>13, <2>1, <2>3 DEF StepsOrdered, About
    <3> QED  BY <1>1, <3>1, WayBack DEF Writes
  <2> QED  BY <1>1, <2>1, <2>2, <2>3
<1>14. ASSUME c.act = "create", c.before # None
       PROVE  \E i \in tx.left \ {Place} : About(tx, i, c.id)
  <2>1. PICK j \in 1 .. Place - 1 : tx.plan[j].id = c.id
    BY <1>1, <1>3, <1>14 DEF StepsOrdered
  <2>2. j \in Done(tx) /\ j \in DOMAIN tx.plan /\ j < Place
    <3>1. tx.next \in Nat /\ Place \in 1 .. tx.next - 1
      BY <1>1 DEF Done, Transaction
    <3>2. j \in Done(tx) /\ j < Place
      BY <2>1, <3>1 DEF Done
    <3> QED  BY <1>1, <3>2
  <2>3. ~ Writes(tx, j) /\ Writes(tx, Place)
    BY <1>1, <1>3, <1>14, <2>1, <2>2 DEF StepsOrdered, Writes
  <2>4. j \in tx.left
    BY <1>1, <2>2, <2>3 DEF PlaceInv
  <2> QED  BY <2>1, <2>2, <2>4 DEF About
<1>15. ASSUME NEW id \in Ids PROVE StoredAt(tx, id)'
  <2>0. StoredAt(tx, id)
    BY <1>3
  <2> SUFFICES
        /\ \A i \in tx.left \ {Place} : About(tx, i, id) /\ Writes(tx, i) => store'[id] = tx.target[id]
        /\ tx.clean /\ (\E i \in tx.left \ {Place} : About(tx, i, id))
                    /\ (\A i \in tx.left \ {Place} : About(tx, i, id) => ~ Writes(tx, i))
             => store'[id] = None
        /\ tx.clean /\ (\A i \in tx.left \ {Place} : ~ About(tx, i, id))
             => Back(tx.before[id], store'[id])
    BY <1>6, <1>7 DEF StoredAt, About, Writes
  <2>1. CASE id = c.id
    BY <1>2, <1>5, <1>10, <1>11, <1>13, <1>14, <2>1
  <2>2. CASE id # c.id
    <3>1. ~ About(tx, Place, id) /\ store'[id] = store[id]
      BY <1>1, <1>5, <2>2 DEF About
    <3> QED  BY <1>1, <2>0, <3>1 DEF StoredAt
  <2> QED  BY <2>1, <2>2
<1>16. Apart(tx')
  BY <1>3, <1>6, <1>7 DEF Apart, Writes
<1> QED  BY <1>6, <1>12, <1>15, <1>16 DEF StoreOf

LEMMA StoreStep ==
  ASSUME TypeInv, PlanInv, PlaceInv, StoreInv, [Next]_vars
  PROVE  StoreInv'
<1>1. CASE TxBegin
  <2>1. Begun(tx') /\ store' = store
    BY <1>1, BeginsWell
  <2>2. InPlace(tx') = {} /\ Done(tx') = {}
    BY <2>1 DEF Begun, InPlace, Done
  <2> QED  BY <2>1, <2>2 DEF Begun, StoreInv, StoredAt, Apart
<1>2. CASE tx' = None /\ store' = store
  BY <1>2 DEF StoreInv
<1> SUFFICES ASSUME tx # None, tx \in Transaction, ~ TxBegin PROVE StoreInv'
  <2>1. ASSUME tx = None, ~ TxBegin PROVE tx' = None /\ store' = store
    BY <2>1 DEF Next, TxStep, LoopReconcile, Tick, Crash, vars, ApplyRemoved, ApplyRemoveFails,
       ApplyStored, ApplyRefused, UndoStored, UndoRefused, UndoDone, Conclude, WaitReconcile, WaitDone,
       ViewFails, Answer, Ready, Applying, Undoing, Waiting
  <2> QED  BY <1>1, <1>2, <2>1 DEF TypeInv
<1>3. CASE ApplyStored
  <2>1. ValidSet(store') /\ Apart(tx') /\ (\A id \in Ids : StoredAt(tx, id)') /\ tx'.phase = "apply"
    BY <1>3, AdvanceStores
  <2> QED  BY <2>1 DEF StoreInv
<1>4. CASE UndoStored
  <2>1. ValidSet(store') /\ StoreOf(tx)'
    BY <1>4, UndoStores
  <2> QED  BY <2>1 DEF StoreInv, StoreOf
<1>5. ASSUME store' = store, StoreOf(tx)' PROVE StoreInv'
  BY <1>5 DEF StoreInv, StoreOf
<1>6. CASE UndoRefused
  <2>1. /\ tx'.plan = tx.plan /\ tx'.phase = "undo" /\ tx'.target = tx.target /\ ~ tx'.clean
        /\ tx'.next = tx.next /\ tx'.left \subseteq tx.left /\ store' = store /\ tx.phase = "undo"
    BY <1>6 DEF UndoRefused, Undoing, Transaction
  <2>2. Apart(tx) /\ \A id \in Ids : StoredAt(tx, id)
    BY <2>1 DEF StoreInv
  <2>3. Apart(tx')
    BY <2>1, <2>2 DEF Apart, Done, Writes
  <2>4. ASSUME NEW id \in Ids PROVE StoredAt(tx, id)'
    BY <2>1, <2>2 DEF StoredAt, InPlace, About, Writes
  <2> QED  BY <1>5, <2>1, <2>3, <2>4 DEF StoreOf
<1>7. CASE ApplyRemoveFails \/ ApplyRefused
  <2>1. Applying /\ Rollback /\ store' = store
    BY <1>7 DEF ApplyRemoveFails, ApplyRefused, Ready
  <2>2. /\ tx.phase = "apply" /\ tx'.phase = "undo" /\ tx'.plan = tx.plan /\ tx'.target = tx.target
        /\ tx'.before = tx.before /\ tx'.next = tx.next /\ tx'.left = Done(tx) /\ tx.clean
    BY <2>1 DEF Rollback, Undoable, Transaction, Applying, PlaceInv
  <2>3. Apart(tx) /\ \A id \in Ids : StoredAt(tx, id)
    BY <2>2 DEF StoreInv
  <2>4. Apart(tx')
    BY <2>2, <2>3 DEF Apart, Done, Writes
  <2>5. \A id \in Ids : Back(tx.before[id], tx.before[id])
    BY BackRefl DEF Transaction
  <2>6. ASSUME NEW id \in Ids PROVE StoredAt(tx, id)'
    BY <2>1, <2>2, <2>3, <2>5 DEF StoredAt, InPlace, About, Writes
  <2> QED  BY <1>5, <2>1, <2>2, <2>4, <2>6 DEF StoreOf
<1>8. CASE UndoDone
  <2>1. /\ tx'.phase = "answer" /\ tx'.before = tx.before /\ tx'.clean = tx.clean /\ tx.left = {}
        /\ store' = store /\ tx.phase = "undo" /\ tx'.undone
    BY <1>8 DEF UndoDone, Transaction, PlaceInv
  <2>2. \A id \in Ids : StoredAt(tx, id)
    BY <2>1 DEF StoreInv
  <2>3. tx.clean => \A id \in Ids : Back(tx.before[id], store[id])
    BY <2>1, <2>2 DEF StoredAt, InPlace
  <2> QED  BY <1>5, <2>1, <2>3 DEF StoreOf
<1>9. CASE \E wait \in BOOLEAN : Conclude(wait)
  <2>1. /\ tx.phase = "apply" /\ tx.next > Len(tx.plan) /\ store' = store /\ ~ tx'.undone
        /\ tx'.phase \in {"wait", "answer"} /\ tx'.target = tx.target
    BY <1>9 DEF Conclude, Transaction, PlaceInv
  <2>2. /\ StepsFit(tx) /\ StepsOrdered(tx) /\ StepsCover(tx) /\ tx.clean
        /\ \A id \in Ids : StoredAt(tx, id)
    BY <2>1 DEF StoreInv, PlanInv, PlanOf, PlaceInv
  <2>3. InPlace(tx) = DOMAIN tx.plan
    BY <2>1 DEF InPlace, Done, Transaction, PlaceInv
  <2>4. ASSUME NEW id \in Ids PROVE store[id] = tx.target[id]
    <3>1. CASE \E i \in DOMAIN tx.plan : About(tx, i, id) /\ Writes(tx, i)
      BY <2>2, <2>3, <3>1 DEF StoredAt
    <3>2. CASE \A i \in DOMAIN tx.plan : ~ About(tx, i, id)
      BY <2>1, <2>2, <2>3, <3>2 DEF StoredAt, StepsCover, About
    <3>3. ASSUME NEW i \in DOMAIN tx.plan, About(tx, i, id),
                 \A j \in DOMAIN tx.plan : About(tx, j, id) => ~ Writes(tx, j)
          PROVE  store[id] = tx.target[id]
      <4>1. store[id] = None
        BY <2>2, <2>3, <3>3 DEF StoredAt
      <4>2. tx.plan[i].act = "delete" /\ tx.plan[i].after = tx.target[id]
        BY <2>2, <3>3 DEF StepsFit, About, Writes
      <4>3. tx.plan[i].after = None
        <5> SUFFICES ASSUME tx.plan[i].after # None PROVE FALSE
          OBVIOUS
        <5>1. PICK j \in DOMAIN tx.plan : j > i /\ tx.plan[j].id = id
          BY <2>2, <3>3, <4>2 DEF StepsOrdered, About
        <5>2. tx.plan[j].act = "create"
          BY <2>2, <3>3, <5>1 DEF StepsOrdered, About, Transaction
        <5> QED  BY <3>3, <5>1, <5>2 DEF About, Writes
      <4> QED  BY <4>1, <4>2, <4>3
    <3> QED  BY <3>1, <3>2, <3>3
  <2>5. store = tx.target
    BY <2>4 DEF TypeInv, Records, Transaction
  <2> QED  BY <1>5, <2>1, <2>5 DEF StoreOf
<1>10. CASE WaitReconcile \/ WaitDone \/ ViewFails
  <2>1. /\ tx.phase \in {"wait", "answer"} /\ tx'.phase \in {"wait", "answer"}
        /\ tx'.phase = "wait" => tx.phase = "wait"
        /\ tx.phase = "answer" => tx'.phase = "answer"
        /\ tx'.before = tx.before /\ tx'.target = tx.target /\ tx'.clean = tx.clean
        /\ tx'.undone = tx.undone /\ store' = store
    BY <1>10 DEF WaitReconcile, Waiting, WaitDone, ViewFails, Transaction
  <2> QED  BY <1>5, <2>1 DEF StoreOf, StoreInv
<1>11. CASE store' = store /\ tx'.plan = tx.plan /\ tx'.phase = tx.phase /\ tx'.next = tx.next
            /\ tx'.left = tx.left /\ tx'.before = tx.before /\ tx'.target = tx.target
            /\ tx'.clean = tx.clean /\ tx'.undone = tx.undone
  BY <1>11 DEF StoreInv, StoredAt, Apart, InPlace, Done, About, Writes
<1>12. CASE ApplyRemoved
  BY <1>11, <1>12 DEF ApplyRemoved, Transaction
<1>13. CASE Answer \/ (\E id \in Ids : LoopReconcile(id)) \/ Tick \/ Crash \/ UNCHANGED vars
  BY <1>2, <1>11, <1>13 DEF Answer, LoopReconcile, Tick, Crash, vars
<1> QED  BY <1>3, <1>4, <1>6, <1>7, <1>8, <1>9, <1>10, <1>12, <1>13 DEF Next, TxStep

-----------------------------------------------------------------------------
(* Kernel objects.                                                         *)

Fit(objs, rec) == \A o \in objs : o.table = rec.table

\* What is found by its table is removed as a whole.
LEMMA RemainsFit ==
  ASSUME NEW objs, NEW rec \in Record, Fit(objs, rec)
  PROVE  /\ Removed(objs, rec) = {} /\ Applied(objs, rec) = Objects(rec)
         /\ Fit(Applied(objs, rec), rec)
         /\ \A left \in Remains(objs, rec) : Fit(left, rec)
BY DEF Fit, Removed, Applied, Objects, Remains

NoOrphan(id) == IF store[id] = None THEN kern[id] = {} ELSE Fit(kern[id], store[id])

LEMMA OrphansById == NoOrphans <=> \A id \in Ids : NoOrphan(id)
BY DEF NoOrphans, NoOrphan, Fit

\* The reconciling of a stored tunnel installs what its record says, or leaves a part.
LEMMA ReconcileFits ==
  ASSUME TypeInv, NoOrphans, NEW id \in Ids, store[id] # None,
         Reconciled(id) \/ ReconcileFails(id) \/ Unread
  PROVE  /\ \A i \in Ids : i # id => kern'[i] = kern[i] /\ stat'[i] = stat[i]
         /\ Fit(kern'[id], store[id])
         /\ \/ kern'[id] = Objects(store[id]) /\ stat'[id] = "ready"
            \/ stat'[id] = "error"
            \/ Unread
<1>1. store[id] \in Record /\ Fit(kern[id], store[id])
  BY OrphansById DEF TypeInv, Records, NoOrphan
<1>2. /\ Fit(Applied(kern[id], store[id]), store[id])
      /\ Applied(kern[id], store[id]) = Objects(store[id])
      /\ \A left \in Remains(kern[id], store[id]) : Fit(left, store[id])
  BY <1>1, RemainsFit
<1>3. CASE Reconciled(id)
  BY <1>2, <1>3 DEF Reconciled, Report, TypeInv
<1>4. CASE ReconcileFails(id)
  BY <1>2, <1>4 DEF ReconcileFails, Report, TypeInv
<1>5. CASE Unread
  BY <1>1, <1>5 DEF Unread
<1> QED  BY <1>3, <1>4, <1>5

\* The parts of KernInv that are about a transaction t.
KernOf(t) ==
  t.phase \in {"apply", "undo"} =>
    \A i \in InPlace(t) : Writes(t, i) /\ Moved(t.plan[i]) => kern[t.plan[i].id] = {}

LEMMA KernSame ==
  ASSUME TypeInv, KernInv, NoOrphans',
         tx' # None => /\ tx # None /\ (tx'.removed => kern'[Current'.id] = {})
                       /\ tx'.phase \in {"apply", "undo"} =>
                            /\ tx.phase \in {"apply", "undo"} /\ InPlace(tx') \subseteq InPlace(tx)
                            /\ tx'.plan = tx.plan
                            /\ \A i \in InPlace(tx') :
                                 Writes(tx, i) => kern'[tx.plan[i].id] \subseteq kern[tx.plan[i].id]
  PROVE  KernInv'
<1> SUFFICES ASSUME tx' # None, tx'.phase \in {"apply", "undo"}, NEW i \in InPlace(tx'),
                    Writes(tx', i), Moved(tx'.plan[i])
             PROVE  kern'[tx'.plan[i].id] = {}
  BY DEF KernInv, Moved, NeedsRemoval, Writes, InPlace, Done
<1>1. i \in InPlace(tx) /\ Writes(tx, i) /\ Moved(tx.plan[i]) /\ tx # None
  BY DEF Writes
<1> QED  BY <1>1 DEF KernInv

LEMMA OrphanStep ==
  ASSUME TypeInv, PlanInv, PlaceInv, StoreInv, KernInv, [Next]_vars
  PROVE  NoOrphans'
<1>1. \A id \in Ids : NoOrphan(id)
  BY OrphansById DEF KernInv
<1>2. ASSUME \A id \in Ids : NoOrphan(id)' PROVE NoOrphans'
  BY <1>2 DEF NoOrphans, NoOrphan, Fit
<1>3. CASE UNCHANGED <<store, kern>>
  BY <1>3 DEF KernInv, NoOrphans
<1>4. ASSUME NEW id \in Ids, store' = store, store[id] # None,
             \A i \in Ids : i # id => kern'[i] = kern[i], Fit(kern'[id], store[id])
      PROVE  NoOrphans'
  <2>1. ASSUME NEW i \in Ids PROVE NoOrphan(i)'
    BY <1>1, <1>4 DEF NoOrphan
  <2> QED  BY <1>2, <2>1
<1>5. ASSUME NEW id \in Ids, NEW v \in Record \cup {None}, kern' = kern,
             store' = [store EXCEPT ![id] = v],
             IF v = None THEN kern[id] = {} ELSE Fit(kern[id], v)
      PROVE  NoOrphans'
  <2>1. \A i \in Ids : store'[i] = IF i = id THEN v ELSE store[i]
    BY <1>5 DEF TypeInv, Records
  <2>2. ASSUME NEW i \in Ids PROVE NoOrphan(i)'
    BY <1>1, <1>5, <2>1 DEF NoOrphan
  <2> QED  BY <1>2, <2>2
<1>6. CASE ApplyRemoved \/ ApplyRemoveFails
  <2>1. Applying /\ NeedsRemoval(Current)
    BY <1>6 DEF ApplyRemoved, ApplyRemoveFails
  <2>2. Current.id \in Ids /\ store[Current.id] = Current.before /\ Current.before \in Record
    BY <2>1, CurrentStored DEF NeedsRemoval
  <2>3. Fit(kern[Current.id], Current.before)
    BY <1>1, <2>2, NoneApart DEF NoOrphan
  <2>4. /\ Fit(Removed(kern[Current.id], Current.before), Current.before)
        /\ \A left \in Remains(kern[Current.id], Current.before) : Fit(left, Current.before)
    BY <2>2, <2>3, RemainsFit DEF Remains
  <2>5. CASE ApplyRemoved
    BY <1>4, <2>2, <2>4, <2>5, NoneApart DEF ApplyRemoved, TypeInv
  <2>6. CASE ApplyRemoveFails
    BY <1>3, <1>4, <2>2, <2>4, <2>6, NoneApart DEF ApplyRemoveFails, TypeInv
  <2> QED  BY <1>6, <2>5, <2>6
<1>7. CASE ApplyStored
  <2>1. Applying /\ (NeedsRemoval(Current) => tx.removed) /\ Accepted(Current) /\ tx # None
    BY <1>7 DEF ApplyStored, Ready, Applying
  <2>2. /\ Current.id \in Ids /\ Current.act \in {"delete", "update", "create"}
        /\ Current.act # "delete" => Current.after \in Record
    BY <2>1, CurrentFits
  <2>3. NeedsRemoval(Current) => kern[Current.id] = {}
    BY <2>1 DEF KernInv
  <2>4. Current.act = "create" => kern[Current.id] = {}
    BY <1>1, <2>1, <2>2 DEF Accepted, CanCreate, NoOrphan
  <2>5. ASSUME Current.act = "update", ~ NeedsRemoval(Current)
        PROVE  Fit(kern[Current.id], Current.after)
    <3>1. store[Current.id] = Current.before /\ Current.before \in Record
      BY <2>1, <2>5, CurrentStored
    <3>2. Current.before.table = Current.after.table
      BY <2>5 DEF NeedsRemoval, RequiresCleanup
    <3> QED  BY <1>1, <2>2, <3>1, <3>2, NoneApart DEF NoOrphan, Fit
  <2>6. CASE Current.act = "delete"
    BY <1>5, <1>7, <2>2, <2>3, <2>6 DEF ApplyStored, Put, NeedsRemoval
  <2>7. CASE Current.act # "delete"
    <3>1. Fit(kern[Current.id], Current.after)
      BY <2>2, <2>3, <2>4, <2>5, <2>7 DEF Fit
    <3> QED  BY <1>5, <1>7, <2>2, <2>7, <3>1, NoneApart DEF ApplyStored, Put
  <2> QED  BY <2>6, <2>7
<1>8. CASE ApplyRefused
  <2>1. Applying /\ store' = store
    BY <1>8 DEF ApplyRefused, Ready
  <2>2. Current.id \in Ids /\ Current.act \in {"delete", "update", "create"}
    BY <2>1, CurrentFits
  <2>3. CASE Current.act # "delete"
    BY <1>3, <1>8, <2>2, <2>3 DEF ApplyRefused, ApplyRepaired
  <2>4. CASE Current.act = "delete"
    <3>1. store[Current.id] = Current.before /\ Current.before \in Record
      BY <2>1, <2>4, CurrentStored
    <3>2. Fit(kern[Current.id], Current.before)
      BY <1>1, <2>2, <3>1, NoneApart DEF NoOrphan
    <3>3. /\ Fit(Applied(kern[Current.id], Current.before), Current.before)
          /\ \A left \in Remains(kern[Current.id], Current.before) : Fit(left, Current.before)
      BY <3>1, <3>2, RemainsFit
    <3>4. \/ kern' = kern
          \/ kern' = [kern EXCEPT ![Current.id] = Applied(@, Current.before)]
          \/ \E left \in Remains(kern[Current.id], Current.before) :
               kern' = [kern EXCEPT ![Current.id] = left]
      BY <1>8, <2>4 DEF ApplyRefused, ApplyRepaired
    <3> QED  BY <1>3, <1>4, <2>1, <2>2, <3>1, <3>3, <3>4, NoneApart DEF TypeInv
  <2> QED  BY <2>3, <2>4
<1>9. CASE UndoStored
  <2>1. Undoing /\ UndoAccepted(Current) /\ tx # None /\ tx.phase = "undo" /\ kern' = kern
    BY <1>9 DEF UndoStored, Undoing
  <2>2. /\ Current.id \in Ids /\ Current.act \in {"delete", "update", "create"}
        /\ Current.act # "create" => Current.before \in Record
        /\ Current.act # "delete" => Current.after \in Record
        /\ Current.after = tx.target[Current.id]
    BY <2>1, CurrentFits
  <2>3. Place \in InPlace(tx) /\ Current = tx.plan[Place]
    BY <2>1, PlaceFits DEF InPlace
  <2>4. Current.act # "delete" =>
          /\ store[Current.id] = Current.after
          /\ Moved(Current) => kern[Current.id] = {}
    <3>1. StoredAt(tx, Current.id)
      BY <2>1, <2>2 DEF StoreInv
    <3> QED  BY <2>1, <2>2, <2>3, <3>1 DEF StoredAt, About, Writes, KernInv
  <2>5. CASE Current.act = "delete"
    <3>1. kern[Current.id] = {}
      BY <1>1, <2>1, <2>2, <2>5 DEF UndoAccepted, CanCreate, NoOrphan
    <3> QED  BY <1>5, <1>9, <2>1, <2>2, <2>5, <3>1 DEF UndoStored, Undone, Put, Fit
  <2>6. CASE Current.act = "update"
    <3> DEFINE v == PrepareUpdate(Current.before, store[Current.id])
    <3>1. v \in Record /\ v.table = Current.before.table
      BY <2>2, <2>4, <2>6, PreparedTypes
    <3>2. Fit(kern[Current.id], v)
      <4>1. CASE Moved(Current)
        BY <2>4, <2>6, <4>1 DEF Fit
      <4>2. CASE ~ Moved(Current)
        <5>1. Current.before.table = Current.after.table
          BY <2>6, <4>2 DEF Moved, NeedsRemoval, RequiresCleanup
        <5>2. Fit(kern[Current.id], Current.after)
          BY <1>1, <2>2, <2>4, <2>6, NoneApart DEF NoOrphan
        <5> HIDE DEF v
        <5> QED  BY <3>1, <5>1, <5>2 DEF Fit
      <4> QED  BY <4>1, <4>2
    <3>3. store' = [store EXCEPT ![Current.id] = v]
      BY <1>9, <2>6 DEF UndoStored, Undone, Put
    <3> HIDE DEF v
    <3> QED  BY <1>5, <2>1, <2>2, <3>1, <3>2, <3>3, NoneApart
  <2>7. CASE Current.act = "create"
    <3>1. kern[Current.id] = {}
      BY <2>4, <2>7 DEF Moved
    <3> QED  BY <1>5, <1>9, <2>1, <2>2, <2>7, <3>1 DEF UndoStored, Put
  <2> QED  BY <2>2, <2>5, <2>6, <2>7
<1>10. CASE WaitReconcile
  <2>1. Waiting /\ store' = store
        /\ (Reconciled(Current.id) \/ ReconcileFails(Current.id) \/ Unread)
    BY <1>10 DEF WaitReconcile
  <2>2. Current.id \in Ids /\ store[Current.id] # None
    BY <2>1, WaitStored, NoneApart
  <2> QED  BY <1>4, <2>1, <2>2, ReconcileFits DEF KernInv
<1>11. CASE \E id \in Ids : LoopReconcile(id)
  <2>1. PICK id \in Ids : LoopReconcile(id)
    BY <1>11
  <2>2. CASE store[id] = None
    BY <1>3, <2>1, <2>2 DEF LoopReconcile
  <2>3. CASE store[id] # None
    <3>1. store' = store /\ (Reconciled(id) \/ ReconcileFails(id) \/ Unread)
      BY <2>1, <2>3 DEF LoopReconcile
    <3> QED  BY <1>4, <2>3, <3>1, ReconcileFits DEF KernInv
  <2> QED  BY <2>2, <2>3
<1>12. CASE Crash
  <2>1. ASSUME NEW id \in Ids PROVE NoOrphan(id)'
    <3>1. kern'[id] \in CrashRemains(id) /\ store' = store
      BY <1>12 DEF Crash
    <3>2. CASE id \in InFlight
      <4>1. store[id] \in Record
        BY <3>2, InFlightStored DEF TypeInv, Records
      <4>2. Fit(kern[id], store[id])
        BY <1>1, <4>1, NoneApart DEF NoOrphan
      <4>3. Fit(kern'[id], store[id])
        BY <3>1, <3>2, <4>1, <4>2, RemainsFit DEF CrashRemains
      <4> QED  BY <3>1, <4>1, <4>3, NoneApart DEF NoOrphan
    <3>3. CASE id \notin InFlight
      BY <1>1, <3>1, <3>3 DEF CrashRemains, NoOrphan
    <3> QED  BY <3>2, <3>3
  <2> QED  BY <1>2, <2>1
<1>13. CASE TxBegin
  BY <1>3, <1>13, BeginsWell
<1>14. CASE UndoRefused \/ UndoDone \/ (\E wait \in BOOLEAN : Conclude(wait)) \/ WaitDone \/ ViewFails
            \/ Answer \/ Tick \/ UNCHANGED vars
  BY <1>3, <1>14 DEF UndoRefused, UndoDone, Conclude, WaitDone, ViewFails, Answer, Tick, vars
<1> QED  BY <1>6, <1>7, <1>8, <1>9, <1>10, <1>11, <1>12, <1>13, <1>14 DEF Next, TxStep

LEMMA KernStep ==
  ASSUME TypeInv, PlanInv, PlaceInv, StoreInv, KernInv, [Next]_vars
  PROVE  KernInv'
<1>1. NoOrphans' /\ PlaceInv'
  BY OrphanStep, PlaceStep
<1>2. CASE TxBegin
  <2>1. Begun(tx')
    BY <1>2, BeginsWell
  <2>2. InPlace(tx') = {} /\ ~ tx'.removed
    BY <2>1 DEF Begun, InPlace, Done
  <2> QED  BY <1>1, <2>2 DEF KernInv
<1>3. CASE tx' = None
  BY <1>1, <1>3 DEF KernInv
<1> SUFFICES ASSUME tx # None, tx' # None, tx \in Transaction, ~ TxBegin PROVE KernInv'
  BY <1>2, <1>3, Frame DEF Next
<1>4. CASE ApplyRemoved
  <2>1. /\ Applying /\ NeedsRemoval(Current) /\ tx' = [tx EXCEPT !.removed = TRUE]
        /\ kern' = [kern EXCEPT ![Current.id] = Removed(kern[Current.id], Current.before)]
    BY <1>4 DEF ApplyRemoved
  <2>2. Current.id \in Ids /\ store[Current.id] = Current.before /\ Current.before \in Record
    BY <2>1, CurrentStored DEF NeedsRemoval
  <2>3. Removed(kern[Current.id], Current.before) = {}
    <3>1. Fit(kern[Current.id], Current.before)
      BY <2>2, NoneApart, OrphansById DEF KernInv, NoOrphan
    <3> QED  BY <2>2, <3>1, RemainsFit
  <2>4. Current' = Current /\ tx'.plan = tx.plan /\ InPlace(tx') = InPlace(tx) /\ tx'.phase = tx.phase
    BY <2>1 DEF Current, Place, Transaction, InPlace, Done, Applying
  <2>5. \A id \in Ids : kern'[id] \subseteq kern[id]
    BY <2>1, <2>2, <2>3 DEF TypeInv
  <2>6. kern'[Current'.id] = {}
    BY <2>1, <2>2, <2>3, <2>4 DEF TypeInv
  <2>7. \A i \in InPlace(tx') : tx.plan[i].id \in Ids
    <3>1. InPlace(tx') \subseteq DOMAIN tx.plan
      BY <2>1, <2>4 DEF InPlace, Done, PlaceInv, Transaction, Applying
    <3>2. \A i \in DOMAIN tx.plan : tx.plan[i] \in Change
      BY DEF Transaction
    <3> QED  BY <3>1, <3>2 DEF Change
  <2> QED  BY <1>1, <2>1, <2>4, <2>5, <2>6, <2>7, KernSame DEF Applying
<1>5. CASE ApplyRemoveFails \/ ApplyRefused
  <2>1. Applying /\ Rollback
    BY <1>5 DEF ApplyRemoveFails, ApplyRefused, Ready
  <2>2. /\ tx.phase = "apply" /\ tx'.phase = "undo" /\ tx'.plan = tx.plan /\ ~ tx'.removed
        /\ InPlace(tx') = InPlace(tx) /\ InPlace(tx) = Done(tx)
    BY <2>1 DEF Rollback, Undoable, Transaction, Applying, InPlace
  <2>3. Current.id \in Ids /\ Current.act \in {"delete", "update", "create"}
    BY <2>1, CurrentFits
  <2>4. CASE kern' = kern
    BY <1>1, <2>2, <2>4, KernSame
  <2>5. CASE Current.act # "create" /\ \A id \in Ids \ {Current.id} : kern'[id] = kern[id]
    <3>1. \A i \in Done(tx) : ~ About(tx, i, Current.id)
      BY <2>1, <2>5, CurrentStored
    <3>2. \A i \in Done(tx) : tx.plan[i].id \in Ids
      <4>1. Done(tx) \subseteq DOMAIN tx.plan
        BY <2>1 DEF Done, PlaceInv, Transaction
      <4>2. \A i \in DOMAIN tx.plan : tx.plan[i] \in Change
        BY DEF Transaction
      <4> QED  BY <4>1, <4>2 DEF Change
    <3>3. \A i \in InPlace(tx') : kern'[tx.plan[i].id] = kern[tx.plan[i].id]
      BY <2>2, <2>5, <3>1, <3>2 DEF About
    <3> QED  BY <1>1, <2>2, <3>3, KernSame
  <2>6. \/ kern' = kern
        \/ Current.act # "create" /\ \A id \in Ids \ {Current.id} : kern'[id] = kern[id]
    <3>1. CASE ApplyRemoveFails
      BY <2>3, <3>1 DEF ApplyRemoveFails, NeedsRemoval, TypeInv
    <3>2. CASE ApplyRefused
      BY <2>3, <3>2 DEF ApplyRefused, ApplyRepaired, TypeInv
    <3> QED  BY <1>5, <3>1, <3>2
  <2> QED  BY <2>4, <2>5, <2>6
<1>6. CASE ApplyStored
  <2>1. /\ Applying /\ (NeedsRemoval(Current) => tx.removed) /\ Accepted(Current) /\ kern' = kern
        /\ tx' = [tx EXCEPT !.next = tx.next + 1, !.removed = FALSE] /\ tx.phase = "apply"
    BY <1>6 DEF ApplyStored, Ready, Applying, Advance
  <2>2. /\ Current.id \in Ids /\ Current.act \in {"delete", "update", "create"}
        /\ Current = tx.plan[tx.next]
    BY <2>1, CurrentFits, PlaceFits
  <2>3. Moved(Current) => kern[Current.id] = {}
    <3>1. NeedsRemoval(Current) => kern[Current.id] = {}
      BY <2>1 DEF KernInv
    <3>2. Current.act = "create" => kern[Current.id] = {}
      BY <2>1, <2>2, OrphansById DEF Accepted, CanCreate, NoOrphan, KernInv
    <3> QED  BY <3>1, <3>2 DEF Moved
  <2>4. tx'.phase = "apply" /\ tx'.plan = tx.plan /\ ~ tx'.removed /\ tx'.next = tx.next + 1
    BY <2>1 DEF Transaction
  <2>5. \A i \in InPlace(tx') : i = tx.next \/ i \in InPlace(tx)
    BY <2>1, <2>4 DEF InPlace, Done, Transaction
  <2> SUFFICES ASSUME NEW i \in InPlace(tx'), Writes(tx', i), Moved(tx'.plan[i])
               PROVE  kern'[tx'.plan[i].id] = {}
    BY <1>1, <2>4 DEF KernInv, Moved, NeedsRemoval, Writes, InPlace, Done
  <2>6. Writes(tx, i) /\ Moved(tx.plan[i])
    BY <2>4 DEF Writes
  <2> QED  BY <2>1, <2>2, <2>3, <2>4, <2>5, <2>6 DEF KernInv
<1>7. CASE UndoStored \/ UndoRefused
  <2>1. /\ tx'.plan = tx.plan /\ tx'.phase = "undo" /\ tx.phase = "undo" /\ tx'.left \subseteq tx.left
        /\ tx'.removed = tx.removed /\ kern' = kern /\ ~ tx.removed
    BY <1>7 DEF UndoStored, UndoRefused, Undoing, Transaction, PlaceInv, Applying
  <2> QED  BY <1>1, <2>1, KernSame DEF InPlace
<1>8. CASE UndoDone \/ (\E wait \in BOOLEAN : Conclude(wait)) \/ WaitReconcile \/ WaitDone \/ ViewFails
  <2>1. ~ Applying
    BY <1>8 DEF UndoDone, Conclude, WaitReconcile, WaitDone, ViewFails, Applying, Waiting, Transaction
  <2>2. tx'.phase \in {"wait", "answer"} /\ tx'.removed = tx.removed /\ ~ tx.removed
    BY <1>8, <2>1 DEF UndoDone, Conclude, WaitReconcile, Waiting, WaitDone, ViewFails, Transaction, PlaceInv
  <2> QED  BY <1>1, <2>2, KernSame
<1>9. CASE Answer \/ (\E id \in Ids : LoopReconcile(id)) \/ Tick \/ Crash
  BY <1>9 DEF Answer, LoopReconcile, Tick, Crash
<1>10. CASE UNCHANGED vars
  <2>1. tx' = tx /\ kern' = kern /\ Current' = Current /\ InPlace(tx') = InPlace(tx)
    BY <1>10 DEF vars, Current, Place
  <2> QED  BY <1>1, <2>1, KernSame DEF KernInv
<1> QED  BY <1>4, <1>5, <1>6, <1>7, <1>8, <1>9, <1>10 DEF Next, TxStep

-----------------------------------------------------------------------------
(* Repair.                                                                 *)

LEMMA RepairStep ==
  ASSUME TypeInv, PlanInv, PlaceInv, StoreInv, KernInv, RepairInv, [Next]_vars
  PROVE  RepairInv'
<1> SUFFICES ASSUME ~ lost', NEW id \in Ids, store'[id] # None
             PROVE  Repaired(id)' \/ Owed(id)'
  BY DEF RepairInv, Stored
<1>1. ~ lost /\ store[id] # None => Repaired(id) \/ Owed(id)
  BY DEF RepairInv, Stored
<1>2. ASSUME store[id] # None, ~ lost, UNCHANGED <<store, kern, stat>>, queue \subseteq queue',
             Owed(id) => Owed(id)'
      PROVE  Repaired(id)' \/ Owed(id)'
  BY <1>1, <1>2 DEF Repaired
<1>3. CASE TxBegin
  <2>1. tx = None /\ UNCHANGED <<store, kern, stat, queue, lost>>
    BY <1>3, BeginsWell
  <2> QED  BY <1>2, <2>1 DEF Owed
<1>4. CASE ApplyRemoved
  <2>1. /\ Applying /\ NeedsRemoval(Current) /\ tx' = [tx EXCEPT !.removed = TRUE] /\ ~ tx.removed
        /\ UNCHANGED <<store, queue, lost>> /\ tx # None /\ tx \in Transaction
    BY <1>4, PlaceFits DEF ApplyRemoved, Applying
  <2>2. /\ Current' = Current /\ tx'.phase = "apply" /\ tx.phase = "apply" /\ tx'.removed /\ tx'.plan = tx.plan
        /\ InPlace(tx') = InPlace(tx) /\ tx' # None
    BY <2>1, Frame, NoneApart, <1>4 DEF TxStep, Current, Place, Transaction, InPlace, Done, Applying
  <2>3. CASE id = Current.id
    BY <2>2, <2>3 DEF Owed
  <2>4. CASE id # Current.id
    <3>1. kern'[id] = kern[id] /\ stat'[id] = stat[id]
      BY <1>4, <2>4 DEF ApplyRemoved, Report, TypeInv
    <3>2. Owed(id) => Owed(id)'
      BY <2>1, <2>2 DEF Owed, About, Writes
    <3> QED  BY <1>1, <2>1, <3>1, <3>2 DEF Repaired
  <2> QED  BY <2>3, <2>4
\* A step fails, and the others are undone.
<1>5. ASSUME Applying, Rollback
      PROVE  /\ tx' # None /\ tx # None /\ tx.phase = "apply" /\ tx'.phase = "undo"
             /\ ~ (tx.removed /\ Current.id = id) => (Owed(id) => Owed(id)')
  <2>1. tx \in Transaction /\ tx # None /\ tx.phase = "apply"
    BY <1>5, PlaceFits DEF Applying
  <2>2. tx' = [tx EXCEPT !.phase = "undo", !.left = Done(tx), !.removed = FALSE, !.failed = TRUE,
                         !.undone = TRUE]
    BY <1>5 DEF Rollback, Undoable
  <2>3. tx' # None
    <3>1. Done(tx) \subseteq Nat
      BY <2>1 DEF Done, Transaction
    <3>2. tx' \in Transaction
      BY <2>1, <2>2, <3>1 DEF Transaction
    <3> QED  BY <3>2, NoneApart
  <2>4. tx'.phase = "undo" /\ tx'.plan = tx.plan /\ InPlace(tx') = InPlace(tx)
    BY <2>1, <2>2 DEF Transaction, InPlace
  <2> QED  BY <2>1, <2>3, <2>4 DEF Owed, About, Writes
<1>6. CASE ApplyRemoveFails
  <2>1. Applying /\ Rollback /\ ~ tx.removed /\ UNCHANGED <<store, queue, lost>>
    BY <1>6 DEF ApplyRemoveFails
  <2>2. (kern'[id] = kern[id] /\ stat'[id] = stat[id]) \/ stat'[id] = "error"
    BY <1>6 DEF ApplyRemoveFails, Report, TypeInv
  <2> QED  BY <1>1, <1>5, <2>1, <2>2 DEF Repaired
<1>7. CASE ApplyStored
  <2>1. /\ Applying /\ UNCHANGED <<kern, queue, lost>> /\ tx # None /\ tx \in Transaction
        /\ tx.phase = "apply" /\ tx' = [tx EXCEPT !.next = tx.next + 1, !.removed = FALSE]
        /\ tx.next \in Nat \ {0}
    BY <1>7, PlaceFits DEF ApplyStored, Ready, Advance, Applying, Transaction
  <2>2. /\ Current.id \in Ids /\ Current.act \in {"delete", "update", "create"}
        /\ Current = tx.plan[tx.next]
    BY <2>1, CurrentFits, PlaceFits
  <2>3. tx'.phase = "apply" /\ tx'.plan = tx.plan /\ tx'.next = tx.next + 1 /\ tx' # None
    <3>1. tx'.phase = "apply" /\ tx'.plan = tx.plan /\ tx'.next = tx.next + 1
      BY <2>1 DEF Transaction
    <3> DEFINE n == tx.next + 1
    <3>2. n \in Nat \ {0} /\ tx' = [tx EXCEPT !.next = n, !.removed = FALSE]
      BY <2>1
    <3> HIDE DEF n
    <3>3. tx' \in Transaction
      BY <2>1, <3>2 DEF Transaction
    <3> QED  BY <3>1, <3>3, NoneApart
  <2>4. InPlace(tx) \subseteq InPlace(tx') /\ tx.next \in InPlace(tx')
    BY <2>1, <2>3 DEF InPlace, Done
  <2>5. CASE id = Current.id
    <3>1. Current.act # "delete"
      BY <1>7, <2>2, <2>5 DEF ApplyStored, Put, TypeInv, Records
    <3> QED  BY <2>2, <2>3, <2>4, <2>5, <3>1 DEF Owed, About, Writes
  <2>6. CASE id # Current.id
    <3>1. store'[id] = store[id] /\ stat'[id] = stat[id]
      BY <1>7, <2>2, <2>6 DEF ApplyStored, Put, Report, TypeInv, Records
    <3>2. Owed(id) => Owed(id)'
      BY <2>1, <2>3, <2>4, <2>6 DEF Owed, About, Writes
    <3> QED  BY <1>1, <2>1, <3>1, <3>2 DEF Repaired
  <2> QED  BY <2>5, <2>6
<1>8. CASE ApplyRefused
  <2>1. /\ Applying /\ Rollback /\ store' = store /\ ApplyRepaired(Current) /\ tx # None
        /\ tx.removed => NeedsRemoval(Current)
    BY <1>8 DEF ApplyRefused, Ready, Applying, PlaceInv
  <2>2. /\ Current.id \in Ids /\ Current.act \in {"delete", "update", "create"}
    BY <2>1, CurrentFits
  <2>3. CASE Current.act = "delete"
    <3>1. store[Current.id] = Current.before /\ Current.before \in Record
      BY <2>1, <2>3, CurrentStored
    <3>2. Applied(kern[Current.id], Current.before) = Objects(Current.before)
      <4>1. Fit(kern[Current.id], Current.before)
        BY <2>2, <3>1, NoneApart, OrphansById DEF KernInv, NoOrphan
      <4> QED  BY <3>1, <4>1, RemainsFit
    <3>3. /\ ~ lost /\ queue' = queue
          /\ \/ kern' = [kern EXCEPT ![Current.id] = Applied(kern[Current.id], Current.before)]
                /\ stat' = [stat EXCEPT ![Current.id] = "ready"]
             \/ \E left \in Remains(kern[Current.id], Current.before) :
                  /\ kern' = [kern EXCEPT ![Current.id] = left]
                  /\ stat' = [stat EXCEPT ![Current.id] = "error"]
      BY <2>1, <2>3 DEF ApplyRepaired, Report, TypeInv
    <3>4. CASE id = Current.id
      BY <2>1, <3>1, <3>2, <3>3, <3>4 DEF Repaired, TypeInv
    <3>5. CASE id # Current.id
      <4>1. kern'[id] = kern[id] /\ stat'[id] = stat[id]
        BY <3>3, <3>5 DEF TypeInv
      <4> QED  BY <1>1, <1>5, <2>1, <3>3, <3>5, <4>1 DEF Repaired
    <3> QED  BY <3>4, <3>5
  <2>4. CASE Current.act # "delete"
    <3>1. /\ UNCHANGED <<kern, stat, lost>> /\ queue \subseteq queue'
          /\ tx.removed => Current.id \in queue'
      BY <2>1, <2>2, <2>4 DEF ApplyRepaired, NeedsRemoval
    <3> QED  BY <1>1, <1>5, <2>1, <3>1 DEF Repaired
  <2> QED  BY <2>3, <2>4
<1>9. CASE UndoStored
  <2>1. /\ Undoing /\ tx # None /\ tx \in Transaction /\ tx.phase = "undo" /\ ~ tx.removed
        /\ tx' = [tx EXCEPT !.left = tx.left \ {Place}] /\ UNCHANGED <<kern, lost>>
    BY <1>9, PlaceFits DEF UndoStored, Undoing, PlaceInv, Applying
  <2>2. /\ Current.id \in Ids /\ Current.act \in {"delete", "update", "create"}
        /\ Current = tx.plan[Place]
    BY <2>1, CurrentFits, PlaceFits
  <2>3. /\ tx'.phase = "undo" /\ tx'.plan = tx.plan /\ tx'.left = tx.left \ {Place} /\ tx' # None
    <3>1. tx' \in Transaction
      BY <2>1 DEF Transaction
    <3> QED  BY <2>1, <3>1, NoneApart DEF Transaction
  <2>4. CASE id = Current.id
    <3>1. Current.act # "create"
      BY <1>9, <2>2, <2>4 DEF UndoStored, Put, TypeInv, Records
    <3>2. id \in queue'
      BY <1>9, <2>2, <2>4, <3>1 DEF UndoStored, Undone
    <3> QED  BY <3>2 DEF Repaired
  <2>5. CASE id # Current.id
    <3>1. store'[id] = store[id] /\ stat'[id] = stat[id] /\ queue \subseteq queue'
      BY <1>9, <2>2, <2>5 DEF UndoStored, Undone, Put, Report, TypeInv, Records
    <3>2. Owed(id) => Owed(id)'
      BY <2>1, <2>2, <2>3, <2>5 DEF Owed, About, Writes, InPlace
    <3> QED  BY <1>1, <2>1, <3>1, <3>2 DEF Repaired
  <2> QED  BY <2>4, <2>5
<1>10. CASE UndoRefused
  BY <1>10 DEF UndoRefused
<1>11. CASE UndoDone
  <2>1. ~ Owed(id)
    BY <1>11 DEF UndoDone, Owed, InPlace, PlaceInv, Applying
  <2> QED  BY <1>2, <1>11, <2>1 DEF UndoDone
<1>12. CASE \E wait \in BOOLEAN : Conclude(wait)
  <2> DEFINE ids == {tx.plan[i].id : i \in Written(tx)}
  <2>1. /\ tx # None /\ tx \in Transaction /\ tx.phase = "apply" /\ tx.next > Len(tx.plan)
        /\ UNCHANGED <<store, kern, lost>> /\ queue' = queue \cup ids
        /\ stat' = [j \in Ids |-> IF j \in ids THEN "pending" ELSE stat[j]]
    BY <1>12 DEF Conclude, TypeInv
  <2>2. Owed(id) => id \in ids
    <3>1. ~ tx.removed
      BY <2>1 DEF PlaceInv, Applying, Transaction
    <3>2. InPlace(tx) \subseteq DOMAIN tx.plan
      BY <2>1 DEF InPlace, Done, PlaceInv, Transaction
    <3> QED  BY <3>1, <3>2 DEF Owed, About, Writes, Written
  <2> HIDE DEF ids
  <2> QED  BY <1>1, <2>1, <2>2 DEF Repaired
<1>13. CASE WaitReconcile
  <2>1. /\ tx # None /\ tx.phase = "wait" /\ UNCHANGED <<store, queue, lost>> /\ Waiting
        /\ (Reconciled(Current.id) \/ ReconcileFails(Current.id) \/ Unread)
    BY <1>13 DEF WaitReconcile, Waiting
  <2>2. Current.id \in Ids /\ store[Current.id] # None
    BY <2>1, WaitStored, NoneApart
  <2>3. ~ Owed(id)
    BY <2>1 DEF Owed
  <2> QED  BY <1>1, <2>1, <2>2, <2>3, ReconcileFits DEF Repaired, KernInv, Unread
<1>14. CASE WaitDone \/ ViewFails \/ Answer
  <2>1. ~ Owed(id)
    BY <1>14 DEF WaitDone, ViewFails, Answer, Owed
  <2> QED  BY <1>2, <1>14, <2>1 DEF WaitDone, ViewFails, Answer
<1>15. CASE \E j \in Ids : LoopReconcile(j)
  <2>1. PICK j \in Ids : LoopReconcile(j)
    BY <1>15
  <2>2. tx = None /\ ~ Owed(id) /\ store' = store /\ queue' = queue \ {j}
    BY <2>1 DEF LoopReconcile, Owed
  <2>3. CASE store[j] = None
    BY <1>1, <2>1, <2>2, <2>3 DEF LoopReconcile, Repaired
  <2>4. CASE store[j] # None
    <3>1. ~ lost /\ (Reconciled(j) \/ ReconcileFails(j))
      BY <2>1, <2>4 DEF LoopReconcile, TypeInv
    <3>2. \/ kern'[j] = Objects(store[j]) /\ stat'[j] = "ready"
          \/ stat'[j] = "error"
      <4>1. CASE Reconciled(j)
        <5>1. store[j] \in Record /\ Fit(kern[j], store[j])
          BY <2>4, OrphansById DEF TypeInv, Records, KernInv, NoOrphan
        <5> QED  BY <4>1, <5>1, RemainsFit DEF Reconciled, Report, TypeInv
      <4>2. CASE ReconcileFails(j)
        BY <4>2 DEF ReconcileFails, Report, TypeInv
      <4> QED  BY <3>1, <4>1, <4>2
    <3>3. id # j => kern'[id] = kern[id] /\ stat'[id] = stat[id]
      BY <2>4, <3>1, ReconcileFits DEF KernInv
    <3> QED  BY <1>1, <2>2, <3>1, <3>2, <3>3 DEF Repaired
  <2> QED  BY <2>3, <2>4
<1>16. CASE Tick \/ Crash
  BY <1>16 DEF Tick, Crash, Stored, Repaired
<1>17. CASE UNCHANGED vars
  <2>1. Owed(id) => Owed(id)'
    BY <1>17 DEF vars, Owed, Current, Place
  <2> QED  BY <1>2, <1>17, <2>1 DEF vars
<1> QED  BY <1>3, <1>4, <1>6, <1>7, <1>8, <1>9, <1>10, <1>11, <1>12, <1>13, <1>14, <1>15, <1>16, <1>17
         DEF Next, TxStep

-----------------------------------------------------------------------------
(* Theorems.                                                               *)

\* From the start on, every step keeps the inductive invariant.
THEOREM IInvCorrect == Spec => []IInv
<1>1. Init => IInv
  <2> SUFFICES ASSUME Init PROVE IInv
    OBVIOUS
  <2>1. TypeInv
    <3>1. store \in Records
      BY DEF Init, Records, Record
    <3>2. /\ used \subseteq Ids /\ queue \subseteq Ids /\ lost \in BOOLEAN /\ tx = None
          /\ kern \in [Ids -> SUBSET Object] /\ stat \in [Ids -> Phases]
      BY DEF Init, Stored, Phases
    <3>3. txs \in Nat /\ faults \in Nat /\ crashes \in Nat
      BY TransactionsAssumption DEF Init
    <3> QED  BY <3>1, <3>2, <3>3 DEF TypeInv
  <2>2. PlanInv /\ PlaceInv /\ StoreInv
    BY DEF Init, PlanInv, PlaceInv, StoreInv
  <2>3. KernInv /\ RepairInv
    BY DEF Init, KernInv, NoOrphans, RepairInv, Repaired
  <2> QED  BY <2>1, <2>2, <2>3 DEF IInv
<1>2. IInv /\ [Next]_vars => IInv'
  <2> SUFFICES ASSUME IInv, [Next]_vars PROVE IInv'
    OBVIOUS
  <2> USE DEF IInv
  <2>1. TypeInv' /\ PlanInv'
    BY TypeStep
  <2>2. PlaceInv'
    BY PlaceStep
  <2>3. StoreInv'
    BY StoreStep
  <2>4. KernInv'
    BY KernStep
  <2>5. RepairInv'
    BY RepairStep
  <2> QED  BY <2>1, <2>2, <2>3, <2>4, <2>5
<1> QED  BY <1>1, <1>2, PTL DEF Spec

\* Neither a plan cut short, nor its undoing, nor a restored older record leaves
\* kernel objects under a table that no stored record names (Remove, Delete).
THEOREM NoOrphansCorrect == Spec => []NoOrphans
<1>1. IInv => NoOrphans
  BY DEF IInv, KernInv
<1> QED  BY <1>1, IInvCorrect, PTL

\* A bundle or a restore is answered with all of its plan in place or with nothing
\* of it, unless its undoing was reported to fail (ApplyBundle, RestoreBackup).
THEOREM AllOrNothingCorrect == Spec => []AllOrNothing
<1>1. IInv => AllOrNothing
  BY DEF IInv, StoreInv, PlaceInv, AllOrNothing
<1> QED  BY <1>1, IInvCorrect, PTL

\* The store's own checks refuse no undoing: its tables are free and there is room
\* (rollbackBundleChangesLocked, rollbackRestoreLocked).
THEOREM UndoPossibleCorrect == Spec => []UndoPossible
<1>1. IInv => UndoPossible
  BY UndoFits DEF IInv, UndoPossible
<1> QED  BY <1>1, IInvCorrect, PTL

\* Between transactions a stored tunnel is installed as its record says, shown as
\* failed, or queued (applyBundleChangeLocked, Delete, rollback).
THEOREM RepairComesCorrect == Spec => []RepairComes
<1>1. IInv => RepairComes
  BY DEF IInv, RepairInv, Repaired, Owed, RepairComes
<1> QED  BY <1>1, IInvCorrect, PTL
=============================================================================
