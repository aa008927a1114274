----------------------------- MODULE RecordStore -----------------------------
(***************************************************************************)
(* What the Manager relies on when it calls internal/store: a map from     *)
(* tunnel ids to records that changes one record at a time, only to the    *)
(* generation after the one the caller expected, never to a name another   *)
(* record has.  An operation that reports success survives a crash.  One   *)
(* that fails changes nothing, unless undoing it failed as well: then it   *)
(* may have taken effect, and until the next success a crash may bring     *)
(* back any of the maps in doubt.                                          *)
(***************************************************************************)
EXTENDS Naturals, FiniteSets

CONSTANTS
  Ids, Names,
  MaxRecords,   \* model.MaxTunnelRecords
  MaxGen,       \* bound: generations per record
  None          \* no record

Record == [gen : 1..MaxGen, name : Names]

VARIABLES
  records,   \* what readers see
  doubts     \* the maps a crash may leave instead

Stored(m) == {id \in Ids : m[id] # None}

\* checkNamesLocked; exceptID is the record being replaced.
NameFree(m, id, name) == \A other \in Stored(m) \ {id} : m[other].name # name

\* The limit checked by Create.
Room(m) == Cardinality(Stored(m)) < MaxRecords

\* The map after an operation on one record, and the operations that are valid.
Put(m, id, rec) == [m EXCEPT ![id] = rec]

Created(m) ==
  UNION {{Put(m, id, [gen |-> 1, name |-> name]) : name \in {n \in Names : NameFree(m, id, n)}} :
           id \in {i \in Ids : m[i] = None /\ Room(m)}}

Updated(m) ==
  UNION {{Put(m, id, [gen |-> m[id].gen + 1, name |-> name]) :
             name \in {n \in Names : NameFree(m, id, n)}} :
           id \in {i \in Stored(m) : m[i].gen < MaxGen}}

Deleted(m) == {Put(m, id, None) : id \in Stored(m)}

Successors(m) == Created(m) \cup Updated(m) \cup Deleted(m)

Init == records = [id \in Ids |-> None] /\ doubts = {}

Commit ==
  /\ records' \in Successors(records)
  /\ doubts' = {}

\* An operation failed without effect, which settles the doubts if undoing it
\* reached the disk.
Refuse ==
  /\ doubts # {}
  /\ doubts' = {}
  /\ UNCHANGED records

\* An operation failed, and undoing it failed.
Waver == \E m \in Successors(records) :
  /\ records' \in {records, m}
  /\ doubts' = (doubts \cup {records, m}) \ {records'}

\* The operation under way when the daemon dies may still take effect.
Crash ==
  /\ records' \in {records} \cup doubts \cup Successors(records)
  /\ doubts' = {}

Next == Commit \/ Refuse \/ Waver \/ Crash

Spec == Init /\ [][Next]_<<records, doubts>>

\* No two records of a map have the same name.
Unique(m) == \A i, j \in Stored(m) : m[i].name = m[j].name => i = j
=============================================================================
