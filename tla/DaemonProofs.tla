----------------------------- MODULE DaemonProofs -----------------------------
(***************************************************************************)
(* Proofs about Daemon for every set of processes, settings, records and   *)
(* budgets: what a reader finds at the socket path, in the settings files  *)
(* and in migrated records.  Three invariants carry them: one of a process *)
(* and the settings it changes, one of the socket and who may take it, and *)
(* one of the records and what a migration has still to write.             *)
(***************************************************************************)
EXTENDS Daemon, FiniteSetTheorems, WellFoundedInduction, TLAPS

Moving == Starting \cup Stopping
Places == {"off", "serve"} \cup Moving
Steps == {"apply", "file", "remove", "override", "rollback"}
Jobs == [for : Options, old : Options, saving : Options, at : Steps]

TypeInv ==
  /\ file \in Options \cup {Invalid} /\ override \in Options \cup {None, Invalid}
  /\ socket \in Processes \cup {None}
  /\ at \in [Processes -> Places]
  /\ running \in [Processes -> Options \cup {None}]
  /\ job \in [Processes -> Jobs \cup {NoJob}]

Busy(p) == job[p].at # "none"

\* Only a process that serves changes settings.
BusyInv == \A p \in Processes : Busy(p) => at[p] = "serve"

\* While processes begin and end one at a time, nobody serves beside one that
\* has found the path free or stale, or that is removing it.
SocketInv ==
  ~ overlapped =>
    /\ \A p, q \in Processes : at[p] \in Moving /\ at[q] \in Moving => p = q
    /\ \A p \in Processes : at[p] \in {"serve", "listen", "mode"} => socket = p
    /\ \A p, q \in Processes :
         at[p] \in {"remove", "bind", "listen", "mode"} \cup Stopping => at[q] # "serve"

\* How far a change of settings is: the files load the old ones or the new.
JobAt(p) ==
  /\ promised = job[p].old /\ file \in Options
  /\ job[p].saving \in {job[p].for, job[p].old}
  /\ Effective \in {job[p].for, job[p].old}
  /\ Job(p, "apply") \/ Job(p, "rollback") => Effective = job[p].old
  /\ Job(p, "remove") => file = job[p].saving
  /\ Job(p, "file") \/ Job(p, "remove") \/ Job(p, "override") => running[p] = job[p].for

JobInv ==
  ~ torn /\ ~ overlapped =>
    /\ (\A p \in Processes : ~ Busy(p)) => promised = Effective
    /\ \A p \in Processes : Busy(p) => JobAt(p)

ProcessInv == TypeInv /\ BusyInv /\ SocketInv /\ JobInv

\* A record has these fields, whatever is in them.
Shape(r) ==
  r = [schema |-> r.schema, srv6 |-> r.srv6, name |-> r.name, priority |-> r.priority, src |-> r.src]

\* A record of schema 3 is as it was found, or migrated.
AsFound(r, i) == r.schema = found[i].schema /\ r.src = found[i].src
Ranked(r, i) == found[i].schema = 3 => r.schema = 4 /\ r.src = Normalised(found[i].src)

\* What a process has still to write is migrated.
TodoAt(p) ==
  /\ plan[p] = [only |-> plan[p].only, todo |-> plan[p].todo]
  /\ DOMAIN plan[p].todo \subseteq DOMAIN found
  /\ \A i \in DOMAIN plan[p].todo : Shape(plan[p].todo[i]) /\ Ranked(plan[p].todo[i], i)

RecordInv ==
  /\ found \in Seq(Record)
  /\ records = [i \in DOMAIN found |-> records[i]]
  /\ \A i \in DOMAIN found :
       Shape(records[i]) /\ (AsFound(records[i], i) \/ Ranked(records[i], i))
  /\ plan = [p \in Processes |-> plan[p]]
  /\ \A p \in Processes : TodoAt(p)

-----------------------------------------------------------------------------
(* Processes and settings.                                                 *)

\* Names of places are strings that differ.
LEMMA PlaceTypes ==
  /\ {"off", "load", "open", "commit", "engine", "look", "dial", "remove", "bind", "listen",
      "mode", "serve", "close", "unlink"} = Places
BY DEF Places, Moving, Starting, Stopping

\* What a process loads is settings, if it can be loaded.
LEMMA EffectiveType ==
  ASSUME TypeInv, Effective # Invalid
  PROVE  Effective \in Options /\ file \in Options
BY DaemonAssumption DEF TypeInv, Effective

\* Every step keeps the types of a process and of the settings files.
LEMMA TypeStep ==
  ASSUME TypeInv, [Next]_vars
  PROVE  TypeInv'
<1>1. ASSUME NEW p \in Processes, NEW mode \in {"serve", "migrate"}, Start(p, mode) PROVE TypeInv'
  BY <1>1, PlaceTypes DEF Start, TypeInv, path, Removed, Go, Off, Spend, disk, process
<1>2. ASSUME NEW p \in Processes, Load(p) PROVE TypeInv'
  BY <1>2, PlaceTypes, EffectiveType DEF Load, TypeInv, path, Removed, Go, Off, disk
<1>3. ASSUME NEW p \in Processes, Open(p) PROVE TypeInv'
  BY <1>3, PlaceTypes DEF Open, TypeInv, path, Removed, Go, Off, Spend, disk, process
<1>4. ASSUME NEW p \in Processes, CommitRecord(p) PROVE TypeInv'
  BY <1>4, PlaceTypes DEF CommitRecord, TypeInv, path, Removed, Go, Off, Spend, disk, process
<1>5. ASSUME NEW p \in Processes, Opened(p) PROVE TypeInv'
  BY <1>5, PlaceTypes DEF Opened, TypeInv, path, Removed, Go, Off, Spend, disk, process
<1>6. ASSUME NEW p \in Processes, Engine(p) PROVE TypeInv'
  BY <1>6, PlaceTypes DEF Engine, TypeInv, path, Removed, Go, Off, Spend, Identified
<1>7. ASSUME NEW p \in Processes, Dial(p) PROVE TypeInv'
  BY <1>7, PlaceTypes DEF Dial, TypeInv, Go, Off, Spend, disk, process, path
<1>8. ASSUME NEW p \in Processes, RemoveStale(p) PROVE TypeInv'
  BY <1>8, PlaceTypes DEF RemoveStale, TypeInv, path, Removed, Go, Off, Spend, disk, process
<1>9. ASSUME NEW p \in Processes, Bind(p) PROVE TypeInv'
  BY <1>9, PlaceTypes DEF Bind, TypeInv, path, Removed, Go, Off, Spend, disk, process
<1>10. ASSUME NEW p \in Processes, Listen(p) PROVE TypeInv'
  BY <1>10, PlaceTypes DEF Listen, TypeInv, path, Removed, Go, Off, Spend, disk, process
<1>11. ASSUME NEW p \in Processes, Update(p) PROVE TypeInv'
  <2>1. Effective \in Options
    BY <1>11, EffectiveType DEF Update
  <2>2. PICK s \in Options :
          job' = [job EXCEPT ![p] = [for |-> s, old |-> Effective, saving |-> s, at |-> "apply"]]
    BY <1>11 DEF Update
  <2> DEFINE new == [for |-> s, old |-> Effective, saving |-> s, at |-> "apply"]
  <2>3. new \in Jobs
    BY <2>1 DEF Jobs, Steps
  <2>4. job' = [job EXCEPT ![p] = new]
    BY <2>2
  <2> HIDE DEF new
  <2> QED
    BY <1>11, <2>3, <2>4 DEF Update, TypeInv, disk, path
<1>12. ASSUME NEW p \in Processes, Apply(p) PROVE TypeInv'
  <2>1. job[p] \in Jobs
    BY <1>12 DEF Apply, Job, TypeInv, NoJob
  <2>2. /\ UNCHANGED <<socket, at>>
        /\ running' \in [Processes -> Options \cup {None}]
        /\ file' \in Options \cup {Invalid} /\ override' \in Options \cup {None, Invalid}
    BY <1>12, <2>1 DEF Apply, TypeInv, path, Jobs, RolledBack, OverrideRemoved
  <2>3. job' \in [Processes -> Jobs \cup {NoJob}]
    BY <1>12, <2>1 DEF Apply, TypeInv, Jobs, Steps, Then, Saved, GiveUp
  <2> QED
    BY <2>2, <2>3 DEF TypeInv
<1>13. ASSUME NEW p \in Processes, WriteFile(p) PROVE TypeInv'
  <2>1. job[p] \in Jobs
    BY <1>13 DEF WriteFile, Job, TypeInv, NoJob
  <2>2. /\ UNCHANGED <<socket, at>>
        /\ running' \in [Processes -> Options \cup {None}]
        /\ file' \in Options \cup {Invalid} /\ override' \in Options \cup {None, Invalid}
    BY <1>13, <2>1 DEF WriteFile, TypeInv, path, Jobs, RolledBack, OverrideRemoved
  <2>3. job' \in [Processes -> Jobs \cup {NoJob}]
    BY <1>13, <2>1 DEF WriteFile, TypeInv, Jobs, Steps, Then, Saved, GiveUp
  <2> QED
    BY <2>2, <2>3 DEF TypeInv
<1>14. ASSUME NEW p \in Processes, RemoveOverride(p) PROVE TypeInv'
  <2>1. job[p] \in Jobs
    BY <1>14 DEF RemoveOverride, Job, TypeInv, NoJob
  <2>2. /\ UNCHANGED <<socket, at>>
        /\ running' \in [Processes -> Options \cup {None}]
        /\ file' \in Options \cup {Invalid} /\ override' \in Options \cup {None, Invalid}
    BY <1>14, <2>1 DEF RemoveOverride, TypeInv, path, Jobs, RolledBack, OverrideRemoved
  <2>3. job' \in [Processes -> Jobs \cup {NoJob}]
    BY <1>14, <2>1 DEF RemoveOverride, TypeInv, Jobs, Steps, Then, Saved, GiveUp
  <2> QED
    BY <2>2, <2>3 DEF TypeInv
<1>15. ASSUME NEW p \in Processes, WriteOverride(p) PROVE TypeInv'
  <2>1. job[p] \in Jobs
    BY <1>15 DEF WriteOverride, Job, TypeInv, NoJob
  <2>2. /\ UNCHANGED <<socket, at>>
        /\ running' \in [Processes -> Options \cup {None}]
        /\ file' \in Options \cup {Invalid} /\ override' \in Options \cup {None, Invalid}
    BY <1>15, <2>1 DEF WriteOverride, TypeInv, path, Jobs, RolledBack, OverrideRemoved
  <2>3. job' \in [Processes -> Jobs \cup {NoJob}]
    BY <1>15, <2>1 DEF WriteOverride, TypeInv, Jobs, Steps, Then, Saved, GiveUp
  <2> QED
    BY <2>2, <2>3 DEF TypeInv
<1>16. ASSUME NEW p \in Processes, Rollback(p) PROVE TypeInv'
  <2>1. job[p] \in Jobs
    BY <1>16 DEF Rollback, Job, TypeInv, NoJob
  <2>2. /\ UNCHANGED <<socket, at>>
        /\ running' \in [Processes -> Options \cup {None}]
        /\ file' \in Options \cup {Invalid} /\ override' \in Options \cup {None, Invalid}
    BY <1>16, <2>1 DEF Rollback, TypeInv, path, Jobs, RolledBack, OverrideRemoved
  <2>3. job' \in [Processes -> Jobs \cup {NoJob}]
    BY <1>16, <2>1 DEF Rollback, TypeInv, Jobs, Steps, Then, Saved, GiveUp
  <2> QED
    BY <2>2, <2>3 DEF TypeInv
<1>17. ASSUME NEW p \in Processes, Stop(p) PROVE TypeInv'
  BY <1>17, PlaceTypes DEF Stop, TypeInv, path, Removed, Go, Off, Spend, disk, process
<1>18. ASSUME NEW p \in Processes, Close(p) PROVE TypeInv'
  BY <1>18, PlaceTypes DEF Close, TypeInv, path, Removed, Go, Off, Spend, disk, process
<1>19. ASSUME NEW p \in Processes, Unlink(p) PROVE TypeInv'
  BY <1>19, PlaceTypes DEF Unlink, TypeInv, path, Removed, Go, Off, Spend, disk, process
<1>20. ASSUME NEW p \in Processes, Kill(p) PROVE TypeInv'
  BY <1>20, PlaceTypes DEF Kill, TypeInv, path, Removed, Go, Off, Spend, disk, process
<1>21. ASSUME Edit PROVE TypeInv'
  BY <1>21 DEF Edit, TypeInv, process, path
<1>22. CASE UNCHANGED vars
  BY <1>22 DEF vars, disk, process, path, TypeInv
<1>23. ASSUME NEW p \in Processes, Look(p) PROVE TypeInv'
  BY <1>23, PlaceTypes DEF Look, TypeInv, path, Removed, Go, Off, Spend, disk, process
<1>24. ASSUME NEW p \in Processes, Mode(p) PROVE TypeInv'
  BY <1>24, PlaceTypes DEF Mode, TypeInv, path, Removed, Go, Off, Spend, disk, process
<1> QED
  BY <1>1, <1>2, <1>3, <1>4, <1>5, <1>6, <1>7, <1>8, <1>9, <1>10, <1>11, <1>12, <1>13, <1>14, <1>15, <1>16, <1>17, <1>18, <1>19, <1>20, <1>21, <1>22, <1>23, <1>24 DEF Next, Begin, Change, Leave

\* A process changes settings only while it serves (UpdateSettings is a request; Shutdown waits for it).
LEMMA BusyStep ==
  ASSUME TypeInv, BusyInv, [Next]_vars
  PROVE  BusyInv'
<1>1. ASSUME NEW p \in Processes, NEW mode \in {"serve", "migrate"}, Start(p, mode) PROVE BusyInv'
  <2>1. job' = job /\ ~ Busy(p) /\ \A q \in Processes \ {p} : at'[q] = at[q]
    BY <1>1 DEF Start, BusyInv, Busy, TypeInv, Off, Go, Job
  <2> QED
    BY <2>1 DEF BusyInv, Busy
<1>2. ASSUME NEW p \in Processes, Load(p) PROVE BusyInv'
  <2>1. job' = job /\ ~ Busy(p) /\ \A q \in Processes \ {p} : at'[q] = at[q]
    BY <1>2 DEF Load, BusyInv, Busy, TypeInv, Off, Go, Job
  <2> QED
    BY <2>1 DEF BusyInv, Busy
<1>3. ASSUME NEW p \in Processes, Open(p) PROVE BusyInv'
  <2>1. job' = job /\ ~ Busy(p) /\ \A q \in Processes \ {p} : at'[q] = at[q]
    BY <1>3 DEF Open, BusyInv, Busy, TypeInv, Off, Go, Job
  <2> QED
    BY <2>1 DEF BusyInv, Busy
<1>4. ASSUME NEW p \in Processes, CommitRecord(p) PROVE BusyInv'
  <2>1. job' = job /\ ~ Busy(p) /\ \A q \in Processes \ {p} : at'[q] = at[q]
    BY <1>4 DEF CommitRecord, BusyInv, Busy, TypeInv, Off, Go, Job
  <2> QED
    BY <2>1 DEF BusyInv, Busy
<1>5. ASSUME NEW p \in Processes, Opened(p) PROVE BusyInv'
  <2>1. job' = job /\ ~ Busy(p) /\ \A q \in Processes \ {p} : at'[q] = at[q]
    BY <1>5 DEF Opened, BusyInv, Busy, TypeInv, Off, Go, Job
  <2> QED
    BY <2>1 DEF BusyInv, Busy
<1>6. ASSUME NEW p \in Processes, Engine(p) PROVE BusyInv'
  <2>1. job' = job /\ ~ Busy(p) /\ \A q \in Processes \ {p} : at'[q] = at[q]
    BY <1>6 DEF Engine, BusyInv, Busy, TypeInv, Off, Go, Job
  <2> QED
    BY <2>1 DEF BusyInv, Busy
<1>7. ASSUME NEW p \in Processes, Dial(p) PROVE BusyInv'
  <2>1. job' = job /\ ~ Busy(p) /\ \A q \in Processes \ {p} : at'[q] = at[q]
    BY <1>7 DEF Dial, BusyInv, Busy, TypeInv, Off, Go, Job
  <2> QED
    BY <2>1 DEF BusyInv, Busy
<1>8. ASSUME NEW p \in Processes, RemoveStale(p) PROVE BusyInv'
  <2>1. job' = job /\ ~ Busy(p) /\ \A q \in Processes \ {p} : at'[q] = at[q]
    BY <1>8 DEF RemoveStale, BusyInv, Busy, TypeInv, Off, Go, Job
  <2> QED
    BY <2>1 DEF BusyInv, Busy
<1>9. ASSUME NEW p \in Processes, Bind(p) PROVE BusyInv'
  <2>1. job' = job /\ ~ Busy(p) /\ \A q \in Processes \ {p} : at'[q] = at[q]
    BY <1>9 DEF Bind, BusyInv, Busy, TypeInv, Off, Go, Job
  <2> QED
    BY <2>1 DEF BusyInv, Busy
<1>10. ASSUME NEW p \in Processes, Listen(p) PROVE BusyInv'
  <2>1. job' = job /\ ~ Busy(p) /\ \A q \in Processes \ {p} : at'[q] = at[q]
    BY <1>10 DEF Listen, BusyInv, Busy, TypeInv, Off, Go, Job
  <2> QED
    BY <2>1 DEF BusyInv, Busy
<1>11. ASSUME NEW p \in Processes, Update(p) PROVE BusyInv'
  <2>1. at' = at /\ at[p] = "serve" /\ \A q \in Processes \ {p} : job'[q] = job[q]
    BY <1>11 DEF Update, BusyInv, Busy, Job, TypeInv, Then, Saved, GiveUp
  <2> QED
    BY <2>1 DEF BusyInv, Busy
<1>12. ASSUME NEW p \in Processes, Apply(p) PROVE BusyInv'
  <2>1. at' = at /\ at[p] = "serve" /\ \A q \in Processes \ {p} : job'[q] = job[q]
    BY <1>12 DEF Apply, BusyInv, Busy, Job, TypeInv, Then, Saved, GiveUp
  <2> QED
    BY <2>1 DEF BusyInv, Busy
<1>13. ASSUME NEW p \in Processes, WriteFile(p) PROVE BusyInv'
  <2>1. at' = at /\ at[p] = "serve" /\ \A q \in Processes \ {p} : job'[q] = job[q]
    BY <1>13 DEF WriteFile, BusyInv, Busy, Job, TypeInv, Then, Saved, GiveUp
  <2> QED
    BY <2>1 DEF BusyInv, Busy
<1>14. ASSUME NEW p \in Processes, RemoveOverride(p) PROVE BusyInv'
  <2>1. at' = at /\ at[p] = "serve" /\ \A q \in Processes \ {p} : job'[q] = job[q]
    BY <1>14 DEF RemoveOverride, BusyInv, Busy, Job, TypeInv, Then, Saved, GiveUp
  <2> QED
    BY <2>1 DEF BusyInv, Busy
<1>15. ASSUME NEW p \in Processes, WriteOverride(p) PROVE BusyInv'
  <2>1. at' = at /\ at[p] = "serve" /\ \A q \in Processes \ {p} : job'[q] = job[q]
    BY <1>15 DEF WriteOverride, BusyInv, Busy, Job, TypeInv, Then, Saved, GiveUp
  <2> QED
    BY <2>1 DEF BusyInv, Busy
<1>16. ASSUME NEW p \in Processes, Rollback(p) PROVE BusyInv'
  <2>1. at' = at /\ at[p] = "serve" /\ \A q \in Processes \ {p} : job'[q] = job[q]
    BY <1>16 DEF Rollback, BusyInv, Busy, Job, TypeInv, Then, Saved, GiveUp
  <2> QED
    BY <2>1 DEF BusyInv, Busy
<1>17. ASSUME NEW p \in Processes, Stop(p) PROVE BusyInv'
  <2>1. job' = job /\ ~ Busy(p) /\ \A q \in Processes \ {p} : at'[q] = at[q]
    BY <1>17 DEF Stop, BusyInv, Busy, TypeInv, Off, Go, Job
  <2> QED
    BY <2>1 DEF BusyInv, Busy
<1>18. ASSUME NEW p \in Processes, Close(p) PROVE BusyInv'
  <2>1. job' = job /\ ~ Busy(p) /\ \A q \in Processes \ {p} : at'[q] = at[q]
    BY <1>18 DEF Close, BusyInv, Busy, TypeInv, Off, Go, Job
  <2> QED
    BY <2>1 DEF BusyInv, Busy
<1>19. ASSUME NEW p \in Processes, Unlink(p) PROVE BusyInv'
  <2>1. job' = job /\ ~ Busy(p) /\ \A q \in Processes \ {p} : at'[q] = at[q]
    BY <1>19 DEF Unlink, BusyInv, Busy, TypeInv, Off, Go, Job
  <2> QED
    BY <2>1 DEF BusyInv, Busy
<1>20. ASSUME NEW p \in Processes, Kill(p) PROVE BusyInv'
  <2>1. job'[p] = NoJob /\ \A q \in Processes \ {p} : at'[q] = at[q] /\ job'[q] = job[q]
    BY <1>20 DEF Kill, TypeInv, path, Removed, Off, Go
  <2> QED
    BY <2>1 DEF BusyInv, Busy, NoJob
<1>21. ASSUME Edit PROVE BusyInv'
  BY <1>21 DEF Edit, BusyInv, Busy, process
<1>22. CASE UNCHANGED vars
  BY <1>22 DEF vars, process, BusyInv, Busy
<1>23. ASSUME NEW p \in Processes, Look(p) PROVE BusyInv'
  <2>1. job' = job /\ ~ Busy(p) /\ \A q \in Processes \ {p} : at'[q] = at[q]
    BY <1>23 DEF Look, BusyInv, Busy, TypeInv, Off, Go, Job
  <2> QED
    BY <2>1 DEF BusyInv, Busy
<1>24. ASSUME NEW p \in Processes, Mode(p) PROVE BusyInv'
  <2>1. job' = job /\ ~ Busy(p) /\ \A q \in Processes \ {p} : at'[q] = at[q]
    BY <1>24 DEF Mode, BusyInv, Busy, TypeInv, Off, Go, Job
  <2> QED
    BY <2>1 DEF BusyInv, Busy
<1> QED
  BY <1>1, <1>2, <1>3, <1>4, <1>5, <1>6, <1>7, <1>8, <1>9, <1>10, <1>11, <1>12, <1>13, <1>14, <1>15, <1>16, <1>17, <1>18, <1>19, <1>20, <1>21, <1>22, <1>23, <1>24 DEF Next, Begin, Change, Leave

\* Every step keeps the path to the process that serves (removeStaleSocket, removeOwnedSocket).
LEMMA SocketStep ==
  ASSUME TypeInv, SocketInv, [Next]_vars
  PROVE  SocketInv'
<1>1. ASSUME NEW p \in Processes, NEW mode \in {"serve", "migrate"}, Start(p, mode) PROVE SocketInv'
  <2>1. socket' = socket /\ at[p] = "off" /\ at'[p] = "load" /\ \A q \in Processes \ {p} : at'[q] = at[q]
    BY <1>1 DEF Start, TypeInv, path, Removed, Go
  <2>2. ~ overlapped' => ~ overlapped /\ \A q \in Processes : at[q] \notin Moving
    BY <1>1 DEF Start, Moving
  <2> QED
    BY <2>1, <2>2 DEF SocketInv, Moving, Starting, Stopping
<1>2. ASSUME NEW p \in Processes, Load(p) PROVE SocketInv'
  <2>1. UNCHANGED <<socket, overlapped>> /\ \A q \in Processes \ {p} : at'[q] = at[q]
    BY <1>2 DEF Load, TypeInv, path, Removed, Off, Go, history, path
  <2>2. at[p] \in Starting
    BY <1>2 DEF Load, Starting
  <2>3. at'[p] \in {"off", "open", "commit", "engine", "look", "dial"} \cup {"bind", "remove"}
    BY <1>2 DEF Load, TypeInv, path, Removed, Off, Go
  <2>4. at'[p] \in {"bind", "remove"} /\ ~ overlapped => \A q \in Processes : at[q] # "serve"
    BY <1>2, DaemonAssumption DEF Load, TypeInv, path, Removed, SocketInv, Off, Go, Answered
  <2> QED
    BY <2>1, <2>2, <2>3, <2>4 DEF SocketInv, Moving, Starting, Stopping
<1>3. ASSUME NEW p \in Processes, Open(p) PROVE SocketInv'
  <2>1. UNCHANGED <<socket, overlapped>> /\ \A q \in Processes \ {p} : at'[q] = at[q]
    BY <1>3 DEF Open, TypeInv, path, Removed, Off, Go, history, path
  <2>2. at[p] \in Starting
    BY <1>3 DEF Open, Starting
  <2>3. at'[p] \in {"off", "open", "commit", "engine", "look", "dial"} \cup {"bind", "remove"}
    BY <1>3 DEF Open, TypeInv, path, Removed, Off, Go
  <2>4. at'[p] \in {"bind", "remove"} /\ ~ overlapped => \A q \in Processes : at[q] # "serve"
    BY <1>3, DaemonAssumption DEF Open, TypeInv, path, Removed, SocketInv, Off, Go, Answered
  <2> QED
    BY <2>1, <2>2, <2>3, <2>4 DEF SocketInv, Moving, Starting, Stopping
<1>4. ASSUME NEW p \in Processes, CommitRecord(p) PROVE SocketInv'
  <2>1. UNCHANGED <<socket, overlapped>> /\ \A q \in Processes \ {p} : at'[q] = at[q]
    BY <1>4 DEF CommitRecord, TypeInv, path, Removed, Off, Go, history, path
  <2>2. at[p] \in Starting
    BY <1>4 DEF CommitRecord, Starting
  <2>3. at'[p] \in {"off", "open", "commit", "engine", "look", "dial"} \cup {"bind", "remove"}
    BY <1>4 DEF CommitRecord, TypeInv, path, Removed, Off, Go
  <2>4. at'[p] \in {"bind", "remove"} /\ ~ overlapped => \A q \in Processes : at[q] # "serve"
    BY <1>4, DaemonAssumption DEF CommitRecord, TypeInv, path, Removed, SocketInv, Off, Go, Answered
  <2> QED
    BY <2>1, <2>2, <2>3, <2>4 DEF SocketInv, Moving, Starting, Stopping
<1>5. ASSUME NEW p \in Processes, Opened(p) PROVE SocketInv'
  <2>1. UNCHANGED <<socket, overlapped>> /\ \A q \in Processes \ {p} : at'[q] = at[q]
    BY <1>5 DEF Opened, TypeInv, path, Removed, Off, Go, history, path
  <2>2. at[p] \in Starting
    BY <1>5 DEF Opened, Starting
  <2>3. at'[p] \in {"off", "open", "commit", "engine", "look", "dial"} \cup {"bind", "remove"}
    BY <1>5 DEF Opened, TypeInv, path, Removed, Off, Go
  <2>4. at'[p] \in {"bind", "remove"} /\ ~ overlapped => \A q \in Processes : at[q] # "serve"
    BY <1>5, DaemonAssumption DEF Opened, TypeInv, path, Removed, SocketInv, Off, Go, Answered
  <2> QED
    BY <2>1, <2>2, <2>3, <2>4 DEF SocketInv, Moving, Starting, Stopping
<1>6. ASSUME NEW p \in Processes, Engine(p) PROVE SocketInv'
  <2>1. UNCHANGED <<socket, overlapped>> /\ \A q \in Processes \ {p} : at'[q] = at[q]
    BY <1>6 DEF Engine, TypeInv, path, Removed, Off, Go, history, path
  <2>2. at[p] \in Starting
    BY <1>6 DEF Engine, Starting
  <2>3. at'[p] \in {"off", "open", "commit", "engine", "look", "dial"} \cup {"bind", "remove"}
    BY <1>6 DEF Engine, TypeInv, path, Removed, Off, Go
  <2>4. at'[p] \in {"bind", "remove"} /\ ~ overlapped => \A q \in Processes : at[q] # "serve"
    BY <1>6, DaemonAssumption DEF Engine, TypeInv, path, Removed, SocketInv, Off, Go, Answered
  <2> QED
    BY <2>1, <2>2, <2>3, <2>4 DEF SocketInv, Moving, Starting, Stopping
<1>7. ASSUME NEW p \in Processes, Dial(p) PROVE SocketInv'
  <2>1. socket' = socket /\ \A q \in Processes \ {p} : at'[q] = at[q]
    BY <1>7 DEF Dial, TypeInv, Off, Go, path
  <2>2. at[p] \in Starting
    BY <1>7 DEF Dial, Starting
  <2>3. at'[p] \in {"off", "remove"}
    BY <1>7 DEF Dial, TypeInv, Off, Go
  <2>4. ~ overlapped' => ~ overlapped /\ (at'[p] = "off" \/ ~ Answered)
    BY <1>7 DEF Dial, TypeInv, Off, Go, meeting
  <2>5. ~ Answered /\ ~ overlapped => \A q \in Processes : at[q] # "serve"
    BY DaemonAssumption DEF TypeInv, SocketInv, Answered
  <2> QED
    BY <2>1, <2>2, <2>3, <2>4, <2>5 DEF SocketInv, Moving, Starting, Stopping
<1>8. ASSUME NEW p \in Processes, RemoveStale(p) PROVE SocketInv'
  <2>1. overlapped' = overlapped /\ \A q \in Processes \ {p} : at'[q] = at[q]
    BY <1>8 DEF RemoveStale, TypeInv, path, Removed, Off, Go, history, path
  <2>2. at[p] \in {"remove", "bind", "listen", "mode"} \cup Stopping
    BY <1>8 DEF RemoveStale, Stopping
  <2>3. /\ at'[p] \in {"off", "bind", "listen", "mode", "unlink", "serve"}
        /\ at'[p] \in {"mode", "serve"} => at[p] \in {"listen", "mode"} /\ socket' = socket
        /\ at'[p] = "listen" => socket' = p
    BY <1>8 DEF RemoveStale, TypeInv, path, Removed, Off, Go
  <2> QED
    BY <2>1, <2>2, <2>3 DEF SocketInv, Moving, Starting, Stopping
<1>9. ASSUME NEW p \in Processes, Bind(p) PROVE SocketInv'
  <2>1. overlapped' = overlapped /\ \A q \in Processes \ {p} : at'[q] = at[q]
    BY <1>9 DEF Bind, TypeInv, path, Removed, Off, Go, history, path
  <2>2. at[p] \in {"remove", "bind", "listen", "mode"} \cup Stopping
    BY <1>9 DEF Bind, Stopping
  <2>3. /\ at'[p] \in {"off", "bind", "listen", "mode", "unlink", "serve"}
        /\ at'[p] \in {"mode", "serve"} => at[p] \in {"listen", "mode"} /\ socket' = socket
        /\ at'[p] = "listen" => socket' = p
    BY <1>9 DEF Bind, TypeInv, path, Removed, Off, Go
  <2> QED
    BY <2>1, <2>2, <2>3 DEF SocketInv, Moving, Starting, Stopping
<1>10. ASSUME NEW p \in Processes, Listen(p) PROVE SocketInv'
  <2>1. overlapped' = overlapped /\ \A q \in Processes \ {p} : at'[q] = at[q]
    BY <1>10 DEF Listen, TypeInv, path, Removed, Off, Go, history, path
  <2>2. at[p] \in {"remove", "bind", "listen", "mode"} \cup Stopping
    BY <1>10 DEF Listen, Stopping
  <2>3. /\ at'[p] \in {"off", "bind", "listen", "mode", "unlink", "serve"}
        /\ at'[p] \in {"mode", "serve"} => at[p] \in {"listen", "mode"} /\ socket' = socket
        /\ at'[p] = "listen" => socket' = p
    BY <1>10 DEF Listen, TypeInv, path, Removed, Off, Go
  <2> QED
    BY <2>1, <2>2, <2>3 DEF SocketInv, Moving, Starting, Stopping
<1>11. ASSUME NEW p \in Processes, Update(p) PROVE SocketInv'
  BY <1>11 DEF Update, SocketInv, history, path, meeting
<1>12. ASSUME NEW p \in Processes, Apply(p) PROVE SocketInv'
  BY <1>12 DEF Apply, SocketInv, history, path, meeting
<1>13. ASSUME NEW p \in Processes, WriteFile(p) PROVE SocketInv'
  BY <1>13 DEF WriteFile, SocketInv, history, path, meeting
<1>14. ASSUME NEW p \in Processes, RemoveOverride(p) PROVE SocketInv'
  BY <1>14 DEF RemoveOverride, SocketInv, history, path, meeting
<1>15. ASSUME NEW p \in Processes, WriteOverride(p) PROVE SocketInv'
  BY <1>15 DEF WriteOverride, SocketInv, history, path, meeting
<1>16. ASSUME NEW p \in Processes, Rollback(p) PROVE SocketInv'
  BY <1>16 DEF Rollback, SocketInv, history, path, meeting
<1>17. ASSUME NEW p \in Processes, Stop(p) PROVE SocketInv'
  <2>1. socket' = socket /\ at[p] = "serve" /\ at'[p] = "close" /\ \A q \in Processes \ {p} : at'[q] = at[q]
    BY <1>17 DEF Stop, TypeInv, path, Removed, Go
  <2>2. ~ overlapped' => ~ overlapped /\ \A q \in Processes : at[q] \notin Moving
    BY <1>17 DEF Stop, Moving
  <2> QED
    BY <2>1, <2>2 DEF SocketInv, Moving, Starting, Stopping
<1>18. ASSUME NEW p \in Processes, Close(p) PROVE SocketInv'
  <2>1. overlapped' = overlapped /\ \A q \in Processes \ {p} : at'[q] = at[q]
    BY <1>18 DEF Close, TypeInv, path, Removed, Off, Go, history, path
  <2>2. at[p] \in {"remove", "bind", "listen", "mode"} \cup Stopping
    BY <1>18 DEF Close, Stopping
  <2>3. /\ at'[p] \in {"off", "bind", "listen", "mode", "unlink", "serve"}
        /\ at'[p] \in {"mode", "serve"} => at[p] \in {"listen", "mode"} /\ socket' = socket
        /\ at'[p] = "listen" => socket' = p
    BY <1>18 DEF Close, TypeInv, path, Removed, Off, Go
  <2> QED
    BY <2>1, <2>2, <2>3 DEF SocketInv, Moving, Starting, Stopping
<1>19. ASSUME NEW p \in Processes, Unlink(p) PROVE SocketInv'
  <2>1. overlapped' = overlapped /\ \A q \in Processes \ {p} : at'[q] = at[q]
    BY <1>19 DEF Unlink, TypeInv, path, Removed, Off, Go, history, path
  <2>2. at[p] \in {"remove", "bind", "listen", "mode"} \cup Stopping
    BY <1>19 DEF Unlink, Stopping
  <2>3. /\ at'[p] \in {"off", "bind", "listen", "mode", "unlink", "serve"}
        /\ at'[p] \in {"mode", "serve"} => at[p] \in {"listen", "mode"} /\ socket' = socket
        /\ at'[p] = "listen" => socket' = p
    BY <1>19 DEF Unlink, TypeInv, path, Removed, Off, Go
  <2> QED
    BY <2>1, <2>2, <2>3 DEF SocketInv, Moving, Starting, Stopping
<1>20. ASSUME NEW p \in Processes, Kill(p) PROVE SocketInv'
  <2>1. UNCHANGED <<socket, overlapped>> /\ at'[p] = "off" /\ \A q \in Processes \ {p} : at'[q] = at[q]
    BY <1>20 DEF Kill, TypeInv, path, meeting, Off, Go
  <2> QED
    BY <2>1 DEF SocketInv, Moving, Starting, Stopping
<1>21. ASSUME Edit PROVE SocketInv'
  BY <1>21 DEF Edit, SocketInv, process, path, meeting
<1>22. CASE UNCHANGED vars
  BY <1>22 DEF vars, process, history, path, SocketInv
<1>23. ASSUME NEW p \in Processes, Look(p) PROVE SocketInv'
  <2>1. UNCHANGED <<socket, overlapped>> /\ \A q \in Processes \ {p} : at'[q] = at[q]
    BY <1>23 DEF Look, TypeInv, path, Removed, Off, Go, history, path
  <2>2. at[p] \in Starting
    BY <1>23 DEF Look, Starting
  <2>3. at'[p] \in {"off", "open", "commit", "engine", "look", "dial"} \cup {"bind", "remove"}
    BY <1>23 DEF Look, TypeInv, path, Removed, Off, Go
  <2>4. at'[p] \in {"bind", "remove"} /\ ~ overlapped => \A q \in Processes : at[q] # "serve"
    BY <1>23, DaemonAssumption DEF Look, TypeInv, path, Removed, SocketInv, Off, Go, Answered
  <2> QED
    BY <2>1, <2>2, <2>3, <2>4 DEF SocketInv, Moving, Starting, Stopping
<1>24. ASSUME NEW p \in Processes, Mode(p) PROVE SocketInv'
  <2>1. overlapped' = overlapped /\ \A q \in Processes \ {p} : at'[q] = at[q]
    BY <1>24 DEF Mode, TypeInv, path, Removed, Off, Go, history, path
  <2>2. at[p] \in {"remove", "bind", "listen", "mode"} \cup Stopping
    BY <1>24 DEF Mode, Stopping
  <2>3. /\ at'[p] \in {"off", "bind", "listen", "mode", "unlink", "serve"}
        /\ at'[p] \in {"mode", "serve"} => at[p] \in {"listen", "mode"} /\ socket' = socket
        /\ at'[p] = "listen" => socket' = p
    BY <1>24 DEF Mode, TypeInv, path, Removed, Off, Go
  <2> QED
    BY <2>1, <2>2, <2>3 DEF SocketInv, Moving, Starting, Stopping
<1> QED
  BY <1>1, <1>2, <1>3, <1>4, <1>5, <1>6, <1>7, <1>8, <1>9, <1>10, <1>11, <1>12, <1>13, <1>14, <1>15, <1>16, <1>17, <1>18, <1>19, <1>20, <1>21, <1>22, <1>23, <1>24 DEF Next, Begin, Change, Leave

\* A change of settings is alone.
LEMMA Alone ==
  ASSUME SocketInv, BusyInv, ~ overlapped, NEW p \in Processes, at[p] = "serve"
  PROVE  \A q \in Processes \ {p} : ~ Busy(q)
BY DEF SocketInv, BusyInv

\* What touches neither the settings nor the process that changes them.
LEMMA JobKept ==
  ASSUME JobInv, UNCHANGED <<file, override, promised, job, torn>>, ~ overlapped' => ~ overlapped,
         \A q \in Processes : Busy(q) => running'[q] = running[q]
  PROVE  JobInv'
BY DEF JobInv, JobAt, Job, Busy, Effective

\* A step of the change, or the one that begins it.
LEMMA JobOwn ==
  ASSUME SocketInv, BusyInv, NEW p \in Processes, at[p] = "serve", overlapped' = overlapped,
         \A q \in Processes \ {p} : job'[q] = job[q],
         ~ torn' /\ ~ overlapped => (Busy(p)' => JobAt(p)') /\ (~ Busy(p)' => promised' = Effective')
  PROVE  JobInv'
<1> SUFFICES ASSUME ~ torn', ~ overlapped
             PROVE  /\ (\A q \in Processes : ~ Busy(q)') => promised' = Effective'
                    /\ \A q \in Processes : Busy(q)' => JobAt(q)'
  BY DEF JobInv
<1>1. \A q \in Processes \ {p} : ~ Busy(q)'
  BY Alone DEF Busy
<1> QED
  BY <1>1

\* Settings are saved: acknowledged, or the old ones again.
LEMMA SavedJob ==
  ASSUME TypeInv, NEW p \in Processes, job[p] \in Jobs, Saved(p), file \in Options, file' = file,
         Effective' = job[p].saving, promised = job[p].old,
         job[p].saving \in {job[p].for, job[p].old}
  PROVE  (Busy(p)' => JobAt(p)') /\ (~ Busy(p)' => promised' = Effective')
<1>1. CASE Restoring(p)
  <2>1. job'[p] = [job[p] EXCEPT !.at = "rollback"] /\ promised' = promised
    BY <1>1 DEF Saved, Then, TypeInv
  <2> QED
    BY <1>1, <2>1 DEF Busy, JobAt, Job, Jobs, Restoring
<1>2. CASE ~ Restoring(p)
  <2>1. job'[p] = NoJob /\ promised' = job[p].for
    BY <1>2 DEF Saved, TypeInv
  <2> QED
    BY <1>2, <2>1 DEF Busy, NoJob, Restoring
<1> QED
  BY <1>1, <1>2

\* A failure to save goes back to the old settings.
LEMMA GiveUpJob ==
  ASSUME TypeInv, NEW p \in Processes, job[p] \in Jobs, JobAt(p), GiveUp(p), ~ torn', file' = file,
         promised' = promised, running' = running, ~ Job(p, "apply"), ~ Job(p, "rollback"),
         Effective' \in {job[p].for, job[p].old}
  PROVE  (Busy(p)' => JobAt(p)') /\ (~ Busy(p)' => promised' = Effective')
<1>1. job' = [job EXCEPT ![p].saving = job[p].old, ![p].at = "file"]
  BY DEF GiveUp
<1>2. job'[p] = [job[p] EXCEPT !.saving = job[p].old, !.at = "file"]
  BY <1>1 DEF TypeInv
<1> QED
  BY <1>2 DEF Busy, JobAt, Job, Jobs, Steps

\* Every step keeps the files at the old or the new settings (saveSettings, UpdateSettings).
LEMMA JobStep ==
  ASSUME TypeInv, BusyInv, SocketInv, JobInv, [Next]_vars
  PROVE  JobInv'
<1>1. ASSUME NEW p \in Processes, NEW mode \in {"serve", "migrate"}, Start(p, mode) PROVE JobInv'
  <2>1. UNCHANGED <<file, override, promised, job, torn>> /\ (~ overlapped' => ~ overlapped)
    BY <1>1 DEF Start, disk, history, path
  <2>2. ~ Busy(p) /\ \A q \in Processes \ {p} : running'[q] = running[q]
    BY <1>1 DEF Start, BusyInv, Busy, Job, TypeInv
  <2> QED
    BY <2>1, <2>2, JobKept
<1>2. ASSUME NEW p \in Processes, Load(p) PROVE JobInv'
  <2>1. UNCHANGED <<file, override, promised, job, torn>> /\ (~ overlapped' => ~ overlapped)
    BY <1>2 DEF Load, disk, history, path, meeting
  <2>2. ~ Busy(p) /\ \A q \in Processes \ {p} : running'[q] = running[q]
    BY <1>2 DEF Load, BusyInv, Busy, Job, TypeInv
  <2> QED
    BY <2>1, <2>2, JobKept
<1>3. ASSUME NEW p \in Processes, Open(p) PROVE JobInv'
  <2>1. UNCHANGED <<file, override, promised, job, torn>> /\ (~ overlapped' => ~ overlapped)
    BY <1>3 DEF Open, disk, history, path, meeting
  <2>2. ~ Busy(p) /\ \A q \in Processes \ {p} : running'[q] = running[q]
    BY <1>3 DEF Open, BusyInv, Busy, Job, TypeInv
  <2> QED
    BY <2>1, <2>2, JobKept
<1>4. ASSUME NEW p \in Processes, CommitRecord(p) PROVE JobInv'
  <2>1. UNCHANGED <<file, override, promised, job, torn>> /\ (~ overlapped' => ~ overlapped)
    BY <1>4 DEF CommitRecord, disk, history, path, meeting
  <2>2. ~ Busy(p) /\ \A q \in Processes \ {p} : running'[q] = running[q]
    BY <1>4 DEF CommitRecord, BusyInv, Busy, Job, TypeInv
  <2> QED
    BY <2>1, <2>2, JobKept
<1>5. ASSUME NEW p \in Processes, Opened(p) PROVE JobInv'
  <2>1. UNCHANGED <<file, override, promised, job, torn>> /\ (~ overlapped' => ~ overlapped)
    BY <1>5 DEF Opened, disk, history, path, meeting
  <2>2. ~ Busy(p) /\ \A q \in Processes \ {p} : running'[q] = running[q]
    BY <1>5 DEF Opened, BusyInv, Busy, Job, TypeInv
  <2> QED
    BY <2>1, <2>2, JobKept
<1>6. ASSUME NEW p \in Processes, Engine(p) PROVE JobInv'
  <2>1. UNCHANGED <<file, override, promised, job, torn>> /\ (~ overlapped' => ~ overlapped)
    BY <1>6 DEF Engine, disk, history, path, meeting
  <2>2. ~ Busy(p) /\ \A q \in Processes \ {p} : running'[q] = running[q]
    BY <1>6 DEF Engine, BusyInv, Busy, Job, TypeInv
  <2> QED
    BY <2>1, <2>2, JobKept
<1>7. ASSUME NEW p \in Processes, Dial(p) PROVE JobInv'
  <2>1. UNCHANGED <<file, override, promised, job, torn>> /\ (~ overlapped' => ~ overlapped)
    BY <1>7 DEF Dial, disk, history, path, meeting
  <2>2. ~ Busy(p) /\ \A q \in Processes \ {p} : running'[q] = running[q]
    BY <1>7 DEF Dial, BusyInv, Busy, Job, TypeInv
  <2> QED
    BY <2>1, <2>2, JobKept
<1>8. ASSUME NEW p \in Processes, RemoveStale(p) PROVE JobInv'
  <2>1. UNCHANGED <<file, override, promised, job, torn>> /\ (~ overlapped' => ~ overlapped)
    BY <1>8 DEF RemoveStale, disk, history, path, meeting
  <2>2. ~ Busy(p) /\ \A q \in Processes \ {p} : running'[q] = running[q]
    BY <1>8 DEF RemoveStale, BusyInv, Busy, Job, TypeInv
  <2> QED
    BY <2>1, <2>2, JobKept
<1>9. ASSUME NEW p \in Processes, Bind(p) PROVE JobInv'
  <2>1. UNCHANGED <<file, override, promised, job, torn>> /\ (~ overlapped' => ~ overlapped)
    BY <1>9 DEF Bind, disk, history, path, meeting
  <2>2. ~ Busy(p) /\ \A q \in Processes \ {p} : running'[q] = running[q]
    BY <1>9 DEF Bind, BusyInv, Busy, Job, TypeInv
  <2> QED
    BY <2>1, <2>2, JobKept
<1>10. ASSUME NEW p \in Processes, Listen(p) PROVE JobInv'
  <2>1. UNCHANGED <<file, override, promised, job, torn>> /\ (~ overlapped' => ~ overlapped)
    BY <1>10 DEF Listen, disk, history, path, meeting
  <2>2. ~ Busy(p) /\ \A q \in Processes \ {p} : running'[q] = running[q]
    BY <1>10 DEF Listen, BusyInv, Busy, Job, TypeInv
  <2> QED
    BY <2>1, <2>2, JobKept
<1>11. ASSUME NEW p \in Processes, Update(p) PROVE JobInv'
  <2>1. /\ UNCHANGED <<file, override, promised, torn, overlapped>>
        /\ at[p] = "serve" /\ ~ Busy(p) /\ Effective # Invalid
    BY <1>11 DEF Update, Job, Busy, disk, history, path, meeting
  <2>2. PICK s \in Options :
          job' = [job EXCEPT ![p] = [for |-> s, old |-> Effective, saving |-> s, at |-> "apply"]]
    BY <1>11 DEF Update
  <2>3. /\ job'[p] = [for |-> s, old |-> Effective, saving |-> s, at |-> "apply"]
        /\ \A q \in Processes \ {p} : job'[q] = job[q]
    BY <2>2 DEF TypeInv
  <2>4. ~ torn /\ ~ overlapped => promised = Effective
    BY <2>1, Alone DEF JobInv
  <2>5. Effective' = Effective /\ Effective \in Options /\ file \in Options
    BY <2>1, EffectiveType DEF Effective
  <2>6. Busy(p)' /\ (~ torn /\ ~ overlapped => JobAt(p)')
    BY <2>1, <2>3, <2>4, <2>5 DEF Busy, JobAt, Job
  <2> QED
    BY <2>1, <2>3, <2>6, JobOwn
<1>12. ASSUME NEW p \in Processes, Apply(p) PROVE JobInv'
  <2>1. /\ at[p] = "serve" /\ Busy(p) /\ overlapped' = overlapped
        /\ job[p] \in Jobs /\ (~ torn' => ~ torn)
        /\ \A q \in Processes \ {p} : job'[q] = job[q]
    BY <1>12 DEF Apply, BusyInv, Busy, Job, TypeInv, NoJob, history, meeting, Then, Saved, GiveUp
  <2> SUFFICES ASSUME ~ torn', ~ overlapped PROVE (Busy(p)' => JobAt(p)') /\ (~ Busy(p)' => promised' = Effective')
    BY <2>1, JobOwn
  <2>2. JobAt(p) /\ ~ torn
    BY <2>1 DEF JobInv
  <2>3. UNCHANGED <<file, override, promised>> /\ Job(p, "apply")
    BY <1>12 DEF Apply, history
  <2>4. CASE job' = [job EXCEPT ![p].at = "file"] /\ running' = [running EXCEPT ![p] = job[p].for]
    <3>1. job'[p] = [job[p] EXCEPT !.at = "file"] /\ running'[p] = job[p].for
      BY <2>4 DEF TypeInv
    <3> QED
      BY <2>1, <2>2, <2>3, <3>1 DEF JobAt, Job, Jobs, Effective, Busy
  <2>5. CASE job' = [job EXCEPT ![p].at = "rollback"]
    <3>1. job'[p] = [job[p] EXCEPT !.at = "rollback"]
      BY <2>5 DEF TypeInv
    <3> QED
      BY <2>1, <2>2, <2>3, <3>1 DEF JobAt, Job, Jobs, Effective, Busy
  <2> QED
    BY <1>12, <2>4, <2>5 DEF Apply, Then
<1>13. ASSUME NEW p \in Processes, WriteFile(p) PROVE JobInv'
  <2>1. /\ at[p] = "serve" /\ Busy(p) /\ overlapped' = overlapped
        /\ job[p] \in Jobs /\ (~ torn' => ~ torn)
        /\ \A q \in Processes \ {p} : job'[q] = job[q]
    BY <1>13 DEF WriteFile, BusyInv, Busy, Job, TypeInv, NoJob, history, meeting, Then, Saved, GiveUp
  <2> SUFFICES ASSUME ~ torn', ~ overlapped PROVE (Busy(p)' => JobAt(p)') /\ (~ Busy(p)' => promised' = Effective')
    BY <2>1, JobOwn
  <2>2. JobAt(p) /\ ~ torn
    BY <2>1 DEF JobInv
  <2>3. UNCHANGED <<override, promised, running>> /\ Job(p, "file")
    BY <1>13 DEF WriteFile, history
  <2>4. CASE file' = job[p].saving /\ job' = [job EXCEPT ![p].at = "remove"]
    <3>1. job'[p] = [job[p] EXCEPT !.at = "remove"]
      BY <2>4 DEF TypeInv
    <3> QED
      BY <2>1, <2>2, <2>3, <2>4, <3>1, DaemonAssumption DEF JobAt, Job, Jobs, Effective, Busy
  <2>5. CASE file' \in {file, job[p].saving} /\ job' = [job EXCEPT ![p].at = "override"]
    <3>1. job'[p] = [job[p] EXCEPT !.at = "override"]
      BY <2>5 DEF TypeInv
    <3> QED
      BY <2>1, <2>2, <2>3, <2>5, <3>1, DaemonAssumption DEF JobAt, Job, Jobs, Effective, Busy
  <2> QED
    BY <1>13, <2>4, <2>5 DEF WriteFile, Then
<1>14. ASSUME NEW p \in Processes, RemoveOverride(p) PROVE JobInv'
  <2>1. /\ at[p] = "serve" /\ Busy(p) /\ overlapped' = overlapped
        /\ job[p] \in Jobs /\ (~ torn' => ~ torn)
        /\ \A q \in Processes \ {p} : job'[q] = job[q]
    BY <1>14 DEF RemoveOverride, BusyInv, Busy, Job, TypeInv, NoJob, history, meeting, Then, Saved, GiveUp
  <2> SUFFICES ASSUME ~ torn', ~ overlapped PROVE (Busy(p)' => JobAt(p)') /\ (~ Busy(p)' => promised' = Effective')
    BY <2>1, JobOwn
  <2>2. JobAt(p) /\ ~ torn
    BY <2>1 DEF JobInv
  <2>3. UNCHANGED <<file, running>> /\ Job(p, "remove")
    BY <1>14 DEF RemoveOverride
  <2>4. CASE Saved(p) /\ override' = OverrideRemoved
    <3>1. /\ file \in Options /\ job[p].saving \in Options
          /\ promised = job[p].old /\ job[p].saving \in {job[p].for, job[p].old}
      BY <2>1, <2>2 DEF JobAt, Jobs
    <3>2. Effective' = job[p].saving
      BY <2>2, <2>3, <2>4, <3>1, DaemonAssumption DEF Effective, JobAt, OverrideRemoved
    <3> QED
      BY <2>1, <2>2, <2>3, <2>4, <3>1, <3>2, SavedJob
  <2>5. CASE GiveUp(p) /\ promised' = promised /\ override' \in {override, job[p].saving}
    <3>1. Effective' \in {job[p].for, job[p].old}
      BY <2>1, <2>2, <2>3, <2>5, DaemonAssumption DEF Effective, JobAt, Jobs
    <3>2. ~ Job(p, "apply") /\ ~ Job(p, "rollback") /\ file' = file /\ running' = running
      BY <2>3 DEF Job
    <3> QED
      BY <2>1, <2>2, <2>5, <3>1, <3>2, GiveUpJob
  <2> QED
    BY <1>14, <2>4, <2>5 DEF RemoveOverride
<1>15. ASSUME NEW p \in Processes, WriteOverride(p) PROVE JobInv'
  <2>1. /\ at[p] = "serve" /\ Busy(p) /\ overlapped' = overlapped
        /\ job[p] \in Jobs /\ (~ torn' => ~ torn)
        /\ \A q \in Processes \ {p} : job'[q] = job[q]
    BY <1>15 DEF WriteOverride, BusyInv, Busy, Job, TypeInv, NoJob, history, meeting, Then, Saved, GiveUp
  <2> SUFFICES ASSUME ~ torn', ~ overlapped PROVE (Busy(p)' => JobAt(p)') /\ (~ Busy(p)' => promised' = Effective')
    BY <2>1, JobOwn
  <2>2. JobAt(p) /\ ~ torn
    BY <2>1 DEF JobInv
  <2>3. UNCHANGED <<file, running>> /\ Job(p, "override")
    BY <1>15 DEF WriteOverride
  <2>4. CASE Saved(p) /\ override' = job[p].saving
    <3>1. /\ file \in Options /\ job[p].saving \in Options
          /\ promised = job[p].old /\ job[p].saving \in {job[p].for, job[p].old}
      BY <2>1, <2>2 DEF JobAt, Jobs
    <3>2. Effective' = job[p].saving
      BY <2>2, <2>3, <2>4, <3>1, DaemonAssumption DEF Effective, JobAt, OverrideRemoved
    <3> QED
      BY <2>1, <2>2, <2>3, <2>4, <3>1, <3>2, SavedJob
  <2>5. CASE GiveUp(p) /\ promised' = promised /\ override' \in {override, job[p].saving}
    <3>1. Effective' \in {job[p].for, job[p].old}
      BY <2>1, <2>2, <2>3, <2>5, DaemonAssumption DEF Effective, JobAt, Jobs
    <3>2. ~ Job(p, "apply") /\ ~ Job(p, "rollback") /\ file' = file /\ running' = running
      BY <2>3 DEF Job
    <3> QED
      BY <2>1, <2>2, <2>5, <3>1, <3>2, GiveUpJob
  <2> QED
    BY <1>15, <2>4, <2>5 DEF WriteOverride
<1>16. ASSUME NEW p \in Processes, Rollback(p) PROVE JobInv'
  <2>1. /\ at[p] = "serve" /\ Busy(p) /\ overlapped' = overlapped
        /\ job[p] \in Jobs /\ (~ torn' => ~ torn)
        /\ \A q \in Processes \ {p} : job'[q] = job[q]
    BY <1>16 DEF Rollback, BusyInv, Busy, Job, TypeInv, NoJob, history, meeting, Then, Saved, GiveUp
  <2> SUFFICES ASSUME ~ torn', ~ overlapped PROVE (Busy(p)' => JobAt(p)') /\ (~ Busy(p)' => promised' = Effective')
    BY <2>1, JobOwn
  <2>2. JobAt(p) /\ ~ torn
    BY <2>1 DEF JobInv
  <2>3. UNCHANGED <<file, override, promised>> /\ Job(p, "rollback") /\ job'[p] = NoJob
    BY <1>16 DEF Rollback, TypeInv
  <2> QED
    BY <2>2, <2>3 DEF JobAt, Busy, NoJob, Effective
<1>17. ASSUME NEW p \in Processes, Stop(p) PROVE JobInv'
  <2>1. UNCHANGED <<file, override, promised, job, torn>> /\ (~ overlapped' => ~ overlapped)
    BY <1>17 DEF Stop, disk, history, path, meeting
  <2>2. ~ Busy(p) /\ \A q \in Processes \ {p} : running'[q] = running[q]
    BY <1>17 DEF Stop, BusyInv, Busy, Job, TypeInv
  <2> QED
    BY <2>1, <2>2, JobKept
<1>18. ASSUME NEW p \in Processes, Close(p) PROVE JobInv'
  <2>1. UNCHANGED <<file, override, promised, job, torn>> /\ (~ overlapped' => ~ overlapped)
    BY <1>18 DEF Close, disk, history, path, meeting
  <2>2. ~ Busy(p) /\ \A q \in Processes \ {p} : running'[q] = running[q]
    BY <1>18 DEF Close, BusyInv, Busy, Job, TypeInv
  <2> QED
    BY <2>1, <2>2, JobKept
<1>19. ASSUME NEW p \in Processes, Unlink(p) PROVE JobInv'
  <2>1. UNCHANGED <<file, override, promised, job, torn>> /\ (~ overlapped' => ~ overlapped)
    BY <1>19 DEF Unlink, disk, history, path, meeting
  <2>2. ~ Busy(p) /\ \A q \in Processes \ {p} : running'[q] = running[q]
    BY <1>19 DEF Unlink, BusyInv, Busy, Job, TypeInv
  <2> QED
    BY <2>1, <2>2, JobKept
<1>20. ASSUME NEW p \in Processes, Kill(p) PROVE JobInv'
  <2>1. /\ UNCHANGED <<file, override, running, torn, overlapped>>
        /\ job'[p] = NoJob /\ \A q \in Processes \ {p} : job'[q] = job[q]
        /\ promised' = IF ~ Busy(p) THEN promised ELSE Effective
    BY <1>20 DEF Kill, TypeInv, disk, meeting, Job, Busy
  <2>2. ~ Busy(p)' /\ \A q \in Processes \ {p} : Busy(q)' <=> Busy(q)
    BY <2>1 DEF Busy, NoJob
  <2>3. CASE ~ Busy(p)
    <3>1. promised' = promised /\ \A q \in Processes : Busy(q)' <=> Busy(q)
      BY <2>1, <2>2, <2>3
    <3> QED
      BY <2>1, <2>2, <2>3, <3>1 DEF JobInv, JobAt, Job, Effective
  <2>4. CASE Busy(p)
    <3>1. ~ overlapped => \A q \in Processes : ~ Busy(q)'
      BY <2>2, <2>4, Alone DEF BusyInv
    <3> QED
      BY <2>1, <2>4, <3>1 DEF JobInv, Effective
  <2> QED
    BY <2>3, <2>4
<1>21. ASSUME Edit PROVE JobInv'
  <2>1. UNCHANGED job /\ promised' = Effective' /\ \A q \in Processes : ~ Busy(q)
    BY <1>21 DEF Edit, process, Busy, Job
  <2> QED
    BY <2>1 DEF JobInv, Busy
<1>22. CASE UNCHANGED vars
  BY <1>22, JobKept DEF vars, process, history, disk
<1>23. ASSUME NEW p \in Processes, Look(p) PROVE JobInv'
  <2>1. UNCHANGED <<file, override, promised, job, torn>> /\ (~ overlapped' => ~ overlapped)
    BY <1>23 DEF Look, disk, history, path, meeting
  <2>2. ~ Busy(p) /\ \A q \in Processes \ {p} : running'[q] = running[q]
    BY <1>23 DEF Look, BusyInv, Busy, Job, TypeInv
  <2> QED
    BY <2>1, <2>2, JobKept
<1>24. ASSUME NEW p \in Processes, Mode(p) PROVE JobInv'
  <2>1. UNCHANGED <<file, override, promised, job, torn>> /\ (~ overlapped' => ~ overlapped)
    BY <1>24 DEF Mode, disk, history, path, meeting
  <2>2. ~ Busy(p) /\ \A q \in Processes \ {p} : running'[q] = running[q]
    BY <1>24 DEF Mode, BusyInv, Busy, Job, TypeInv
  <2> QED
    BY <2>1, <2>2, JobKept
<1> QED
  BY <1>1, <1>2, <1>3, <1>4, <1>5, <1>6, <1>7, <1>8, <1>9, <1>10, <1>11, <1>12, <1>13, <1>14, <1>15, <1>16, <1>17, <1>18, <1>19, <1>20, <1>21, <1>22, <1>23, <1>24 DEF Next, Begin, Change, Leave

-----------------------------------------------------------------------------
(* A change of settings ends.                                              *)

AgreeStep ==
  \A p \in Processes :
    Busy(p) /\ at'[p] = "serve" /\ ~ Busy(p)' /\ ~ torn' /\ ~ overlapped => running'[p] = Effective'

\* A step that ends a change leaves the backend with what the files load.
LEMMA AgreeAtEnd ==
  ASSUME TypeInv, BusyInv, JobInv, [Next]_vars
  PROVE  AgreeStep
<1>1. ASSUME NEW p \in Processes, NEW mode \in {"serve", "migrate"}, Start(p, mode) PROVE AgreeStep
  <2>1. job' = job
    BY <1>1 DEF Start, process
  <2> QED
    BY <2>1 DEF AgreeStep, Busy
<1>2. ASSUME NEW p \in Processes, Load(p) PROVE AgreeStep
  <2>1. job' = job
    BY <1>2 DEF Load, process
  <2> QED
    BY <2>1 DEF AgreeStep, Busy
<1>3. ASSUME NEW p \in Processes, Open(p) PROVE AgreeStep
  <2>1. job' = job
    BY <1>3 DEF Open, process
  <2> QED
    BY <2>1 DEF AgreeStep, Busy
<1>4. ASSUME NEW p \in Processes, CommitRecord(p) PROVE AgreeStep
  <2>1. job' = job
    BY <1>4 DEF CommitRecord, process
  <2> QED
    BY <2>1 DEF AgreeStep, Busy
<1>5. ASSUME NEW p \in Processes, Opened(p) PROVE AgreeStep
  <2>1. job' = job
    BY <1>5 DEF Opened, process
  <2> QED
    BY <2>1 DEF AgreeStep, Busy
<1>6. ASSUME NEW p \in Processes, Engine(p) PROVE AgreeStep
  <2>1. job' = job
    BY <1>6 DEF Engine, process
  <2> QED
    BY <2>1 DEF AgreeStep, Busy
<1>7. ASSUME NEW p \in Processes, Dial(p) PROVE AgreeStep
  <2>1. job' = job
    BY <1>7 DEF Dial, process
  <2> QED
    BY <2>1 DEF AgreeStep, Busy
<1>8. ASSUME NEW p \in Processes, RemoveStale(p) PROVE AgreeStep
  <2>1. job' = job
    BY <1>8 DEF RemoveStale, process
  <2> QED
    BY <2>1 DEF AgreeStep, Busy
<1>9. ASSUME NEW p \in Processes, Bind(p) PROVE AgreeStep
  <2>1. job' = job
    BY <1>9 DEF Bind, process
  <2> QED
    BY <2>1 DEF AgreeStep, Busy
<1>10. ASSUME NEW p \in Processes, Listen(p) PROVE AgreeStep
  <2>1. job' = job
    BY <1>10 DEF Listen, process
  <2> QED
    BY <2>1 DEF AgreeStep, Busy
<1>11. ASSUME NEW p \in Processes, Update(p) PROVE AgreeStep
  <2>1. \A q \in Processes \ {p} : job'[q] = job[q]
    BY <1>11 DEF Update, TypeInv, Then, Saved, GiveUp
  <2>2. ~ Busy(p)
    BY <1>11 DEF Update, Busy, Job
  <2> QED
    BY <2>1, <2>2 DEF AgreeStep, Busy
<1>12. ASSUME NEW p \in Processes, Apply(p) PROVE AgreeStep
  <2>1. \A q \in Processes \ {p} : job'[q] = job[q]
    BY <1>12 DEF Apply, TypeInv, Then, Saved, GiveUp
  <2>2. job[p] \in Jobs
    BY <1>12 DEF Apply, Job, TypeInv, NoJob
  <2>3. Busy(p)'
    BY <1>12, <2>2 DEF Apply, TypeInv, Then, Busy, Jobs
  <2> QED
    BY <2>1, <2>3 DEF AgreeStep, Busy
<1>13. ASSUME NEW p \in Processes, WriteFile(p) PROVE AgreeStep
  <2>1. \A q \in Processes \ {p} : job'[q] = job[q]
    BY <1>13 DEF WriteFile, TypeInv, Then, Saved, GiveUp
  <2>2. job[p] \in Jobs
    BY <1>13 DEF WriteFile, Job, TypeInv, NoJob
  <2>3. Busy(p)'
    BY <1>13, <2>2 DEF WriteFile, TypeInv, Then, Busy, Jobs
  <2> QED
    BY <2>1, <2>3 DEF AgreeStep, Busy
<1>14. ASSUME NEW p \in Processes, RemoveOverride(p) PROVE AgreeStep
  <2>1. \A q \in Processes \ {p} : job'[q] = job[q]
    BY <1>14 DEF RemoveOverride, TypeInv, Then, Saved, GiveUp
  <2>2. job[p] \in Jobs /\ Busy(p)
    BY <1>14 DEF RemoveOverride, Job, TypeInv, NoJob, Busy
  <2> SUFFICES ASSUME ~ Busy(p)', ~ torn', ~ overlapped PROVE running'[p] = Effective'
    BY <2>1 DEF AgreeStep, Busy
  <2>3. ~ GiveUp(p)
    BY <2>2 DEF GiveUp, Then, TypeInv, Busy, Jobs
  <2>4. Saved(p) /\ override' = OverrideRemoved /\ torn' = torn /\ UNCHANGED <<file, running>>
    BY <1>14, <2>3 DEF RemoveOverride
  <2>5. ~ Restoring(p)
    BY <2>2, <2>4 DEF Saved, Then, TypeInv, Busy, Jobs
  <2>6. JobAt(p)
    BY <2>2, <2>4 DEF JobInv
  <2>7. job[p].saving = job[p].for /\ running[p] = job[p].for /\ job[p].for \in Options /\ file \in Options
    BY <1>14, <2>2, <2>5, <2>6 DEF RemoveOverride, JobAt, Restoring, Jobs
  <2> QED
    BY <1>14, <2>4, <2>6, <2>7, DaemonAssumption DEF RemoveOverride, Effective, JobAt, Job, OverrideRemoved
<1>15. ASSUME NEW p \in Processes, WriteOverride(p) PROVE AgreeStep
  <2>1. \A q \in Processes \ {p} : job'[q] = job[q]
    BY <1>15 DEF WriteOverride, TypeInv, Then, Saved, GiveUp
  <2>2. job[p] \in Jobs /\ Busy(p)
    BY <1>15 DEF WriteOverride, Job, TypeInv, NoJob, Busy
  <2> SUFFICES ASSUME ~ Busy(p)', ~ torn', ~ overlapped PROVE running'[p] = Effective'
    BY <2>1 DEF AgreeStep, Busy
  <2>3. ~ GiveUp(p)
    BY <2>2 DEF GiveUp, Then, TypeInv, Busy, Jobs
  <2>4. Saved(p) /\ override' = job[p].saving /\ torn' = torn /\ UNCHANGED <<file, running>>
    BY <1>15, <2>3 DEF WriteOverride
  <2>5. ~ Restoring(p)
    BY <2>2, <2>4 DEF Saved, Then, TypeInv, Busy, Jobs
  <2>6. JobAt(p)
    BY <2>2, <2>4 DEF JobInv
  <2>7. job[p].saving = job[p].for /\ running[p] = job[p].for /\ job[p].for \in Options /\ file \in Options
    BY <1>15, <2>2, <2>5, <2>6 DEF WriteOverride, JobAt, Restoring, Jobs
  <2> QED
    BY <1>15, <2>4, <2>6, <2>7, DaemonAssumption DEF WriteOverride, Effective, JobAt, Job, OverrideRemoved
<1>16. ASSUME NEW p \in Processes, Rollback(p) PROVE AgreeStep
  <2>1. \A q \in Processes \ {p} : job'[q] = job[q]
    BY <1>16 DEF Rollback, TypeInv, Then, Saved, GiveUp
  <2>2. job[p] \in Jobs /\ Busy(p) /\ Job(p, "rollback")
    BY <1>16 DEF Rollback, Job, TypeInv, NoJob, Busy
  <2> SUFFICES ASSUME ~ torn', ~ overlapped PROVE running'[p] = Effective'
    BY <2>1 DEF AgreeStep, Busy
  <2>3. /\ running' = [running EXCEPT ![p] = job[p].old] /\ torn' = torn
        /\ UNCHANGED <<file, override>>
    BY <1>16 DEF Rollback, RolledBack
  <2>4. JobAt(p)
    BY <2>2, <2>3 DEF JobInv
  <2> QED
    BY <2>2, <2>3, <2>4 DEF JobAt, Effective, TypeInv
<1>17. ASSUME NEW p \in Processes, Stop(p) PROVE AgreeStep
  <2>1. job' = job
    BY <1>17 DEF Stop, process
  <2> QED
    BY <2>1 DEF AgreeStep, Busy
<1>18. ASSUME NEW p \in Processes, Close(p) PROVE AgreeStep
  <2>1. job' = job
    BY <1>18 DEF Close, process
  <2> QED
    BY <2>1 DEF AgreeStep, Busy
<1>19. ASSUME NEW p \in Processes, Unlink(p) PROVE AgreeStep
  <2>1. job' = job
    BY <1>19 DEF Unlink, process
  <2> QED
    BY <2>1 DEF AgreeStep, Busy
<1>20. ASSUME NEW p \in Processes, Kill(p) PROVE AgreeStep
  <2>1. at'[p] = "off" /\ \A q \in Processes \ {p} : job'[q] = job[q]
    BY <1>20 DEF Kill, TypeInv, path, Removed, Off, Go
  <2> QED
    BY <2>1 DEF AgreeStep, Busy
<1>21. ASSUME Edit PROVE AgreeStep
  <2>1. job' = job
    BY <1>21 DEF Edit, process
  <2> QED
    BY <2>1 DEF AgreeStep, Busy
<1>22. CASE UNCHANGED vars
  BY <1>22 DEF vars, process, AgreeStep, Busy
<1>23. ASSUME NEW p \in Processes, Look(p) PROVE AgreeStep
  <2>1. job' = job
    BY <1>23 DEF Look, process
  <2> QED
    BY <2>1 DEF AgreeStep, Busy
<1>24. ASSUME NEW p \in Processes, Mode(p) PROVE AgreeStep
  <2>1. job' = job
    BY <1>24 DEF Mode, process
  <2> QED
    BY <2>1 DEF AgreeStep, Busy
<1> QED
  BY <1>1, <1>2, <1>3, <1>4, <1>5, <1>6, <1>7, <1>8, <1>9, <1>10, <1>11, <1>12, <1>13, <1>14, <1>15, <1>16, <1>17, <1>18, <1>19, <1>20, <1>21, <1>22, <1>23, <1>24 DEF Next, Begin, Change, Leave

-----------------------------------------------------------------------------
(* Records.                                                                *)

\* Migration ranks what has schema 3 and leaves what has been ranked.
LEMMA DecodedRanked ==
  ASSUME RecordInv, NEW i \in DOMAIN found
  PROVE  Shape(Decoded(records[i])) /\ Ranked(Decoded(records[i]), i)
<1> DEFINE r == records[i]
           name == Prefixed(r)
           src == CASE r.schema = 2 -> [k \in DOMAIN r.src |-> k]
                    [] r.schema = 3 -> Normalised(r.src)
                    [] OTHER -> r.src
<1>1. Shape(r) /\ (AsFound(r, i) \/ Ranked(r, i))
  BY DEF RecordInv
<1>2. Decoded(r) = [r EXCEPT !.schema = 4, !.name = name, !.src = src]
  BY DEF Decoded
<1>3. found[i].schema = 3 => src = Normalised(found[i].src)
  BY <1>1 DEF AsFound, Ranked
<1> HIDE DEF r, name, src
<1>4. Decoded(r) = [schema |-> 4, srv6 |-> r.srv6, name |-> name, priority |-> r.priority, src |-> src]
  BY <1>1, <1>2 DEF Shape
<1>5. Shape(Decoded(r)) /\ Ranked(Decoded(r), i)
  BY <1>3, <1>4 DEF Shape, Ranked
<1> QED
  BY <1>5 DEF r

\* So does what a migration writes, whatever priority it chooses.
LEMMA MigratedRanked ==
  ASSUME RecordInv
  PROVE  \A i \in DOMAIN found : Shape(Migrated(records)[i]) /\ Ranked(Migrated(records)[i], i)
<1> SUFFICES ASSUME NEW i \in DOMAIN found
             PROVE  Shape(Migrated(records)[i]) /\ Ranked(Migrated(records)[i], i)
  OBVIOUS
<1> DEFINE d == Decoded(records[i])
           a == Allocated(records, i)
<1>1. Shape(d) /\ Ranked(d, i)
  BY DecodedRanked
<1>2. DOMAIN records = DOMAIN found
  BY DEF RecordInv
<1>3. Migrated(records)[i] = d \/ Migrated(records)[i] = [d EXCEPT !.priority = a]
  BY <1>2 DEF Migrated
<1> HIDE DEF d, a
<1>4. [d EXCEPT !.priority = a] =
        [schema |-> d.schema, srv6 |-> d.srv6, name |-> d.name, priority |-> a, src |-> d.src]
  BY <1>1 DEF Shape
<1> QED
  BY <1>1, <1>3, <1>4 DEF Shape, Ranked

\* What leaves records and plans alone.
LEMMA RecordKept ==
  ASSUME RecordInv, UNCHANGED <<found, records, plan>>
  PROVE  RecordInv'
BY DEF RecordInv, TodoAt, Shape, AsFound, Ranked

\* One process changes its plan.
LEMMA PlanStep ==
  ASSUME RecordInv, NEW p \in Processes, found' = found,
         records' = [i \in DOMAIN found |-> records'[i]],
         \A i \in DOMAIN found :
           Shape(records'[i]) /\ (AsFound(records'[i], i) \/ Ranked(records'[i], i)),
         plan' = [q \in Processes |-> plan'[q]], TodoAt(p)',
         \A q \in Processes \ {p} : plan'[q] = plan[q]
  PROVE  RecordInv'
<1>1. \A q \in Processes : TodoAt(q)'
  BY DEF RecordInv, TodoAt, Ranked
<1> QED
  BY <1>1 DEF RecordInv, AsFound, Ranked

\* Every step leaves a record as it was found or migrated (migrateRecords).
LEMMA RecordStep ==
  ASSUME RecordInv, [Next]_vars
  PROVE  RecordInv'
<1>1. ASSUME NEW p \in Processes, NEW mode \in {"serve", "migrate"}, Start(p, mode) PROVE RecordInv'
  <2>1. plan'[p].todo = <<>> /\ plan'[p] = [only |-> mode = "migrate", todo |-> <<>>]
        /\ \A q \in Processes \ {p} : plan'[q] = plan[q]
    BY <1>1 DEF Start, RecordInv
  <2>2. plan' = [q \in Processes |-> plan'[q]] /\ UNCHANGED <<found, records>>
    BY <1>1 DEF Start, RecordInv, disk
  <2>3. DOMAIN <<>> = {}
    OBVIOUS
  <2>4. TodoAt(p)'
    BY <2>1, <2>3 DEF TodoAt
  <2>5. /\ records' = [i \in DOMAIN found |-> records'[i]]
        /\ \A i \in DOMAIN found :
             Shape(records'[i]) /\ (AsFound(records'[i], i) \/ Ranked(records'[i], i))
    BY <2>2 DEF RecordInv
  <2> QED
    BY <2>1, <2>2, <2>4, <2>5, PlanStep
<1>2. ASSUME NEW p \in Processes, Load(p) PROVE RecordInv'
  BY <1>2, RecordKept DEF Load, disk, process
<1>3. ASSUME NEW p \in Processes, Open(p) PROVE RecordInv'
  <2>1. CASE plan' = plan
    BY <1>3, <2>1, RecordKept DEF Open, disk
  <2>2. CASE plan' = [plan EXCEPT ![p].todo = Rewrites(records)]
    <3>1. UNCHANGED <<found, records>> /\ plan' = [q \in Processes |-> plan'[q]]
          /\ \A q \in Processes \ {p} : plan'[q] = plan[q]
      BY <1>3, <2>2 DEF Open, RecordInv, disk
    <3>2. plan'[p] = [plan[p] EXCEPT !.todo = Rewrites(records)]
      BY <2>2 DEF RecordInv
    <3>3. plan'[p] = [only |-> plan'[p].only, todo |-> plan'[p].todo] /\ plan'[p].todo = Rewrites(records)
      BY <3>2 DEF RecordInv, TodoAt
    <3>4. /\ DOMAIN Rewrites(records) \subseteq DOMAIN found
          /\ \A i \in DOMAIN Rewrites(records) : Rewrites(records)[i] = Migrated(records)[i]
      BY DEF Rewrites, RecordInv
    <3>5. \A i \in DOMAIN found : Shape(Migrated(records)[i]) /\ Ranked(Migrated(records)[i], i)
      BY MigratedRanked
    <3>6. TodoAt(p)'
      BY <3>1, <3>3, <3>4, <3>5 DEF TodoAt, Ranked
    <3>7. /\ records' = [i \in DOMAIN found |-> records'[i]]
          /\ \A i \in DOMAIN found :
               Shape(records'[i]) /\ (AsFound(records'[i], i) \/ Ranked(records'[i], i))
      BY <3>1 DEF RecordInv
    <3> QED
      BY <3>1, <3>6, <3>7, PlanStep
  <2> QED
    BY <1>3, <2>1, <2>2 DEF Open
<1>4. ASSUME NEW p \in Processes, CommitRecord(p) PROVE RecordInv'
  <2>1. PICK i \in DOMAIN plan[p].todo :
          \/ /\ Written(p, i)
             /\ plan' = [plan EXCEPT ![p].todo = [j \in DOMAIN @ \ {i} |-> @[j]]]
          \/ /\ Written(p, i) \/ UNCHANGED records
             /\ plan' = plan
    BY <1>4 DEF CommitRecord
  <2>2. found' = found
    BY <1>4 DEF CommitRecord
  <2>3. i \in DOMAIN found /\ Shape(plan[p].todo[i]) /\ Ranked(plan[p].todo[i], i)
    BY DEF RecordInv, TodoAt
  <2>4. /\ records' = [k \in DOMAIN found |-> records'[k]]
        /\ \A k \in DOMAIN found :
             Shape(records'[k]) /\ (AsFound(records'[k], k) \/ Ranked(records'[k], k))
    BY <2>1, <2>3 DEF RecordInv, Written
  <2>5. plan' = [q \in Processes |-> plan'[q]] /\ \A q \in Processes \ {p} : plan'[q] = plan[q]
    BY <2>1 DEF RecordInv
  <2>6. CASE plan' = plan
    BY <2>2, <2>4, <2>6 DEF RecordInv, TodoAt, AsFound, Ranked
  <2>7. CASE plan' = [plan EXCEPT ![p].todo = [j \in DOMAIN @ \ {i} |-> @[j]]]
    <3> DEFINE rest == [j \in DOMAIN plan[p].todo \ {i} |-> plan[p].todo[j]]
    <3>1. plan'[p] = [plan[p] EXCEPT !.todo = rest] /\ plan[p] = [only |-> plan[p].only, todo |-> plan[p].todo]
      BY <2>7 DEF RecordInv, TodoAt
    <3>2. plan'[p] = [only |-> plan'[p].only, todo |-> plan'[p].todo] /\ plan'[p].todo = rest
      BY <3>1
    <3>3. /\ DOMAIN rest \subseteq DOMAIN plan[p].todo
          /\ \A k \in DOMAIN rest : rest[k] = plan[p].todo[k]
      OBVIOUS
    <3> HIDE DEF rest
    <3>4. TodoAt(p)'
      BY <2>2, <3>2, <3>3 DEF RecordInv, TodoAt, Ranked
    <3> QED
      BY <2>2, <2>4, <2>5, <3>4, PlanStep DEF AsFound, Ranked
  <2> QED
    BY <2>1, <2>6, <2>7
<1>5. ASSUME NEW p \in Processes, Opened(p) PROVE RecordInv'
  BY <1>5, RecordKept DEF Opened, disk, process
<1>6. ASSUME NEW p \in Processes, Engine(p) PROVE RecordInv'
  BY <1>6, RecordKept DEF Engine, disk, process
<1>7. ASSUME NEW p \in Processes, Dial(p) PROVE RecordInv'
  BY <1>7, RecordKept DEF Dial, disk, process
<1>8. ASSUME NEW p \in Processes, RemoveStale(p) PROVE RecordInv'
  BY <1>8, RecordKept DEF RemoveStale, disk, process
<1>9. ASSUME NEW p \in Processes, Bind(p) PROVE RecordInv'
  BY <1>9, RecordKept DEF Bind, disk, process
<1>10. ASSUME NEW p \in Processes, Listen(p) PROVE RecordInv'
  BY <1>10, RecordKept DEF Listen, disk, process
<1>11. ASSUME NEW p \in Processes, Update(p) PROVE RecordInv'
  BY <1>11, RecordKept DEF Update, disk, process
<1>12. ASSUME NEW p \in Processes, Apply(p) PROVE RecordInv'
  BY <1>12, RecordKept DEF Apply, disk, process
<1>13. ASSUME NEW p \in Processes, WriteFile(p) PROVE RecordInv'
  BY <1>13, RecordKept DEF WriteFile, disk, process
<1>14. ASSUME NEW p \in Processes, RemoveOverride(p) PROVE RecordInv'
  BY <1>14, RecordKept DEF RemoveOverride, disk, process
<1>15. ASSUME NEW p \in Processes, WriteOverride(p) PROVE RecordInv'
  BY <1>15, RecordKept DEF WriteOverride, disk, process
<1>16. ASSUME NEW p \in Processes, Rollback(p) PROVE RecordInv'
  BY <1>16, RecordKept DEF Rollback, disk, process
<1>17. ASSUME NEW p \in Processes, Stop(p) PROVE RecordInv'
  BY <1>17, RecordKept DEF Stop, disk, process
<1>18. ASSUME NEW p \in Processes, Close(p) PROVE RecordInv'
  BY <1>18, RecordKept DEF Close, disk, process
<1>19. ASSUME NEW p \in Processes, Unlink(p) PROVE RecordInv'
  BY <1>19, RecordKept DEF Unlink, disk, process
<1>20. ASSUME NEW p \in Processes, Kill(p) PROVE RecordInv'
  BY <1>20, RecordKept DEF Kill, disk, process
<1>21. ASSUME Edit PROVE RecordInv'
  BY <1>21, RecordKept DEF Edit, disk, process
<1>22. CASE UNCHANGED vars
  BY <1>22, RecordKept DEF vars, disk, process
<1>23. ASSUME NEW p \in Processes, Look(p) PROVE RecordInv'
  BY <1>23, RecordKept DEF Look, disk, process
<1>24. ASSUME NEW p \in Processes, Mode(p) PROVE RecordInv'
  BY <1>24, RecordKept DEF Mode, disk, process
<1> QED
  BY <1>1, <1>2, <1>3, <1>4, <1>5, <1>6, <1>7, <1>8, <1>9, <1>10, <1>11, <1>12, <1>13, <1>14, <1>15, <1>16, <1>17, <1>18, <1>19, <1>20, <1>21, <1>22, <1>23, <1>24 DEF Next, Begin, Change, Leave


\* The lowest rank goes to the highest priority, and to the first of equal ones.
LEMMA RankOrder ==
  ASSUME NEW src \in Seq(Nat), NEW j \in DOMAIN src, NEW k \in DOMAIN src,
         src[j] > src[k] \/ (src[j] = src[k] /\ j < k)
  PROVE  Normalised(src)[j] < Normalised(src)[k]
<1> DEFINE Above(i) == {h \in DOMAIN src : src[h] > src[i] \/ (src[h] = src[i] /\ h < i)}
<1>1. DOMAIN src \subseteq Nat /\ IsFiniteSet(DOMAIN src)
  <2>1. DOMAIN src = 1..Len(src) /\ Len(src) \in Nat
    OBVIOUS
  <2> QED
    BY <2>1, FS_Interval
<1>2. \A i \in DOMAIN src : src[i] \in Nat
  OBVIOUS
<1>3. Above(j) \in SUBSET Above(k) /\ j \in Above(k) /\ j \notin Above(j)
  BY <1>1, <1>2
<1>4. IsFiniteSet(Above(k)) /\ IsFiniteSet(Above(j))
  BY <1>1, FS_Subset
<1>5. Cardinality(Above(j)) <= Cardinality(Above(k)) /\ Cardinality(Above(j)) # Cardinality(Above(k))
  BY <1>3, <1>4, FS_Subset
<1>6. Cardinality(Above(j)) \in Nat /\ Cardinality(Above(k)) \in Nat
  BY <1>4, FS_CardinalityType
<1>7. Normalised(src)[j] = 1 + Cardinality(Above(j)) /\ Normalised(src)[k] = 1 + Cardinality(Above(k))
  BY DEF Normalised
<1> HIDE DEF Above
<1> QED
  BY <1>5, <1>6, <1>7

-----------------------------------------------------------------------------
(* The socket of a process beside others.                                  *)

Bound == {"listen", "mode", "serve"}

\* A process whose socket nobody doubted has the path to itself: no other is
\* about to remove what is there, or takes it for its own.
CrossInv ==
  \A p \in Processes : at[p] \in Bound /\ p \notin crossed =>
    /\ socket = p /\ mine \subseteq {p}
    /\ \A q \in Processes \ {p} : at[q] \notin Removing

\* A process that moves without touching the path, and binds or doubts nothing.
LEMMA CrossKept ==
  ASSUME CrossInv, UNCHANGED <<socket, mine, crossed>>,
         \A q \in Processes : at'[q] = at[q] \/ at'[q] \notin Bound \cup Removing
  PROVE  CrossInv'
BY DEF CrossInv, Bound, Removing

\* Every step keeps the path of a process that binds it alone (removeStaleSocket,
\* ListenUnix, removeOwnedSocket).
LEMMA CrossStep ==
  ASSUME TypeInv, CrossInv, [Next]_vars
  PROVE  CrossInv'
<1>1. ASSUME NEW p \in Processes, NEW mode \in {"serve", "migrate"}, Start(p, mode) PROVE CrossInv'
  <2>1. UNCHANGED <<socket, mine, crossed>> /\ at' = [at EXCEPT ![p] = "load"]
    BY <1>1 DEF Start, Go, path
  <2> QED  BY <2>1, CrossKept DEF TypeInv, Bound, Removing
<1>2. ASSUME NEW p \in Processes, Load(p) PROVE CrossInv'
  <2>1. UNCHANGED <<socket, mine, crossed>>
    BY <1>2 DEF Load, path, history, meeting
  <2>2. \A q \in Processes : at'[q] = at[q] \/ at'[q] \notin Bound \cup Removing
    BY <1>2 DEF Load, TypeInv, Go, Off, Bound, Removing
  <2> QED  BY <2>1, <2>2, CrossKept
<1>3. ASSUME NEW p \in Processes, Open(p) PROVE CrossInv'
  <2>1. UNCHANGED <<socket, mine, crossed>>
    BY <1>3 DEF Open, path, history, meeting
  <2>2. \A q \in Processes : at'[q] = at[q] \/ at'[q] \notin Bound \cup Removing
    BY <1>3 DEF Open, TypeInv, Go, Off, Bound, Removing
  <2> QED  BY <2>1, <2>2, CrossKept
<1>4. ASSUME NEW p \in Processes, CommitRecord(p) PROVE CrossInv'
  <2>1. UNCHANGED <<socket, mine, crossed>>
    BY <1>4 DEF CommitRecord, path, history, meeting
  <2>2. \A q \in Processes : at'[q] = at[q] \/ at'[q] \notin Bound \cup Removing
    BY <1>4 DEF CommitRecord, TypeInv, Go, Off, Bound, Removing
  <2> QED  BY <2>1, <2>2, CrossKept
<1>5. ASSUME NEW p \in Processes, Opened(p) PROVE CrossInv'
  <2>1. UNCHANGED <<socket, mine, crossed>>
    BY <1>5 DEF Opened, path, history, meeting
  <2>2. \A q \in Processes : at'[q] = at[q] \/ at'[q] \notin Bound \cup Removing
    BY <1>5 DEF Opened, TypeInv, Go, Off, Bound, Removing
  <2> QED  BY <2>1, <2>2, CrossKept
<1>6. ASSUME NEW p \in Processes, Engine(p) PROVE CrossInv'
  <2>1. UNCHANGED <<socket, mine, crossed>>
    BY <1>6 DEF Engine, path, history, meeting
  <2>2. \A q \in Processes : at'[q] = at[q] \/ at'[q] \notin Bound \cup Removing
    BY <1>6 DEF Engine, TypeInv, Go, Off, Bound, Removing
  <2> QED  BY <2>1, <2>2, CrossKept
<1>7. ASSUME NEW p \in Processes, Look(p) PROVE CrossInv'
  <2>1. UNCHANGED <<socket, mine, crossed>>
    BY <1>7 DEF Look, path, history, meeting
  <2>2. \A q \in Processes : at'[q] = at[q] \/ at'[q] \notin Bound \cup Removing
    BY <1>7 DEF Look, TypeInv, Go, Off, Bound, Removing
  <2> QED  BY <2>1, <2>2, CrossKept
<1>8. ASSUME NEW p \in Processes, Stop(p) PROVE CrossInv'
  <2>1. UNCHANGED <<socket, mine, crossed>>
    BY <1>8 DEF Stop, path, history, meeting
  <2>2. \A q \in Processes : at'[q] = at[q] \/ at'[q] \notin Bound \cup Removing
    BY <1>8 DEF Stop, TypeInv, Go, Off, Bound, Removing
  <2> QED  BY <2>1, <2>2, CrossKept
<1>9. ASSUME NEW p \in Processes, Kill(p) PROVE CrossInv'
  <2>1. UNCHANGED <<socket, mine, crossed>>
    BY <1>9 DEF Kill, path, history, meeting
  <2>2. \A q \in Processes : at'[q] = at[q] \/ at'[q] \notin Bound \cup Removing
    BY <1>9 DEF Kill, TypeInv, Go, Off, Bound, Removing
  <2> QED  BY <2>1, <2>2, CrossKept
<1>10. ASSUME NEW p \in Processes, Update(p) PROVE CrossInv'
  BY <1>10, CrossKept DEF Update, path, history, meeting
<1>11. ASSUME NEW p \in Processes, Apply(p) PROVE CrossInv'
  BY <1>11, CrossKept DEF Apply, path, history, meeting
<1>12. ASSUME NEW p \in Processes, WriteFile(p) PROVE CrossInv'
  BY <1>12, CrossKept DEF WriteFile, path, history, meeting
<1>13. ASSUME NEW p \in Processes, RemoveOverride(p) PROVE CrossInv'
  BY <1>13, CrossKept DEF RemoveOverride, path, history, meeting
<1>14. ASSUME NEW p \in Processes, WriteOverride(p) PROVE CrossInv'
  BY <1>14, CrossKept DEF WriteOverride, path, history, meeting
<1>15. ASSUME NEW p \in Processes, Rollback(p) PROVE CrossInv'
  BY <1>15, CrossKept DEF Rollback, path, history, meeting
<1>16. ASSUME NEW p \in Processes, Dial(p) PROVE CrossInv'
  <2>1. UNCHANGED <<socket, mine>> /\ \A q \in Processes \ {p} : at'[q] = at[q]
    BY <1>16 DEF Dial, TypeInv, Go, Off, path
  <2>2. at[p] = "dial" /\ at'[p] \in {"off", "remove"} /\ crossed \subseteq crossed'
    BY <1>16 DEF Dial, TypeInv, Go, Off, meeting
  <2>3. CASE at'[p] = "off"
    BY <2>1, <2>2, <2>3 DEF CrossInv, Bound, Removing
  <2>4. CASE at'[p] = "remove"
    <3>1. \/ ~ Answered /\ \A q \in Processes : at[q] = "listen" => q \in crossed'
          \/ socket \in crossed'
      BY <1>16, <2>4 DEF Dial, TypeInv, Go, Off
    <3>2. ASSUME NEW q \in Processes, at'[q] \in Bound, q \notin crossed' PROVE FALSE
      <4>1. at[q] = at'[q] /\ socket = q
        BY <2>1, <2>2, <2>4, <3>2 DEF CrossInv, Bound
      <4>2. ~ Answered /\ at[q] \in {"mode", "serve"}
        BY <3>1, <3>2, <4>1 DEF Bound
      <4> QED  BY <4>1, <4>2, DaemonAssumption DEF Answered
    <3> QED  BY <3>2 DEF CrossInv
  <2> QED  BY <2>2, <2>3, <2>4
<1>17. ASSUME NEW p \in Processes, RemoveStale(p) PROVE CrossInv'
  <2>1. /\ at[p] = "remove" /\ at'[p] \in {"off", "bind"} /\ crossed' = crossed
        /\ \A q \in Processes \ {p} : at'[q] = at[q]
    BY <1>17 DEF RemoveStale, TypeInv, Go, history
  <2> QED  BY <2>1 DEF CrossInv, Bound, Removing
<1>18. ASSUME NEW p \in Processes, Unlink(p) PROVE CrossInv'
  <2>1. /\ at[p] = "unlink" /\ at'[p] = "off" /\ crossed' = crossed
        /\ \A q \in Processes \ {p} : at'[q] = at[q]
    BY <1>18 DEF Unlink, TypeInv, Go, Off, history
  <2> QED  BY <2>1 DEF CrossInv, Bound, Removing
<1>19. ASSUME NEW p \in Processes, Bind(p) PROVE CrossInv'
  <2>1. CASE socket # None
    <3>1. UNCHANGED <<socket, mine, crossed>> /\ at' = [at EXCEPT ![p] = "off"]
      BY <1>19, <2>1 DEF Bind, Off, Go, path
    <3> QED  BY <3>1, CrossKept DEF TypeInv, Bound, Removing
  <2>2. CASE socket = None
    <3>1. /\ socket' = p /\ mine' = {} /\ at' = [at EXCEPT ![p] = "listen"]
          /\ crossed' = IF \E q \in Processes \ {p} : at[q] \in Removing
                        THEN crossed \cup {p} ELSE crossed \ {p}
      BY <1>19, <2>2 DEF Bind, Go
    <3>2. \A q \in Processes \ {p} : at[q] \in Bound => q \in crossed
      BY <2>2, DaemonAssumption DEF CrossInv
    <3>3. at'[p] = "listen" /\ \A q \in Processes \ {p} : at'[q] = at[q]
      BY <3>1 DEF TypeInv
    <3>4. \A q \in Processes \ {p} : at'[q] \in Bound => q \in crossed'
      BY <3>1, <3>2, <3>3
    <3>5. p \notin crossed' => \A q \in Processes \ {p} : at'[q] \notin Removing
      BY <3>1, <3>3
    <3> QED  BY <3>1, <3>4, <3>5 DEF CrossInv
  <2> QED  BY <2>1, <2>2
<1>20. ASSUME NEW p \in Processes, Listen(p) PROVE CrossInv'
  <2>1. /\ UNCHANGED <<socket, mine, crossed>> /\ at[p] = "listen" /\ at'[p] = "mode"
        /\ \A q \in Processes \ {p} : at'[q] = at[q]
    BY <1>20 DEF Listen, TypeInv, Go, path, history
  <2> QED  BY <2>1 DEF CrossInv, Bound, Removing
<1>21. ASSUME NEW p \in Processes, Mode(p) PROVE CrossInv'
  <2>1. /\ UNCHANGED <<socket, crossed>> /\ at[p] = "mode"
        /\ \A q \in Processes \ {p} : at'[q] = at[q]
    BY <1>21 DEF Mode, TypeInv, Go, Off, history
  <2>2. \/ at'[p] = "serve" /\ mine' = mine \cup {p}
        \/ at'[p] \in {"unlink", "off"} /\ mine' = mine
    BY <1>21 DEF Mode, TypeInv, Go, Off
  <2>3. \A q \in Processes \ {p} : at'[q] \in Bound => q \in crossed'
    BY <2>1 DEF CrossInv, Removing
  <2>4. at'[p] \in Bound /\ p \notin crossed' =>
          /\ socket' = p /\ mine' \subseteq {p}
          /\ \A q \in Processes \ {p} : at'[q] \notin Removing
    BY <2>1, <2>2 DEF CrossInv, Bound
  <2> QED  BY <2>3, <2>4 DEF CrossInv
<1>22. ASSUME NEW p \in Processes, Close(p) PROVE CrossInv'
  <2>1. /\ UNCHANGED <<socket, mine, crossed>> /\ at[p] = "close"
        /\ \A q \in Processes \ {p} : at'[q] = at[q]
        /\ at'[p] = "off" \/ (at'[p] = "unlink" /\ p \in mine)
    BY <1>22 DEF Close, TypeInv, Go, path, history
  <2> QED  BY <2>1 DEF CrossInv, Bound, Removing
<1>23. CASE Edit \/ UNCHANGED vars
  <2>1. UNCHANGED <<socket, mine, crossed, at>>
    BY <1>23 DEF Edit, vars, process, path, history, meeting
  <2> QED  BY <2>1, CrossKept
<1> QED
  BY <1>1, <1>2, <1>3, <1>4, <1>5, <1>6, <1>7, <1>8, <1>9, <1>10, <1>11, <1>12, <1>13, <1>14, <1>15, <1>16, <1>17, <1>18, <1>19, <1>20, <1>21, <1>22, <1>23 DEF Next, Begin, Change, Leave

-----------------------------------------------------------------------------
(* Specification.                                                          *)

\* No process runs at first, and the files hold what the operator wrote.
LEMMA InitProcess == Init => ProcessInv
<1> SUFFICES ASSUME Init PROVE ProcessInv
  OBVIOUS
<1>1. TypeInv
  BY PlaceTypes DEF Init, TypeInv
<1>2. \A p \in Processes : ~ Busy(p) /\ at[p] = "off"
  BY DEF Init, Busy, NoJob
<1>3. BusyInv
  BY <1>2 DEF BusyInv
<1>4. SocketInv
  BY <1>2 DEF SocketInv, Moving, Starting, Stopping
<1>5. JobInv
  BY <1>2 DEF JobInv, Init
<1> QED
  BY <1>1, <1>3, <1>4, <1>5 DEF ProcessInv

\* The four parts are inductive together.
LEMMA InductiveProcess == ProcessInv /\ [Next]_vars => ProcessInv'
BY TypeStep, BusyStep, SocketStep, JobStep DEF ProcessInv

\* The records are those that were found, and nothing is to be written.
LEMMA InitRecord == Init => RecordInv
<1> SUFFICES ASSUME Init PROVE RecordInv
  OBVIOUS
<1>1. found \in Seq(Record) /\ records = found
  BY DaemonAssumption DEF Init
<1>2. records = [i \in DOMAIN found |-> records[i]]
  BY <1>1
<1>3. \A i \in DOMAIN found : Shape(records[i]) /\ AsFound(records[i], i)
  <2>1. \A i \in DOMAIN found : records[i] \in Record
    BY <1>1
  <2> QED
    BY <1>1, <2>1 DEF Shape, AsFound, Record
<1>4. plan = [p \in Processes |-> plan[p]] /\ \A p \in Processes : plan[p] = [only |-> FALSE, todo |-> <<>>]
  BY DEF Init
<1>5. DOMAIN <<>> = {}
  OBVIOUS
<1>6. \A p \in Processes : TodoAt(p)
  BY <1>4, <1>5 DEF TodoAt
<1> QED
  BY <1>1, <1>2, <1>3, <1>4, <1>6 DEF RecordInv

\* Whoever changes settings is alone, and the files load the old or the new.
LEMMA PromiseFollows == ProcessInv => PromiseKept
<1> SUFFICES ASSUME ProcessInv, ~ torn, ~ overlapped
             PROVE  Effective \in {promised} \cup {job[p].for : p \in {q \in Processes : Busy(q)}}
  BY DEF PromiseKept, Busy, Job
<1>1. CASE \A p \in Processes : ~ Busy(p)
  BY <1>1 DEF ProcessInv, JobInv
<1>2. ASSUME NEW p \in Processes, Busy(p)
      PROVE  Effective \in {promised} \cup {job[q].for : q \in {r \in Processes : Busy(r)}}
  BY <1>2 DEF ProcessInv, JobInv, JobAt
<1> QED
  BY <1>1, <1>2

\* What of schema 3 is migrated has its ranks from what was found.
LEMMA WinnersFollow == RecordInv => WinnersKept
<1> SUFFICES ASSUME RecordInv, NEW i \in DOMAIN found, found[i].schema = 3, records[i].schema = 4,
                    NEW j \in DOMAIN found[i].src, NEW k \in DOMAIN found[i].src,
                    found[i].src[j] > found[i].src[k] \/ (found[i].src[j] = found[i].src[k] /\ j < k)
             PROVE  records[i].src[j] < records[i].src[k]
  BY DEF WinnersKept
<1>1. found[i].src \in Seq(Nat)
  <2>1. found[i] \in Record
    BY DEF RecordInv
  <2> QED
    BY <2>1 DEF Record
<1>2. records[i].src = Normalised(found[i].src)
  BY DEF RecordInv, AsFound, Ranked
<1> QED
  BY <1>1, <1>2, RankOrder

\* Wherever the daemon dies while it changes settings, a restart loads the old
\* ones or the new, and what was acknowledged stays (saveSettings, LoadDaemon).
THEOREM PromiseKeptCorrect == Spec => []PromiseKept
BY InitProcess, InductiveProcess, PromiseFollows, PTL DEF Spec

\* Whatever step of UpdateSettings fails, the backend ends with the settings
\* that the files load, unless the rollback failed as well.
THEOREM SettingsAgreeCorrect == Spec => SettingsAgree
<1>1. ProcessInv /\ [Next]_vars =>
        [\A p \in Processes :
           ~ Job(p, "none") /\ at'[p] = "serve" /\ job'[p].at = "none" /\ ~ torn' /\ ~ overlapped
             => running'[p] = Effective']_vars
  BY AgreeAtEnd DEF AgreeStep, ProcessInv, Busy, Job
<1> QED
  BY <1>1, InitProcess, InductiveProcess, PTL DEF Spec, SettingsAgree

\* The socket path leads to the process that serves, whoever begins or ends
\* beside it, unless its socket was doubted when the code cannot know better
\* (removeStaleSocket, ListenUnix, removeOwnedSocket).
THEOREM ReachableCorrect == Spec => []Reachable
<1>1. Init => CrossInv
  BY DEF Init, CrossInv, Bound
<1>2. TypeInv /\ CrossInv /\ [Next]_vars => CrossInv'
  BY CrossStep
<1>3. CrossInv => Reachable
  BY DEF CrossInv, Reachable, Bound
<1>4. ProcessInv => TypeInv
  BY DEF ProcessInv
<1> QED
  BY <1>1, <1>2, <1>3, <1>4, InitProcess, InductiveProcess, PTL DEF Spec

\* The source that won a prefix before the migration wins it afterwards, however
\* often migrateRecords fails, is killed or runs in two processes at once.
THEOREM WinnersKeptCorrect == Spec => []WinnersKept
BY InitRecord, RecordStep, WinnersFollow, PTL DEF Spec

-----------------------------------------------------------------------------
(* The k-th smallest number of a finite set.                               *)

Below(S, n) == {m \in S : m < n}

\* The least-number principle, from the order of the finite sets.
LEMMA Smallest ==
  ASSUME NEW T, T \subseteq Nat, T # {}
  PROVE  \E x \in T : \A y \in T : x <= y
<1> DEFINE U == {0..n : n \in T}
<1>1. U # {} /\ U \subseteq FiniteSubsetsOf(Nat)
  <2>1. ASSUME NEW n \in T PROVE 0..n \in FiniteSubsetsOf(Nat)
    BY FS_Interval, n \in Nat DEF FiniteSubsetsOf
  <2> QED  BY <2>1
<1>2. PICK u \in U : \A v \in U : <<v, u>> \notin StrictSubsetOrdering(Nat)
  <2> HIDE DEF U
  <2> QED  BY <1>1, FS_StrictSubsetOrderingWellFounded, WFMin
<1>3. PICK x \in T : u = 0..x
  BY DEF U
<1>4. ASSUME NEW y \in T, ~ (x <= y) PROVE FALSE
  <2>1. x \in Nat /\ y \in Nat /\ y < x
    BY <1>4
  <2>2. <<0..y, 0..x>> \notin StrictSubsetOrdering(Nat)
    BY <1>2, <1>3
  <2>3. 0..y \subseteq 0..x /\ 0..x # 0..y /\ 0..x \subseteq Nat
    <3>1. x \in 0..x /\ x \notin 0..y
      BY <2>1
    <3> QED  BY <2>1, <3>1
  <2> QED  BY <2>2, <2>3 DEF StrictSubsetOrdering
<1> QED  BY <1>3, <1>4

\* What is below a number of a finite set is finite, and fewer than all.
LEMMA BelowFinite ==
  ASSUME NEW F, F \subseteq Nat, IsFiniteSet(F), NEW n
  PROVE  /\ IsFiniteSet(Below(F, n)) /\ Cardinality(Below(F, n)) \in Nat
         /\ n \in F => Cardinality(Below(F, n)) < Cardinality(F)
<1>1. Below(F, n) \in SUBSET F
  BY DEF Below
<1>2. IsFiniteSet(Below(F, n)) /\ Cardinality(Below(F, n)) <= Cardinality(F)
      /\ (Cardinality(Below(F, n)) = Cardinality(F) => Below(F, n) = F)
  BY <1>1, FS_Subset
<1>3. Cardinality(Below(F, n)) \in Nat /\ Cardinality(F) \in Nat
  BY <1>2, FS_CardinalityType
<1>4. n \in F => n \notin Below(F, n)
  BY DEF Below
<1> QED  BY <1>2, <1>3, <1>4

\* A larger number has more below it.
LEMMA BelowGrows ==
  ASSUME NEW F, F \subseteq Nat, IsFiniteSet(F), NEW p \in F, NEW q \in F, p < q
  PROVE  Cardinality(Below(F, p)) < Cardinality(Below(F, q))
<1>1. IsFiniteSet(Below(F, q)) /\ Below(F, q) \subseteq Nat /\ p \in Below(F, q)
  BY BelowFinite DEF Below
<1>2. \A m \in F : m < p => m < q
  <2> TAKE m \in F
  <2>1. m \in Nat /\ p \in Nat /\ q \in Nat
    OBVIOUS
  <2> QED  BY <2>1
<1>3. Below(F, p) = Below(Below(F, q), p)
  BY <1>2 DEF Below
<1> QED  BY <1>1, <1>3, BelowFinite

\* So the number below tells which it is.
LEMMA BelowTells ==
  ASSUME NEW F, F \subseteq Nat, IsFiniteSet(F), NEW p \in F, NEW q \in F,
         Cardinality(Below(F, p)) = Cardinality(Below(F, q))
  PROVE  p = q
<1>1. p \in Nat /\ q \in Nat
      /\ Cardinality(Below(F, p)) \in Nat /\ Cardinality(Below(F, q)) \in Nat
  BY BelowFinite
<1>2. ASSUME p < q PROVE FALSE
  <2>1. Cardinality(Below(F, p)) < Cardinality(Below(F, q))
    BY <1>2, BelowGrows
  <2> QED  BY <1>1, <2>1
<1>3. ASSUME q < p PROVE FALSE
  <2>1. Cardinality(Below(F, q)) < Cardinality(Below(F, p))
    BY <1>3, BelowGrows
  <2> QED  BY <1>1, <2>1
<1> QED  BY <1>1, <1>2, <1>3

\* Without a smaller number there is one fewer below.
LEMMA BelowWithout ==
  ASSUME NEW F, F \subseteq Nat, IsFiniteSet(F), NEW a \in F, NEW p \in F, a < p
  PROVE  Cardinality(Below(F \ {a}, p)) = Cardinality(Below(F, p)) - 1
<1>1. Below(F \ {a}, p) = Below(F, p) \ {a} /\ a \in Below(F, p)
  BY DEF Below
<1>2. IsFiniteSet(Below(F, p))
  BY BelowFinite
<1> QED  BY <1>1, <1>2, FS_RemoveElement

\* For every number below the size there is one with as many below it.
LEMMA BelowReached ==
  ASSUME NEW F, F \subseteq Nat, IsFiniteSet(F)
  PROVE  \A n \in Nat : n < Cardinality(F) => \E p \in F : Cardinality(Below(F, p)) = n
<1> DEFINE T == {n \in Nat : n < Cardinality(F) /\ \A p \in F : Cardinality(Below(F, p)) # n}
<1>1. SUFFICES ASSUME T # {} PROVE FALSE
  OBVIOUS
<1>2. PICK n \in T : \A m \in T : n <= m
  BY <1>1, Smallest
<1>3. n \in Nat /\ n < Cardinality(F) /\ \A p \in F : Cardinality(Below(F, p)) # n
  BY <1>2
<1>4. Cardinality(F) \in Nat
  BY FS_CardinalityType
<1>5. CASE n = 0
  <2>1. F # {}
    BY <1>3, <1>5, FS_EmptySet
  <2>2. PICK p \in F : \A q \in F : p <= q
    BY <2>1, Smallest
  <2>3. ASSUME NEW q \in F PROVE ~ q < p
    <3>1. p <= q /\ p \in Nat /\ q \in Nat
      BY <2>2
    <3> QED  BY <3>1
  <2>4. Below(F, p) = {}
    BY <2>3 DEF Below
  <2> QED  BY <1>3, <1>5, <2>4, FS_EmptySet
<1>6. CASE n # 0
  <2>1. n - 1 \in Nat /\ n - 1 < Cardinality(F) /\ n - 1 \notin T
    BY <1>2, <1>3, <1>4, <1>6
  <2>2. PICK p \in F : Cardinality(Below(F, p)) = n - 1
    BY <2>1
  <2> DEFINE above == {q \in F : p < q}
             upto == Below(F, p) \cup {p}
  <2>3. IsFiniteSet(Below(F, p)) /\ p \notin Below(F, p)
    <3>1. p \in Nat /\ ~ p < p
      OBVIOUS
    <3>2. p \notin Below(F, p)
      BY <3>1 DEF Below
    <3> QED  BY <3>2, BelowFinite
  <2>4. Cardinality(upto) = n
    <3>1. Cardinality(upto) = Cardinality(Below(F, p)) + 1
      BY <2>3, FS_AddElement
    <3> QED  BY <1>3, <2>2, <3>1
  <2>5. above # {}
    <3>1. ASSUME above = {} PROVE F = upto
      <4>1. ASSUME NEW q \in F PROVE q \in upto
        <5>1. ~ p < q /\ p \in Nat /\ q \in Nat
          BY <3>1
        <5> QED  BY <5>1 DEF Below
      <4> QED  BY <4>1 DEF Below
    <3> HIDE DEF above, upto
    <3> QED  BY <1>3, <2>4, <3>1
  <2>6. PICK q \in above : \A r \in above : q <= r
    BY <2>5, Smallest
  <2>7. Below(F, q) = upto
    <3>1. ASSUME NEW r \in F, r < q PROVE r \in upto
      <4>1. ~ p < r /\ p \in Nat /\ r \in Nat
        BY <2>6, <3>1
      <4> QED  BY <4>1 DEF Below
    <3>2. ASSUME NEW r \in upto PROVE r \in F /\ r < q
      <4>1. p < q /\ r \in F /\ (r < p \/ r = p) /\ q \in F
        BY <2>6 DEF Below
      <4> QED  BY <4>1
    <3> QED  BY <3>1, <3>2 DEF Below
  <2> QED  BY <1>3, <2>4, <2>6, <2>7
<1> QED  BY <1>5, <1>6

-----------------------------------------------------------------------------
(* What one migration makes of the records.                                *)

Names == [base : STRING, prefixed : BOOLEAN]
Free(rs) == Priorities \ Used(rs)

\* Records as they may be found, or be left by a migration: a record has no
\* priority, or it has schema 4.
Sound(rs) ==
  /\ found \in Seq(Record)
  /\ rs = [i \in DOMAIN found |-> rs[i]]
  /\ \A i \in DOMAIN found :
       /\ Shape(rs[i]) /\ rs[i].srv6 \in BOOLEAN /\ rs[i].name \in Names
       /\ \/ rs[i].priority = 0
          \/ rs[i].srv6 /\ rs[i].schema = 4

\* The fields of a record that migrates, apart from its priority.
LEMMA DecodedFields ==
  ASSUME NEW r, Shape(r), r.srv6 \in BOOLEAN, r.name \in Names
  PROVE  /\ Shape(Decoded(r)) /\ Decoded(r).schema = 4 /\ Decoded(r).srv6 = r.srv6
         /\ Decoded(r).priority = r.priority /\ Decoded(r).name = Prefixed(r)
         /\ r.schema = 4 => Decoded(r).src = r.src
         /\ Prefixed(r) \in Names
         /\ r.srv6 => Prefixed(r) = r.name
         /\ ~ r.srv6 => Prefixed(r) = [r.name EXCEPT !.prefixed = TRUE]
<1> DEFINE name == Prefixed(r)
           src == CASE r.schema = 2 -> [k \in DOMAIN r.src |-> k]
                    [] r.schema = 3 -> Normalised(r.src)
                    [] OTHER -> r.src
<1>1. Decoded(r) = [r EXCEPT !.schema = 4, !.name = name, !.src = src]
  BY DEF Decoded
<1>2. r.schema = 4 => src = r.src
  OBVIOUS
<1>3. /\ r.srv6 => Prefixed(r) = r.name
      /\ ~ r.srv6 => Prefixed(r) = [r.name EXCEPT !.prefixed = TRUE]
  BY DEF Prefixed
<1>4. Prefixed(r) \in Names
  BY <1>3 DEF Names
<1> HIDE DEF name, src
<1>5. Decoded(r) = [schema |-> 4, srv6 |-> r.srv6, name |-> name, priority |-> r.priority, src |-> src]
  BY <1>1 DEF Shape
<1>6. name = Prefixed(r)
  BY DEF name
<1>7. Shape(Decoded(r))
  BY <1>5 DEF Shape
<1> QED  BY <1>2, <1>3, <1>4, <1>5, <1>6, <1>7

\* A name is prefixed once.
LEMMA PrefixedAgain ==
  ASSUME NEW r, NEW d, r.srv6 \in BOOLEAN, r.name \in Names, d.srv6 = r.srv6, d.name = Prefixed(r)
  PROVE  Prefixed(d) = Prefixed(r)
<1>1. CASE r.srv6
  BY <1>1 DEF Prefixed
<1>2. CASE ~ r.srv6
  <2>1. Prefixed(r) = [r.name EXCEPT !.prefixed = TRUE]
        /\ Prefixed(d) = [Prefixed(r) EXCEPT !.prefixed = TRUE]
    BY <1>2 DEF Prefixed
  <2> QED  BY <2>1 DEF Names
<1> QED  BY <1>1, <1>2

\* The fields of a record that has migrated, which migrates no further.
LEMMA MigratedFields ==
  ASSUME NEW rs, Sound(rs), NEW i \in DOMAIN found, NEW d, d = Migrated(rs)[i]
  PROVE  /\ Shape(d) /\ d.schema = 4 /\ d.srv6 = rs[i].srv6 /\ d.name = Prefixed(rs[i])
         /\ d.name \in Names /\ Prefixed(d) = Prefixed(rs[i])
         /\ d.priority = IF i \in Wanting(rs) THEN Allocated(rs, i) ELSE rs[i].priority
         /\ Decoded(d) = d
<1> DEFINE r == rs[i]
           c == Decoded(r)
           a == Allocated(rs, i)
<1>1. Shape(r) /\ r.srv6 \in BOOLEAN /\ r.name \in Names /\ DOMAIN rs = DOMAIN found
  BY DEF Sound
<1>2. d = IF i \in Wanting(rs) THEN [c EXCEPT !.priority = a] ELSE c
  BY <1>1 DEF Migrated
<1> HIDE DEF r, a
<1>3. /\ Shape(c) /\ c.schema = 4 /\ c.srv6 = r.srv6 /\ c.name = Prefixed(r)
      /\ c.priority = r.priority /\ Prefixed(r) \in Names
  BY <1>1, DecodedFields
<1> HIDE DEF c
<1>4. /\ Shape(d) /\ d.schema = 4 /\ d.srv6 = r.srv6 /\ d.name = Prefixed(r)
      /\ d.priority = IF i \in Wanting(rs) THEN a ELSE r.priority
  <2>1. CASE i \in Wanting(rs)
    <3>1. d = [schema |-> 4, srv6 |-> r.srv6, name |-> Prefixed(r), priority |-> a, src |-> c.src]
      BY <1>2, <1>3, <2>1 DEF Shape
    <3> QED  BY <2>1, <3>1 DEF Shape
  <2>2. CASE i \notin Wanting(rs)
    BY <1>2, <1>3, <2>2
  <2> QED  BY <2>1, <2>2
<1>5. Prefixed(d) = Prefixed(r)
  BY <1>1, <1>4, PrefixedAgain
<1>6. Decoded(d) = d
  <2>1. /\ Shape(Decoded(d)) /\ Decoded(d).schema = 4 /\ Decoded(d).srv6 = d.srv6
        /\ Decoded(d).priority = d.priority /\ Decoded(d).name = Prefixed(d) /\ Decoded(d).src = d.src
    BY <1>1, <1>3, <1>4, DecodedFields
  <2> QED  BY <1>4, <1>5, <2>1 DEF Shape
<1> QED  BY <1>3, <1>4, <1>5, <1>6 DEF r, a

\* Tunnels that want a priority can be counted.
LEMMA WantingFinite ==
  ASSUME NEW rs, Sound(rs)
  PROVE  Wanting(rs) \subseteq DOMAIN found /\ Wanting(rs) \subseteq Nat /\ IsFiniteSet(Wanting(rs))
<1>1. DOMAIN found = 1..Len(found) /\ Len(found) \in Nat
  BY DEF Sound
<1>2. DOMAIN found \subseteq Nat /\ IsFiniteSet(DOMAIN found)
  BY <1>1, FS_Interval
<1>3. Wanting(rs) \in SUBSET DOMAIN found
  BY DEF Wanting, Sound
<1> QED  BY <1>2, <1>3, FS_Subset

\* So can the priorities that are free.
LEMMA FreeFinite ==
  ASSUME NEW rs
  PROVE  Free(rs) \subseteq Priorities /\ Free(rs) \subseteq Nat \ {0} /\ IsFiniteSet(Free(rs))
BY DaemonAssumption, FS_Subset DEF Free

\* What a tunnel is allocated is free, and as many are free below it as tunnels
\* come before it that want one (AllocateSRv6RulePriority).
LEMMA AllocatedHolds ==
  ASSUME NEW rs, Sound(rs), ~ Refused(rs), NEW i \in Wanting(rs)
  PROVE  /\ Allocated(rs, i) \in Free(rs)
         /\ Cardinality(Below(Free(rs), Allocated(rs, i))) = Cardinality(Below(Wanting(rs), i))
<1>1. Free(rs) \subseteq Nat /\ IsFiniteSet(Free(rs))
  BY FreeFinite
<1>2. Wanting(rs) \subseteq Nat /\ IsFiniteSet(Wanting(rs))
  BY WantingFinite
<1>3. ~ Cardinality(Wanting(rs)) > Cardinality(Free(rs))
  BY DEF Refused, Free
<1> DEFINE n == Cardinality(Below(Wanting(rs), i))
<1>4. n \in Nat /\ n < Cardinality(Wanting(rs))
      /\ Cardinality(Wanting(rs)) \in Nat /\ Cardinality(Free(rs)) \in Nat
  BY <1>1, <1>2, BelowFinite, FS_CardinalityType
<1>5. PICK p \in Free(rs) : Cardinality(Below(Free(rs), p)) = n
  BY <1>1, <1>3, <1>4, BelowReached
<1>6. Allocated(rs, i) = CHOOSE q \in Free(rs) : Cardinality(Below(Free(rs), q)) = n
  BY DEF Allocated, Free, Below
<1> HIDE DEF n
<1>7. Allocated(rs, i) \in Free(rs) /\ Cardinality(Below(Free(rs), Allocated(rs, i))) = n
  BY <1>5, <1>6
<1> QED  BY <1>7 DEF n

\* Nothing else is.
LEMMA AllocatedIs ==
  ASSUME NEW rs, NEW i, NEW p \in Free(rs),
         Cardinality(Below(Free(rs), p)) = Cardinality(Below(Wanting(rs), i))
  PROVE  Allocated(rs, i) = p
<1> DEFINE n == Cardinality(Below(Wanting(rs), i))
           a == Allocated(rs, i)
<1>1. a = CHOOSE q \in Free(rs) : Cardinality(Below(Free(rs), q)) = n
  BY DEF Allocated, Free, Below
<1>2. Cardinality(Below(Free(rs), p)) = n
  OBVIOUS
<1> HIDE DEF n, a
<1>3. a \in Free(rs) /\ Cardinality(Below(Free(rs), a)) = n
  BY <1>1, <1>2
<1>4. a = p
  BY <1>2, <1>3, FreeFinite, BelowTells
<1> QED  BY <1>4 DEF a

\* A record that has migrated wants nothing any more.
LEMMA Settled ==
  ASSUME NEW rs, Sound(rs), ~ Refused(rs), NEW i \in DOMAIN found, rs[i] = Migrated(rs)[i]
  PROVE  i \notin Wanting(rs)
<1>1. SUFFICES ASSUME i \in Wanting(rs) PROVE FALSE
  OBVIOUS
<1>2. rs[i].priority = 0
  BY <1>1 DEF Wanting
<1>3. Migrated(rs)[i].priority = Allocated(rs, i)
  BY <1>1, MigratedFields
<1>4. Allocated(rs, i) # 0
  BY <1>1, AllocatedHolds, FreeFinite
<1> QED  BY <1>2, <1>3, <1>4

\* The records when the one at k has been written.
WithOne(rs, k) == [rs EXCEPT ![k] = Migrated(rs)[k]]

\* One record is written: what is known of the records, and of the others.
LEMMA WrittenSound ==
  ASSUME NEW rs, Sound(rs), ~ Refused(rs), NEW k \in DOMAIN found
  PROVE  /\ Sound(WithOne(rs, k))
         /\ WithOne(rs, k)[k] = Migrated(rs)[k]
         /\ \A i \in DOMAIN found \ {k} : WithOne(rs, k)[i] = rs[i]
         /\ \A i \in DOMAIN found : /\ WithOne(rs, k)[i].srv6 = rs[i].srv6
                                    /\ Prefixed(WithOne(rs, k)[i]) = Prefixed(rs[i])
<1> DEFINE new == WithOne(rs, k)
<1>1. /\ new = [i \in DOMAIN found |-> new[i]]
      /\ new[k] = Migrated(rs)[k] /\ \A i \in DOMAIN found \ {k} : new[i] = rs[i]
  BY DEF Sound, WithOne
<1> HIDE DEF new
<1> DEFINE d == Migrated(rs)[k]
<1>2. /\ Shape(d) /\ d.schema = 4 /\ d.srv6 = rs[k].srv6 /\ Prefixed(d) = Prefixed(rs[k])
      /\ d.name \in Names
      /\ d.priority = IF k \in Wanting(rs) THEN Allocated(rs, k) ELSE rs[k].priority
  BY MigratedFields
<1>3. d.priority = 0 \/ (d.srv6 /\ d.schema = 4)
  <2>1. CASE k \in Wanting(rs)
    BY <1>2, <2>1 DEF Wanting
  <2>2. CASE k \notin Wanting(rs)
    BY <1>2, <2>2 DEF Sound
  <2> QED  BY <2>1, <2>2
<1>4. rs[k].srv6 \in BOOLEAN
  BY DEF Sound
<1> HIDE DEF d
<1>5. new[k] = d
  BY <1>1 DEF d
<1>6. \A i \in DOMAIN found :
        /\ Shape(new[i]) /\ new[i].srv6 \in BOOLEAN /\ new[i].name \in Names
        /\ \/ new[i].priority = 0
           \/ new[i].srv6 /\ new[i].schema = 4
  <2> TAKE i \in DOMAIN found
  <2>1. CASE i = k
    BY <1>2, <1>3, <1>4, <1>5, <2>1
  <2>2. CASE i # k
    BY <1>1, <2>2 DEF Sound
  <2> QED  BY <2>1, <2>2
<1>7. Sound(new)
  BY <1>1, <1>6 DEF Sound
<1>8. \A i \in DOMAIN found : new[i].srv6 = rs[i].srv6 /\ Prefixed(new[i]) = Prefixed(rs[i])
  BY <1>1, <1>2, <1>5
<1> QED  BY <1>1, <1>7, <1>8 DEF new

\* A record that wants nothing changes nothing for the others.
LEMMA WrittenPlain ==
  ASSUME NEW rs, Sound(rs), ~ Refused(rs), NEW k \in DOMAIN found, k \notin Wanting(rs)
  PROVE  Wanting(WithOne(rs, k)) = Wanting(rs) /\ Free(WithOne(rs, k)) = Free(rs)
<1> DEFINE new == WithOne(rs, k)
<1>1. /\ Sound(new)
      /\ new[k] = Migrated(rs)[k] /\ \A i \in DOMAIN found \ {k} : new[i] = rs[i]
      /\ \A i \in DOMAIN found : new[i].srv6 = rs[i].srv6 /\ Prefixed(new[i]) = Prefixed(rs[i])
  BY WrittenSound
<1> HIDE DEF new
<1>2. DOMAIN new = DOMAIN found /\ DOMAIN rs = DOMAIN found
  BY <1>1 DEF Sound
<1>3. new[k].priority = rs[k].priority /\ new[k].schema = 4
  BY <1>1, MigratedFields
<1>4. \A i \in DOMAIN found : new[i].priority = rs[i].priority
  BY <1>1, <1>3
<1>5. Wanting(new) = Wanting(rs)
  BY <1>1, <1>2, <1>4 DEF Wanting
<1>6. rs[k].srv6 => rs[k].schema = 4
  BY <1>2 DEF Sound, Wanting
<1>7. \A i \in DOMAIN found : new[i].schema = 4 /\ new[i].srv6 <=> rs[i].schema = 4 /\ rs[i].srv6
  BY <1>1, <1>3, <1>6
<1>8. Used(new) = Used(rs)
  BY <1>2, <1>4, <1>7 DEF Used
<1> QED  BY <1>5, <1>8 DEF Free, new

\* The first that wants a priority takes the lowest that is free.
LEMMA WrittenWanting ==
  ASSUME NEW rs, Sound(rs), ~ Refused(rs), NEW k \in DOMAIN found, k \in Wanting(rs)
  PROVE  /\ Wanting(WithOne(rs, k)) = Wanting(rs) \ {k}
         /\ Free(WithOne(rs, k)) = Free(rs) \ {Allocated(rs, k)}
<1> DEFINE new == WithOne(rs, k)
<1>1. /\ Sound(new)
      /\ new[k] = Migrated(rs)[k] /\ \A i \in DOMAIN found \ {k} : new[i] = rs[i]
      /\ \A i \in DOMAIN found : new[i].srv6 = rs[i].srv6 /\ Prefixed(new[i]) = Prefixed(rs[i])
  BY WrittenSound
<1> HIDE DEF new
<1>2. DOMAIN new = DOMAIN found /\ DOMAIN rs = DOMAIN found
  BY <1>1 DEF Sound
<1> DEFINE a == Allocated(rs, k)
<1>3. new[k].priority = a /\ new[k].schema = 4 /\ new[k].srv6 /\ rs[k].priority = 0
  BY <1>1, MigratedFields DEF Wanting
<1>4. a \in Free(rs) /\ a # 0
  BY AllocatedHolds, FreeFinite
<1> HIDE DEF a
<1>5. Wanting(new) = Wanting(rs) \ {k}
  BY <1>1, <1>2, <1>3, <1>4 DEF Wanting
<1>6. ASSUME NEW p \in Priorities PROVE p \in Used(new) <=> p \in Used(rs) \/ p = a
  <2>1. p # 0
    BY DaemonAssumption
  <2>2. ASSUME NEW i \in DOMAIN found, new[i].schema = 4, new[i].srv6, p = new[i].priority
        PROVE  p \in Used(rs) \/ p = a
    BY <1>1, <1>2, <1>3, <2>2 DEF Used
  <2>3. ASSUME NEW i \in DOMAIN found, rs[i].schema = 4, rs[i].srv6, p = rs[i].priority
        PROVE  p \in Used(new)
    <3>1. i # k
      BY <1>3, <2>1, <2>3
    <3> QED  BY <1>1, <1>2, <2>3, <3>1 DEF Used
  <2>4. a \in Used(new)
    BY <1>2, <1>3 DEF Used
  <2> QED  BY <1>2, <2>2, <2>3, <2>4 DEF Used
<1>7. Free(new) = Free(rs) \ {a}
  BY <1>6 DEF Free
<1> QED  BY <1>5, <1>7 DEF a, new

\* The lowest free priority goes first, so what the others are allocated stays.
LEMMA AllocatedStays ==
  ASSUME NEW rs, Sound(rs), ~ Refused(rs), NEW k \in DOMAIN found,
         \A j \in DOMAIN found : j < k => rs[j] = Migrated(rs)[j],
         NEW i \in Wanting(rs), i # k
  PROVE  Allocated(WithOne(rs, k), i) = Allocated(rs, i)
<1> DEFINE new == WithOne(rs, k)
           p == Allocated(rs, i)
<1>1. p \in Free(rs) /\ Cardinality(Below(Free(rs), p)) = Cardinality(Below(Wanting(rs), i))
  BY AllocatedHolds
<1>2. CASE k \notin Wanting(rs)
  <2>1. Wanting(new) = Wanting(rs) /\ Free(new) = Free(rs)
    BY <1>2, WrittenPlain
  <2> HIDE DEF new, p
  <2>2. Allocated(new, i) = p
    BY <1>1, <2>1, AllocatedIs
  <2> QED  BY <2>2 DEF new, p
<1>3. CASE k \in Wanting(rs)
  <2> DEFINE a == Allocated(rs, k)
             W == Wanting(rs)
             F == Free(rs)
  <2>1. a \in F /\ Cardinality(Below(F, a)) = Cardinality(Below(W, k))
    BY <1>3, AllocatedHolds
  <2>2. Wanting(new) = W \ {k} /\ Free(new) = F \ {a}
    BY <1>3, WrittenWanting
  <2>3. /\ W \subseteq Nat /\ IsFiniteSet(W) /\ W \subseteq DOMAIN found
        /\ F \subseteq Nat /\ IsFiniteSet(F)
    BY WantingFinite, FreeFinite
  <2>4. Below(W, k) = {}
    BY <2>3, Settled DEF Below
  <2>5. k < i
    <3>1. i \in Nat /\ k \in Nat
      BY <1>3, <2>3
    <3>2. ~ i < k
      BY <2>4 DEF Below
    <3> QED  BY <3>1, <3>2
  <2> HIDE DEF new, p, a, W, F
  <2>6. Cardinality(Below(F, a)) = 0
    BY <2>1, <2>4, FS_EmptySet
  <2>7. i \in W /\ k \in W /\ p \in F /\ Cardinality(Below(F, p)) = Cardinality(Below(W, i))
    BY <1>1, <1>3 DEF W, F
  <2>8. Cardinality(Below(W, k)) < Cardinality(Below(W, i)) /\ Cardinality(Below(W, k)) = 0
    BY <2>3, <2>4, <2>5, <2>7, BelowGrows, FS_EmptySet
  <2>9. p # a /\ ~ p < a
    <3>1. p # a
      BY <2>6, <2>7, <2>8
    <3>2. Below(F, a) = {}
      BY <2>3, <2>6, BelowFinite, FS_EmptySet
    <3>3. ~ p < a
      BY <2>7, <3>2 DEF Below
    <3> QED  BY <3>1, <3>3
  <2>10. a < p
    BY <2>1, <2>3, <2>7, <2>9
  <2>11. Cardinality(Below(F \ {a}, p)) = Cardinality(Below(F, p)) - 1
    BY <2>1, <2>3, <2>7, <2>10, BelowWithout
  <2>12. Cardinality(Below(W \ {k}, i)) = Cardinality(Below(W, i)) - 1
    BY <2>3, <2>5, <2>7, BelowWithout
  <2>13. p \in Free(new) /\ Cardinality(Below(Free(new), p)) = Cardinality(Below(Wanting(new), i))
    BY <2>2, <2>7, <2>9, <2>11, <2>12
  <2>14. Allocated(new, i) = p
    BY <2>13, AllocatedIs
  <2> QED  BY <2>14 DEF new, p
<1> QED  BY <1>2, <1>3

\* A migration that goes on from there comes to the same records.
LEMMA SameInTheEnd ==
  ASSUME NEW rs, Sound(rs), ~ Refused(rs), NEW k \in DOMAIN found,
         \A j \in DOMAIN found : j < k => rs[j] = Migrated(rs)[j]
  PROVE  Migrated(WithOne(rs, k)) = Migrated(rs)
<1> DEFINE new == WithOne(rs, k)
<1>1. /\ Sound(new)
      /\ new[k] = Migrated(rs)[k] /\ \A i \in DOMAIN found \ {k} : new[i] = rs[i]
      /\ \A i \in DOMAIN found : new[i].srv6 = rs[i].srv6 /\ Prefixed(new[i]) = Prefixed(rs[i])
  BY WrittenSound
<1>2. \A i \in Wanting(rs) \ {k} : Allocated(new, i) = Allocated(rs, i)
  BY AllocatedStays
<1>3. Wanting(new) = Wanting(rs) \ {k}
  <2>1. CASE k \in Wanting(rs)
    BY <2>1, WrittenWanting
  <2>2. CASE k \notin Wanting(rs)
    BY <2>2, WrittenPlain
  <2> QED  BY <2>1, <2>2
<1> HIDE DEF new
<1>4. DOMAIN new = DOMAIN found /\ DOMAIN rs = DOMAIN found
  BY <1>1 DEF Sound
<1>5. ASSUME NEW i \in DOMAIN found PROVE Migrated(new)[i] = Migrated(rs)[i]
  <2>1. CASE i = k
    <3>1. Migrated(new)[k] = Decoded(Migrated(rs)[k])
      BY <1>1, <1>3, <1>4 DEF Migrated
    <3>2. Decoded(Migrated(rs)[k]) = Migrated(rs)[k]
      BY MigratedFields
    <3> QED  BY <2>1, <3>1, <3>2
  <2>2. CASE i # k
    <3>1. new[i] = rs[i] /\ (i \in Wanting(new) <=> i \in Wanting(rs))
      BY <1>1, <1>3, <2>2
    <3>2. i \in Wanting(rs) => Allocated(new, i) = Allocated(rs, i)
      BY <1>2, <2>2
    <3> QED  BY <1>4, <3>1, <3>2 DEF Migrated
  <2> QED  BY <2>1, <2>2
<1>6. /\ Migrated(new) = [i \in DOMAIN found |-> Migrated(new)[i]]
      /\ Migrated(rs) = [i \in DOMAIN found |-> Migrated(rs)[i]]
  BY <1>4 DEF Migrated
<1>7. Migrated(new) = Migrated(rs)
  BY <1>5, <1>6
<1> QED  BY <1>7 DEF new

\* It is not refused, either: names and priorities stay distinct, and there are
\* priorities enough (migrateRecords).
LEMMA NotRefused ==
  ASSUME NEW rs, Sound(rs), ~ Refused(rs), NEW k \in DOMAIN found
  PROVE  ~ Refused(WithOne(rs, k))
<1> DEFINE new == WithOne(rs, k)
<1>1. /\ Sound(new)
      /\ new[k] = Migrated(rs)[k] /\ \A i \in DOMAIN found \ {k} : new[i] = rs[i]
      /\ \A i \in DOMAIN found : new[i].srv6 = rs[i].srv6 /\ Prefixed(new[i]) = Prefixed(rs[i])
  BY WrittenSound
<1>2. k \notin Wanting(rs) => Wanting(new) = Wanting(rs) /\ Free(new) = Free(rs)
  BY WrittenPlain
<1>3. k \in Wanting(rs) => /\ Wanting(new) = Wanting(rs) \ {k}
                           /\ Free(new) = Free(rs) \ {Allocated(rs, k)}
  BY WrittenWanting
<1> HIDE DEF new
<1>4. DOMAIN new = DOMAIN found /\ DOMAIN rs = DOMAIN found
  BY <1>1 DEF Sound
<1>5. new[k].schema = 4
      /\ new[k].priority = IF k \in Wanting(rs) THEN Allocated(rs, k) ELSE rs[k].priority
  BY <1>1, MigratedFields
<1>6. \A i \in DOMAIN found : new[i].schema \in Schemas
  <2>1. \A i \in DOMAIN found : rs[i].schema \in Schemas
    BY <1>4 DEF Refused
  <2> QED  BY <1>1, <1>5, <2>1 DEF Schemas
<1>7. \A i, j \in DOMAIN found : i # j => Prefixed(new[i]) # Prefixed(new[j])
  <2>1. \A i, j \in DOMAIN found : i # j => Prefixed(rs[i]) # Prefixed(rs[j])
    BY <1>4 DEF Refused
  <2> QED  BY <1>1, <2>1
<1>8. \A i, j \in DOMAIN found : i # j => new[i].priority # new[j].priority \/ new[i].priority = 0
  <2>1. \A i, j \in DOMAIN found : i # j => rs[i].priority # rs[j].priority \/ rs[i].priority = 0
    BY <1>4 DEF Refused
  <2>2. CASE k \notin Wanting(rs)
    <3>1. \A i \in DOMAIN found : new[i].priority = rs[i].priority
      BY <1>1, <1>5, <2>2
    <3> QED  BY <2>1, <3>1
  <2>3. CASE k \in Wanting(rs)
    <3>1. Allocated(rs, k) \in Free(rs)
      BY <2>3, AllocatedHolds
    <3>2. \A j \in DOMAIN found : rs[j].priority = 0 \/ rs[j].priority \in Used(rs)
      BY <1>4 DEF Sound, Used
    <3>3. \A j \in DOMAIN found : rs[j].priority = 0 \/ rs[j].priority # Allocated(rs, k)
      BY <3>1, <3>2 DEF Free
    <3>4. Allocated(rs, k) # 0
      BY <3>1, FreeFinite
    <3>5. \A j \in DOMAIN found \ {k} : new[j].priority # new[k].priority
      BY <1>1, <1>5, <2>3, <3>3, <3>4
    <3> QED  BY <1>1, <2>1, <3>5
  <2> QED  BY <2>2, <2>3
<1>9. ~ Cardinality(Wanting(new)) > Cardinality(Free(new))
  <2>1. ~ Cardinality(Wanting(rs)) > Cardinality(Free(rs))
    BY DEF Refused, Free
  <2>2. CASE k \notin Wanting(rs)
    BY <1>2, <2>1, <2>2
  <2>3. CASE k \in Wanting(rs)
    <3>1. IsFiniteSet(Wanting(rs)) /\ IsFiniteSet(Free(rs)) /\ Allocated(rs, k) \in Free(rs)
      BY <2>3, WantingFinite, FreeFinite, AllocatedHolds
    <3>2. Cardinality(Wanting(rs) \ {k}) = Cardinality(Wanting(rs)) - 1
          /\ Cardinality(Free(rs) \ {Allocated(rs, k)}) = Cardinality(Free(rs)) - 1
      BY <2>3, <3>1, FS_RemoveElement
    <3>3. Cardinality(Wanting(rs)) \in Nat /\ Cardinality(Free(rs)) \in Nat
      BY <3>1, FS_CardinalityType
    <3>4. Cardinality(Wanting(new)) = Cardinality(Wanting(rs)) - 1
          /\ Cardinality(Free(new)) = Cardinality(Free(rs)) - 1
      BY <1>3, <2>3, <3>2
    <3> QED  BY <2>1, <3>3, <3>4
  <2> QED  BY <2>2, <2>3
<1>10. ~ Cardinality(Wanting(new)) > Cardinality(Priorities \ Used(new))
  BY <1>9 DEF Free
<1>11. \A i \in DOMAIN found : new[i].schema = 4 /\ new[i].srv6 => new[i].priority \in Permitted
  <2>1. \A i \in DOMAIN found : rs[i].schema = 4 /\ rs[i].srv6 => rs[i].priority \in Permitted
    BY <1>4 DEF Refused
  <2>2. ASSUME k \in Wanting(rs) PROVE new[k].priority \in Permitted
    BY <1>5, <2>2, AllocatedHolds, FreeFinite, DaemonAssumption
  <2>3. ASSUME k \notin Wanting(rs), rs[k].srv6 PROVE new[k].priority \in Permitted
    BY <1>4, <1>5, <2>1, <2>3 DEF Sound, Wanting
  <2> QED  BY <1>1, <2>1, <2>2, <2>3
<1>12. ~ Refused(new)
  BY <1>4, <1>6, <1>7, <1>8, <1>10, <1>11, Zenon DEF Refused
<1> QED  BY <1>12 DEF new

-----------------------------------------------------------------------------
(* Migrations that fail, are killed and run beside each other.             *)

Before == {"off", "load", "open"}
AllMigrated == \A i \in DOMAIN found : records[i] = Migrated(found)[i]

\* What a process has still to write is what is not there yet.
Remaining(p) ==
  \A i \in DOMAIN found :
    IF i \in DOMAIN plan[p].todo THEN plan[p].todo[i] = Migrated(found)[i]
    ELSE records[i] = Migrated(found)[i]

\* The records on disk lead to the records that those found lead to, and who
\* has got past the migration has them.
MigrationInv ==
  /\ Sound(found) /\ Sound(records)
  /\ IF Refused(found) THEN records = found
     ELSE ~ Refused(records) /\ Migrated(records) = Migrated(found)
  /\ \A p \in Processes : at[p] \notin Before =>
       /\ ~ Refused(found)
       /\ IF at[p] = "commit" THEN Remaining(p) ELSE AllMigrated

\* A process that only moves on from a place past the migration, or back before
\* it, changes nothing of that.
LEMMA MigrationKept ==
  ASSUME MigrationInv, UNCHANGED <<found, records>>,
         \A p \in Processes :
           \/ at'[p] \in Before
           \/ at'[p] = at[p] /\ plan'[p] = plan[p]
           \/ at[p] \notin Before \cup {"commit"} /\ at'[p] # "commit"
  PROVE  MigrationInv'
<1>1. Sound(found)' /\ Sound(records)'
  BY DEF MigrationInv, Sound
<1>2. (Refused(found)' <=> Refused(found)) /\ (Refused(records)' <=> Refused(records))
  OBVIOUS
<1>3. Migrated(records)' = Migrated(records) /\ Migrated(found)' = Migrated(found)
  OBVIOUS
<1> QED  BY <1>1, <1>2, <1>3 DEF MigrationInv, Remaining, AllMigrated

\* Nothing has migrated at first.
LEMMA InitMigration == Init => MigrationInv
<1> SUFFICES ASSUME Init PROVE MigrationInv
  OBVIOUS
<1>1. PICK profile \in Profiles : found = profile.found
  BY DEF Init
<1>2. found \in Seq(Record)
      /\ \A i \in DOMAIN found :
           \/ found[i].priority = 0
           \/ found[i].srv6 /\ found[i].schema = 4
  BY <1>1, DaemonAssumption
<1>3. found = [i \in DOMAIN found |-> found[i]] /\ \A i \in DOMAIN found : found[i] \in Record
  BY <1>2
<1>4. \A i \in DOMAIN found : Shape(found[i]) /\ found[i].srv6 \in BOOLEAN /\ found[i].name \in Names
  BY <1>3 DEF Record, Shape, Names
<1>5. Sound(found)
  BY <1>2, <1>3, <1>4 DEF Sound
<1>6. records = found /\ \A p \in Processes : at[p] = "off"
  BY DEF Init
<1> QED  BY <1>5, <1>6 DEF MigrationInv, Before

\* One record of one process is written, or may have been.
LEMMA CommitMigration ==
  ASSUME TypeInv, RecordInv, MigrationInv, NEW p \in Processes, CommitRecord(p)
  PROVE  MigrationInv'
<1>1. PICK i \in DOMAIN plan[p].todo :
        /\ \A j \in DOMAIN plan[p].todo : i <= j
        /\ \/ /\ Written(p, i) /\ at' = at
              /\ plan' = [plan EXCEPT ![p].todo = [j \in DOMAIN @ \ {i} |-> @[j]]]
           \/ /\ Written(p, i) \/ UNCHANGED records
              /\ plan' = plan /\ at' = [at EXCEPT ![p] = "off"]
  BY DEF CommitRecord, Off, Go
<1>2. found' = found /\ at[p] = "commit"
  BY DEF CommitRecord
<1>3. ~ Refused(found) /\ ~ Refused(records) /\ Migrated(records) = Migrated(found) /\ Remaining(p)
      /\ Sound(records) /\ Sound(found)
  BY <1>2 DEF MigrationInv, Before
<1>4. i \in DOMAIN found /\ DOMAIN plan[p].todo \subseteq DOMAIN found
  BY DEF RecordInv, TodoAt
<1>5. \A q \in Processes : at'[q] = at[q] \/ (q = p /\ at'[q] = "off")
  BY <1>1 DEF TypeInv
<1>6. CASE UNCHANGED <<records, plan>>
  <2>1. \A q \in Processes : at'[q] \in Before \/ (at'[q] = at[q] /\ plan'[q] = plan[q])
    BY <1>5, <1>6 DEF Before
  <2> QED  BY <1>2, <1>6, <2>1, MigrationKept
<1>7. CASE Written(p, i)
  <2>1. records' = WithOne(records, i)
    BY <1>3, <1>4, <1>7 DEF Written, WithOne, Remaining
  <2>2. \A j \in DOMAIN found : j < i => records[j] = Migrated(records)[j]
    <3>1. DOMAIN found \subseteq Nat
      BY <1>3 DEF Sound
    <3>2. \A j \in DOMAIN found : j < i => j \notin DOMAIN plan[p].todo
      BY <1>1, <1>4, <3>1
    <3> QED  BY <1>3, <3>2 DEF Remaining
  <2>3. Sound(WithOne(records, i)) /\ ~ Refused(WithOne(records, i))
        /\ Migrated(WithOne(records, i)) = Migrated(records)
    BY <1>3, <1>4, <2>2, WrittenSound, NotRefused, SameInTheEnd
  <2>4. /\ WithOne(records, i)[i] = Migrated(records)[i]
        /\ \A j \in DOMAIN found \ {i} : WithOne(records, i)[j] = records[j]
    BY <1>3, <1>4, WrittenSound
  <2>5. Sound(found)' /\ Sound(records)'
    BY <1>2, <1>3, <2>1, <2>3 DEF Sound
  <2>6. ~ Refused(found)' /\ ~ Refused(records)'
        /\ Migrated(records)' = Migrated(found) /\ Migrated(found)' = Migrated(found)
    BY <1>2, <1>3, <2>1, <2>3
  <2>7. records'[i] = Migrated(found)[i] /\ \A j \in DOMAIN found \ {i} : records'[j] = records[j]
    BY <1>3, <2>1, <2>4
  <2>8. ASSUME NEW q \in Processes, at'[q] \notin Before
        PROVE  IF at'[q] = "commit" THEN Remaining(q)' ELSE AllMigrated'
    <3>1. at'[q] = at[q] /\ at[q] \notin Before
      BY <1>5, <2>8 DEF Before
    <3>2. CASE at[q] # "commit"
      <4>1. AllMigrated
        BY <3>1, <3>2 DEF MigrationInv
      <4>2. AllMigrated'
        BY <1>2, <2>6, <2>7, <4>1 DEF AllMigrated
      <4> QED  BY <3>1, <3>2, <4>2
    <3>3. CASE at[q] = "commit"
      <4>1. Remaining(q)
        BY <3>1, <3>3 DEF MigrationInv
      <4>2. plan'[q] = plan[q] => Remaining(q)'
        BY <1>2, <2>6, <2>7, <4>1 DEF Remaining
      <4>3. CASE plan' = plan
        BY <3>1, <3>3, <4>2, <4>3
      <4>4. CASE plan' = [plan EXCEPT ![p].todo = [j \in DOMAIN @ \ {i} |-> @[j]]]
        <5>1. CASE q # p
          BY <3>1, <3>3, <4>2, <4>4, <5>1 DEF RecordInv
        <5>2. CASE q = p
          <6> DEFINE rest == [j \in DOMAIN plan[p].todo \ {i} |-> plan[p].todo[j]]
          <6>1. plan[p] = [only |-> plan[p].only, todo |-> plan[p].todo] /\ p \in DOMAIN plan
            BY DEF RecordInv, TodoAt
          <6>2. plan'[p] = [plan[p] EXCEPT !.todo = rest]
            BY <4>4, <6>1
          <6>3. /\ DOMAIN rest = DOMAIN plan[p].todo \ {i}
                /\ \A j \in DOMAIN rest : rest[j] = plan[p].todo[j]
            OBVIOUS
          <6> HIDE DEF rest
          <6>4. plan'[p].todo = rest
            BY <6>1, <6>2
          <6>5. Remaining(p)'
            BY <1>2, <1>3, <2>6, <2>7, <6>3, <6>4 DEF Remaining
          <6> QED  BY <3>1, <3>3, <5>2, <6>5
        <5> QED  BY <5>1, <5>2
      <4> QED  BY <1>1, <4>3, <4>4
    <3> QED  BY <3>2, <3>3
  <2> QED  BY <2>5, <2>6, <2>8 DEF MigrationInv
<1> QED  BY <1>1, <1>6, <1>7

\* A plan is what one migration of the records would change.
LEMMA OpenMigration ==
  ASSUME TypeInv, RecordInv, MigrationInv, NEW p \in Processes, Open(p)
  PROVE  MigrationInv'
<1>1. UNCHANGED <<found, records>>
  BY DEF Open, disk
<1>2. CASE Refused(records)
  <2>1. \A q \in Processes : at'[q] \in Before \/ (at'[q] = at[q] /\ plan'[q] = plan[q])
    BY <1>2 DEF Open, Off, Go, TypeInv, Before
  <2> QED  BY <1>1, <2>1, MigrationKept
<1>3. CASE ~ Refused(records)
  <2>1. at' = [at EXCEPT ![p] = "commit"] /\ plan' = [plan EXCEPT ![p].todo = Rewrites(records)]
    BY <1>3 DEF Open, Go
  <2>2. ~ Refused(found) /\ Migrated(records) = Migrated(found) /\ Sound(records) /\ Sound(found)
    BY <1>3 DEF MigrationInv
  <2>3. DOMAIN records = DOMAIN found
    BY <2>2 DEF Sound
  <2>4. plan'[p].todo = Rewrites(records)
    <3>1. plan[p] = [only |-> plan[p].only, todo |-> plan[p].todo] /\ p \in DOMAIN plan
      BY DEF RecordInv, TodoAt
    <3> QED  BY <2>1, <3>1
  <2>5. \A i \in DOMAIN found :
          IF i \in DOMAIN Rewrites(records) THEN Rewrites(records)[i] = Migrated(found)[i]
          ELSE records[i] = Migrated(found)[i]
    BY <2>2, <2>3 DEF Rewrites
  <2>6. Sound(found)' /\ Sound(records)'
    BY <1>1, <2>2 DEF Sound
  <2>7. ~ Refused(found)' /\ ~ Refused(records)'
        /\ Migrated(records)' = Migrated(found) /\ Migrated(found)' = Migrated(found)
    BY <1>1, <1>3, <2>2
  <2>8. Remaining(p)'
    BY <1>1, <2>4, <2>5, <2>7 DEF Remaining
  <2>9. ASSUME NEW q \in Processes, at'[q] \notin Before
        PROVE  IF at'[q] = "commit" THEN Remaining(q)' ELSE AllMigrated'
    <3>1. CASE q = p
      BY <2>1, <2>8, <3>1 DEF TypeInv
    <3>2. CASE q # p
      <4>1. at'[q] = at[q] /\ plan'[q] = plan[q]
        BY <2>1, <3>2 DEF TypeInv, RecordInv
      <4>2. IF at[q] = "commit" THEN Remaining(q) ELSE AllMigrated
        BY <2>9, <4>1 DEF MigrationInv
      <4> QED  BY <1>1, <2>7, <4>1, <4>2 DEF Remaining, AllMigrated
    <3> QED  BY <3>1, <3>2
  <2> QED  BY <2>6, <2>7, <2>9 DEF MigrationInv
<1> QED  BY <1>2, <1>3

\* When nothing is left to be written, every record has migrated.
LEMMA OpenedMigration ==
  ASSUME TypeInv, RecordInv, MigrationInv, NEW p \in Processes, Opened(p)
  PROVE  MigrationInv'
<1>1. UNCHANGED <<found, records, plan>> /\ at[p] = "commit" /\ DOMAIN plan[p].todo = {}
      /\ at' = [at EXCEPT ![p] = IF plan[p].only THEN "off" ELSE "engine"]
  BY DEF Opened, Go, disk
<1>2. ~ Refused(found) /\ Remaining(p)
  BY <1>1 DEF MigrationInv, Before
<1>3. AllMigrated
  BY <1>1, <1>2 DEF Remaining, AllMigrated
<1>4. Sound(found)' /\ Sound(records)'
  BY <1>1 DEF MigrationInv, Sound
<1>5. (Refused(found)' <=> Refused(found)) /\ (Refused(records)' <=> Refused(records))
      /\ Migrated(records)' = Migrated(records) /\ Migrated(found)' = Migrated(found)
  BY <1>1
<1>6. AllMigrated'
  BY <1>1, <1>3, <1>5 DEF AllMigrated
<1>7. ASSUME NEW q \in Processes, at'[q] = "commit" PROVE Remaining(q)'
  <2>1. at[q] = "commit"
    BY <1>1, <1>7 DEF TypeInv
  <2> QED  BY <1>1, <1>5, <2>1 DEF MigrationInv, Remaining, Before
<1> QED  BY <1>2, <1>4, <1>5, <1>6, <1>7 DEF MigrationInv


\* No step takes the migrated records away again: each process that has served or
\* serves has got past the migration, and only migrations write records.
LEMMA MigrationStep ==
  ASSUME TypeInv, BusyInv, RecordInv, MigrationInv, [Next]_vars
  PROVE  MigrationInv'
<1>1. ASSUME NEW p \in Processes, NEW mode \in {"serve", "migrate"}, Start(p, mode) PROVE MigrationInv'
  <2>1. UNCHANGED <<found, records>> /\ at' = [at EXCEPT ![p] = "load"]
        /\ plan' = [plan EXCEPT ![p] = [only |-> mode = "migrate", todo |-> <<>>]]
    BY <1>1 DEF Start, Go, disk
  <2>2. \A q \in Processes : at'[q] \in Before \/ (at'[q] = at[q] /\ plan'[q] = plan[q])
    BY <2>1 DEF TypeInv, RecordInv, Before
  <2> QED  BY <2>1, <2>2, MigrationKept
<1>2. ASSUME NEW p \in Processes, Open(p) PROVE MigrationInv'
  BY <1>2, OpenMigration
<1>3. ASSUME NEW p \in Processes, CommitRecord(p) PROVE MigrationInv'
  BY <1>3, CommitMigration
<1>4. ASSUME NEW p \in Processes, Opened(p) PROVE MigrationInv'
  BY <1>4, OpenedMigration
<1>5. ASSUME NEW p \in Processes, Load(p) PROVE MigrationInv'
  <2>1. /\ UNCHANGED <<found, records, plan>>
        /\ \A q \in Processes : \/ at'[q] \in Before \/ at'[q] = at[q]
                                \/ at[q] \notin Before \cup {"commit"} /\ at'[q] # "commit"
    BY <1>5 DEF Load, Go, Off, disk, TypeInv, Before
  <2> QED  BY <2>1, MigrationKept
<1>6. ASSUME NEW p \in Processes, Engine(p) PROVE MigrationInv'
  <2>1. /\ UNCHANGED <<found, records, plan>>
        /\ \A q \in Processes : \/ at'[q] \in Before \/ at'[q] = at[q]
                                \/ at[q] \notin Before \cup {"commit"} /\ at'[q] # "commit"
    BY <1>6 DEF Engine, Go, Off, TypeInv, Before
  <2> QED  BY <2>1, MigrationKept
<1>7. ASSUME NEW p \in Processes, Dial(p) PROVE MigrationInv'
  <2>1. /\ UNCHANGED <<found, records, plan>>
        /\ \A q \in Processes : \/ at'[q] \in Before \/ at'[q] = at[q]
                                \/ at[q] \notin Before \cup {"commit"} /\ at'[q] # "commit"
    BY <1>7 DEF Dial, Go, Off, disk, TypeInv, Before
  <2> QED  BY <2>1, MigrationKept
<1>8. ASSUME NEW p \in Processes, RemoveStale(p) PROVE MigrationInv'
  <2>1. /\ UNCHANGED <<found, records, plan>>
        /\ \A q \in Processes : \/ at'[q] \in Before \/ at'[q] = at[q]
                                \/ at[q] \notin Before \cup {"commit"} /\ at'[q] # "commit"
    BY <1>8 DEF RemoveStale, Go, disk, TypeInv, Before
  <2> QED  BY <2>1, MigrationKept
<1>9. ASSUME NEW p \in Processes, Bind(p) PROVE MigrationInv'
  <2>1. /\ UNCHANGED <<found, records, plan>>
        /\ \A q \in Processes : \/ at'[q] \in Before \/ at'[q] = at[q]
                                \/ at[q] \notin Before \cup {"commit"} /\ at'[q] # "commit"
    BY <1>9 DEF Bind, Go, Off, disk, TypeInv, Before
  <2> QED  BY <2>1, MigrationKept
<1>10. ASSUME NEW p \in Processes, Listen(p) PROVE MigrationInv'
  <2>1. /\ UNCHANGED <<found, records, plan>>
        /\ \A q \in Processes : \/ at'[q] \in Before \/ at'[q] = at[q]
                                \/ at[q] \notin Before \cup {"commit"} /\ at'[q] # "commit"
    BY <1>10 DEF Listen, Go, Off, disk, TypeInv, Before
  <2> QED  BY <2>1, MigrationKept
<1>11. ASSUME NEW p \in Processes, Update(p) PROVE MigrationInv'
  <2>1. /\ UNCHANGED <<found, records, plan>>
        /\ \A q \in Processes : \/ at'[q] \in Before \/ at'[q] = at[q]
                                \/ at[q] \notin Before \cup {"commit"} /\ at'[q] # "commit"
    BY <1>11 DEF Update, disk, TypeInv, Before
  <2> QED  BY <2>1, MigrationKept
<1>12. ASSUME NEW p \in Processes, Apply(p) PROVE MigrationInv'
  <2>1. /\ UNCHANGED <<found, records, plan>>
        /\ \A q \in Processes : \/ at'[q] \in Before \/ at'[q] = at[q]
                                \/ at[q] \notin Before \cup {"commit"} /\ at'[q] # "commit"
    BY <1>12 DEF Apply, TypeInv, Before
  <2> QED  BY <2>1, MigrationKept
<1>13. ASSUME NEW p \in Processes, WriteFile(p) PROVE MigrationInv'
  <2>1. /\ UNCHANGED <<found, records, plan>>
        /\ \A q \in Processes : \/ at'[q] \in Before \/ at'[q] = at[q]
                                \/ at[q] \notin Before \cup {"commit"} /\ at'[q] # "commit"
    BY <1>13 DEF WriteFile, TypeInv, Before
  <2> QED  BY <2>1, MigrationKept
<1>14. ASSUME NEW p \in Processes, RemoveOverride(p) PROVE MigrationInv'
  <2>1. /\ UNCHANGED <<found, records, plan>>
        /\ \A q \in Processes : \/ at'[q] \in Before \/ at'[q] = at[q]
                                \/ at[q] \notin Before \cup {"commit"} /\ at'[q] # "commit"
    BY <1>14 DEF RemoveOverride, TypeInv, Before
  <2> QED  BY <2>1, MigrationKept
<1>15. ASSUME NEW p \in Processes, WriteOverride(p) PROVE MigrationInv'
  <2>1. /\ UNCHANGED <<found, records, plan>>
        /\ \A q \in Processes : \/ at'[q] \in Before \/ at'[q] = at[q]
                                \/ at[q] \notin Before \cup {"commit"} /\ at'[q] # "commit"
    BY <1>15 DEF WriteOverride, TypeInv, Before
  <2> QED  BY <2>1, MigrationKept
<1>16. ASSUME NEW p \in Processes, Rollback(p) PROVE MigrationInv'
  <2>1. /\ UNCHANGED <<found, records, plan>>
        /\ \A q \in Processes : \/ at'[q] \in Before \/ at'[q] = at[q]
                                \/ at[q] \notin Before \cup {"commit"} /\ at'[q] # "commit"
    BY <1>16 DEF Rollback, TypeInv, Before
  <2> QED  BY <2>1, MigrationKept
<1>17. ASSUME NEW p \in Processes, Stop(p) PROVE MigrationInv'
  <2>1. /\ UNCHANGED <<found, records, plan>>
        /\ \A q \in Processes : \/ at'[q] \in Before \/ at'[q] = at[q]
                                \/ at[q] \notin Before \cup {"commit"} /\ at'[q] # "commit"
    BY <1>17 DEF Stop, Go, disk, TypeInv, Before
  <2> QED  BY <2>1, MigrationKept
<1>18. ASSUME NEW p \in Processes, Close(p) PROVE MigrationInv'
  <2>1. /\ UNCHANGED <<found, records, plan>>
        /\ \A q \in Processes : \/ at'[q] \in Before \/ at'[q] = at[q]
                                \/ at[q] \notin Before \cup {"commit"} /\ at'[q] # "commit"
    BY <1>18 DEF Close, Go, disk, TypeInv, Before
  <2> QED  BY <2>1, MigrationKept
<1>19. ASSUME NEW p \in Processes, Unlink(p) PROVE MigrationInv'
  <2>1. /\ UNCHANGED <<found, records, plan>>
        /\ \A q \in Processes : \/ at'[q] \in Before \/ at'[q] = at[q]
                                \/ at[q] \notin Before \cup {"commit"} /\ at'[q] # "commit"
    BY <1>19 DEF Unlink, Go, Off, disk, TypeInv, Before
  <2> QED  BY <2>1, MigrationKept
<1>20. ASSUME NEW p \in Processes, Kill(p) PROVE MigrationInv'
  <2>1. /\ UNCHANGED <<found, records, plan>>
        /\ \A q \in Processes : \/ at'[q] \in Before \/ at'[q] = at[q]
                                \/ at[q] \notin Before \cup {"commit"} /\ at'[q] # "commit"
    BY <1>20 DEF Kill, Go, Off, disk, TypeInv, Before
  <2> QED  BY <2>1, MigrationKept
<1>21. CASE Edit \/ UNCHANGED vars
  <2>1. UNCHANGED <<found, records, plan, at>>
    BY <1>21 DEF Edit, vars, disk, process
  <2> QED  BY <2>1, MigrationKept
<1>23. ASSUME NEW p \in Processes, Look(p) PROVE MigrationInv'
  <2>1. /\ UNCHANGED <<found, records, plan>>
        /\ \A q \in Processes : \/ at'[q] \in Before \/ at'[q] = at[q]
                                \/ at[q] \notin Before \cup {"commit"} /\ at'[q] # "commit"
    BY <1>23 DEF Look, Go, disk, TypeInv, Before
  <2> QED  BY <2>1, MigrationKept
<1>24. ASSUME NEW p \in Processes, Mode(p) PROVE MigrationInv'
  <2>1. /\ UNCHANGED <<found, records, plan>>
        /\ \A q \in Processes : \/ at'[q] \in Before \/ at'[q] = at[q]
                                \/ at[q] \notin Before \cup {"commit"} /\ at'[q] # "commit"
    BY <1>24 DEF Mode, Go, Off, disk, TypeInv, Before
  <2> QED  BY <2>1, MigrationKept
<1> QED
  BY <1>1, <1>2, <1>3, <1>4, <1>5, <1>6, <1>7, <1>8, <1>9, <1>10, <1>11, <1>12, <1>13, <1>14, <1>15, <1>16, <1>17, <1>18, <1>19, <1>20, <1>21, <1>23, <1>24 DEF Next, Begin, Change, Leave

\* Records that have all migrated are what the store requires.
LEMMA MigrationFollows == MigrationInv => MigrationResumes
<1> SUFFICES ASSUME MigrationInv, NEW p \in Processes, at[p] = "engine" \/ Active(p)
             PROVE  records = Migrated(found) /\ Consistent(records)
  BY DEF MigrationResumes
<1>1. at[p] \notin Before \cup {"commit"}
  BY DEF Active, Before
<1>2. ~ Refused(found) /\ AllMigrated /\ Sound(found) /\ Sound(records)
      /\ ~ Refused(records) /\ Migrated(records) = Migrated(found)
  BY <1>1 DEF MigrationInv
<1>3. DOMAIN records = DOMAIN found /\ records = [i \in DOMAIN found |-> records[i]]
  BY <1>2 DEF Sound
<1>4. Migrated(found) = [i \in DOMAIN found |-> Migrated(found)[i]]
  BY DEF Migrated
<1>5. records = Migrated(found)
  BY <1>2, <1>3, <1>4 DEF AllMigrated
<1>6. \A i \in DOMAIN found : records[i] = Migrated(records)[i]
  BY <1>2, <1>5
<1>7. \A i \in DOMAIN found : records[i].schema = 4 /\ (records[i].srv6 => records[i].priority \in Permitted)
  <2> TAKE i \in DOMAIN found
  <2>1. records[i].schema = 4
    BY <1>2, <1>6, MigratedFields
  <2>2. i \notin Wanting(records)
    BY <1>2, <1>6, Settled
  <2>3. records[i].srv6 => records[i].priority \in Permitted
    BY <1>2, <1>3, <2>1 DEF Refused
  <2> QED  BY <2>1, <2>3
<1>8. \A i \in DOMAIN found : Prefixed(records[i]) = records[i].name
  <2> TAKE i \in DOMAIN found
  <2>1. records[i].name = Prefixed(records[i])
    BY <1>2, <1>6, MigratedFields
  <2> QED  BY <2>1
<1>9. \A i, j \in DOMAIN found : i # j => records[i].name # records[j].name
  BY <1>2, <1>3, <1>8 DEF Refused
<1>10. \A i, j \in DOMAIN found : i # j /\ records[i].srv6 /\ records[j].srv6 =>
         records[i].priority # records[j].priority
  <2> SUFFICES ASSUME NEW i \in DOMAIN found, NEW j \in DOMAIN found, i # j, records[i].srv6
               PROVE  records[i].priority # records[j].priority
    OBVIOUS
  <2>1. records[i].priority # 0
    BY <1>7, DaemonAssumption
  <2> QED  BY <1>2, <1>3, <2>1 DEF Refused
<1>11. Consistent(records)
  BY <1>3, <1>7, <1>9, <1>10 DEF Consistent
<1> QED  BY <1>5, <1>11

\* However often a migration fails, is killed, or runs in two processes at once,
\* a daemon that serves has the records of one uninterrupted migration: what is
\* allocated to the tunnels that are left does not depend on how many of them have
\* been written (migrateRecords, AllocateSRv6RulePriority).
THEOREM MigrationResumesCorrect == Spec => []MigrationResumes
<1>1. Init => TypeInv /\ BusyInv /\ RecordInv /\ MigrationInv
  BY InitProcess, InitRecord, InitMigration DEF ProcessInv
<1>2. TypeInv /\ BusyInv /\ RecordInv /\ MigrationInv /\ [Next]_vars
        => (TypeInv /\ BusyInv /\ RecordInv /\ MigrationInv)'
  BY TypeStep, BusyStep, RecordStep, MigrationStep
<1> QED  BY <1>1, <1>2, MigrationFollows, PTL DEF Spec
=============================================================================
