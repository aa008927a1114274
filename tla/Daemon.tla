------------------------------- MODULE Daemon -------------------------------
(***************************************************************************)
(* The daemon as a process (cmd/thd/main.go): what it loads, migrates and  *)
(* binds before it serves, the settings it changes while it serves         *)
(* (core/settings.go, config/settings.go), and how it stops.  Several      *)
(* processes share one state directory and one socket path, as when a      *)
(* service is restarted or started twice, and any of them may be killed.   *)
(*                                                                         *)
(* Abstracted: settings are values that an operator chooses, of which      *)
(* "router" is the configured router id; a record (store/migrate.go) is    *)
(* its schema, its name, its policy-rule priority and the priorities of    *)
(* its SRv6 sources: in schema 2 an entry for each SID that a source has,  *)
(* which becomes a source.  A file is replaced by a rename, which is       *)
(* atomic; a failing replacement may have taken effect (FileStore.tla has  *)
(* the steps).                                                             *)
(***************************************************************************)
EXTENDS Integers, Sequences, FiniteSets

CONSTANTS
  Processes,
  Service,      \* the process that the service manager starts again and again
  Permitted,    \* SRv6RulePriorityMin..SRv6RulePriorityMax
  Priorities,   \* SRv6AutoRulePriorityMin..SRv6AutoRulePriorityMax
  RouterIDs,    \* random router ids
  Options,      \* settings that an operator may choose, with a field router
  Profiles,     \* bounds: records found at first, and how often what may happen
  Invalid,      \* a settings file that does not pass Load
  None

Counted == {"start", "stop", "kill", "fail", "update", "edit"}
Schemas == {2, 3, 4}

Record == [schema : Nat, srv6 : BOOLEAN, name : [base : STRING, prefixed : BOOLEAN],
           priority : Nat, src : Seq(Nat)]

ASSUME DaemonAssumption ==
  /\ Service \in Processes /\ None \notin Processes /\ {None, Invalid} \cap Options = {} /\ None \notin RouterIDs
  /\ \A s \in Options : s.router \in RouterIDs \cup {None}
  /\ Permitted \subseteq Nat \ {0} /\ Priorities \subseteq Permitted /\ IsFiniteSet(Priorities)
  /\ \A profile \in Profiles :
       /\ profile.left \in [Counted -> Nat] /\ profile.found \in Seq(Record)
       /\ \A i \in DOMAIN profile.found :
            LET r == profile.found[i] IN r.priority = 0 \/ (r.srv6 /\ r.schema = 4)

VARIABLES
  found,      \* the records as they were found
  records,    \* the records on disk
  file,       \* the settings file
  override,   \* the settings file in the state directory
  idFile,     \* babel-router-id
  socket,     \* who bound the socket that the path leads to
  mine,       \* who takes it for the socket it made
  at,         \* at[p]: where process p is
  plan,       \* plan[p]: whether p only migrates, and the records to write
  running,    \* running[p]: the settings in effect
  id,         \* id[p]: its router id
  job,        \* job[p]: an UpdateSettings under way
  promised,   \* history: the settings that were last acknowledged
  torn,       \* history: a rollback failed as well, and said so
  overlapped, \* history: a process began or ended beside another that did or that served on
  crossed,    \* history: whose socket another had doubted for a reason (see Reachable)
  left        \* what is left of the budget

disk == <<records, file, override, idFile>>
process == <<at, plan, running, id, job>>
history == <<promised, torn, overlapped, crossed>>
path == <<socket, mine>>
meeting == <<overlapped, crossed>>
vars == <<found, disk, path, process, history, left>>

Spend(what) == left[what] > 0 /\ left' = [left EXCEPT ![what] = @ - 1]
Go(p, place) == at' = [at EXCEPT ![p] = place]

-----------------------------------------------------------------------------
(* Migration.                                                              *)

\* PrefixedTunnelName: SRv6 tunnels have no prefix.
Prefixed(r) == IF r.srv6 THEN r.name ELSE [r.name EXCEPT !.prefixed = TRUE]

\* Fault: the order is turned round, and equal priorities with it.
Reversed(src) ==
  [i \in DOMAIN src |-> 1 + Cardinality({j \in DOMAIN src :
     src[j] > src[i] \/ (src[j] = src[i] /\ j > i)})]

\* normalizeLegacySRv6SourcePriorities: a stable sort, highest first.
Normalised(src) ==
  [i \in DOMAIN src |-> 1 + Cardinality({j \in DOMAIN src :
     src[j] > src[i] \/ (src[j] = src[i] /\ j < i)})]

\* migrateSchema2, migrateSchema3, and the name.
Decoded(r) ==
  [r EXCEPT !.schema = 4, !.name = Prefixed(r),
            !.src = CASE r.schema = 2 -> [i \in DOMAIN r.src |-> i]
                      [] r.schema = 3 -> Normalised(r.src)
                      [] OTHER -> r.src]

Used(rs) == {rs[i].priority : i \in {j \in DOMAIN rs : rs[j].schema = 4 /\ rs[j].srv6}}
Wanting(rs) == {i \in DOMAIN rs : rs[i].srv6 /\ rs[i].priority = 0}

\* Fault: priorities are counted from the first one, used or not.
AllocatedBlindly(rs, i) ==
  CHOOSE p \in Priorities : Cardinality({q \in Priorities : q < p}) =
                            Cardinality({j \in Wanting(rs) : j < i})

\* AllocateSRv6RulePriority, for the records in the order of their files:
\* the lowest priority that is free.
Allocated(rs, i) ==
  LET free == Priorities \ Used(rs) IN
    CHOOSE p \in free : Cardinality({q \in free : q < p}) =
                        Cardinality({j \in Wanting(rs) : j < i})

Migrated(rs) ==
  [i \in DOMAIN rs |->
     IF i \in Wanting(rs) THEN [Decoded(rs[i]) EXCEPT !.priority = Allocated(rs, i)]
     ELSE Decoded(rs[i])]

\* What a migration writes: the records it changes.
Rewrites(rs) ==
  LET new == Migrated(rs) IN
    [i \in {j \in DOMAIN rs : new[j] # rs[j]} |-> new[i]]

\* Everything is read and checked before anything is written.
Refused(rs) ==
  \/ \E i \in DOMAIN rs : rs[i].schema \notin Schemas
  \/ \E i \in DOMAIN rs : rs[i].schema = 4 /\ rs[i].srv6 /\ rs[i].priority \notin Permitted
  \/ \E i, j \in DOMAIN rs : i # j /\ rs[i].priority = rs[j].priority /\ rs[i].priority # 0
  \/ Cardinality(Wanting(rs)) > Cardinality(Priorities \ Used(rs))
  \/ \E i, j \in DOMAIN rs : i # j /\ Prefixed(rs[i]) = Prefixed(rs[j])

-----------------------------------------------------------------------------
(* Settings.                                                               *)

\* LoadDaemon: an override that cannot be loaded is passed over, a settings
\* file that cannot be loaded is an error.
Effective == IF file = Invalid THEN Invalid ELSE IF override \in Options THEN override ELSE file

NoJob == [for |-> None, old |-> None, saving |-> None, at |-> "none"]
Job(p, step) == job[p].at = step
Then(p, step) == job' = [job EXCEPT ![p].at = step]

-----------------------------------------------------------------------------
(* Starting.                                                               *)

Starting == {"load", "open", "commit", "engine", "look", "dial", "remove", "bind", "listen", "mode"}
Stopping == {"close", "unlink"}
Off(p) == Go(p, "off")

\* The service manager starts the service as often as it takes.
Start(p, mode) ==
  /\ at[p] = "off" /\ (mode = "migrate" => p # Service)
  /\ IF p = Service THEN UNCHANGED left ELSE Spend("start")
  /\ Go(p, "load")
  /\ plan' = [plan EXCEPT ![p] = [only |-> mode = "migrate", todo |-> <<>>]]
  /\ overlapped' = (overlapped \/ \E q \in Processes : at[q] \in Starting \cup Stopping)
  /\ UNCHANGED <<found, disk, path, running, id, job, promised, torn, crossed>>

Load(p) ==
  /\ at[p] = "load"
  /\ IF Effective = Invalid THEN Off(p) /\ UNCHANGED running
     ELSE Go(p, "open") /\ running' = [running EXCEPT ![p] = Effective]
  /\ UNCHANGED <<found, disk, path, plan, id, job, history, left>>

\* store.Open up to the first rewrite.
Open(p) ==
  /\ at[p] = "open"
  /\ IF Refused(records) THEN Off(p) /\ UNCHANGED plan
     ELSE /\ Go(p, "commit")
          /\ plan' = [plan EXCEPT ![p].todo = Rewrites(records)]
  /\ UNCHANGED <<found, disk, path, running, id, job, history, left>>

Written(p, i) == records' = [records EXCEPT ![i] = plan[p].todo[i]]

\* One record at a time, in the order of their files.
CommitRecord(p) ==
  /\ at[p] = "commit"
  /\ \E i \in DOMAIN plan[p].todo :
       /\ \A j \in DOMAIN plan[p].todo : i <= j
       /\ \/ /\ Written(p, i)
             /\ plan' = [plan EXCEPT ![p].todo = [j \in DOMAIN @ \ {i} |-> @[j]]]
             /\ UNCHANGED <<at, left>>
          \/ /\ Spend("fail") /\ Off(p)
             /\ (Written(p, i) \/ UNCHANGED records)
             /\ UNCHANGED plan
  /\ UNCHANGED <<found, file, override, idFile, path, running, id, job, history>>

Opened(p) ==
  /\ at[p] = "commit" /\ DOMAIN plan[p].todo = {}
  /\ Go(p, IF plan[p].only THEN "off" ELSE "engine")
  /\ UNCHANGED <<found, disk, path, plan, running, id, job, history, left>>

\* loadBabelRouterID: the configured id, the stored one, or a new one.
RouterIDsFor(s) ==
  IF s.router # None THEN {s.router} ELSE IF idFile # None THEN {idFile} ELSE RouterIDs

\* A generated id is stored before it is used.
Identified(p, s) ==
  \E r \in RouterIDsFor(s) :
    /\ id' = [id EXCEPT ![p] = r]
    /\ idFile' = IF s.router = None THEN r ELSE idFile

Engine(p) ==
  /\ at[p] = "engine"
  /\ \/ Identified(p, running[p]) /\ Go(p, "look") /\ UNCHANGED left
     \/ /\ Spend("fail") /\ Off(p)
        /\ idFile' \in {idFile} \cup RouterIDsFor(running[p]) /\ running[p].router = None
        /\ UNCHANGED id
  /\ UNCHANGED <<found, records, file, override, path, plan, running, job, history>>

\* Faults: a socket that exists is taken for a stale one, or for one in use.
AnsweredNever == FALSE
AnsweredByAny == socket # None

\* The socket at the path has a process that listens on it.
Answered == socket # None /\ at[socket] \in {"mode", "serve"}

\* removeStaleSocket: a dial of a socket that is there tells a process that
\* listens from one that does not, or fails for want of time or of room.
Look(p) ==
  /\ at[p] = "look"
  /\ Go(p, IF socket = None THEN "bind" ELSE "dial")
  /\ UNCHANGED <<found, disk, path, plan, running, id, job, history, left>>

Dial(p) ==
  /\ at[p] = "dial"
  /\ \/ Answered /\ Off(p) /\ UNCHANGED <<meeting, left>>
     \/ /\ ~ Answered /\ Go(p, "remove")
        /\ crossed' = crossed \cup {q \in Processes : at[q] = "listen"}
        /\ UNCHANGED <<overlapped, left>>
     \/ /\ Answered /\ Spend("fail") /\ Go(p, "remove")
        /\ crossed' = crossed \cup {socket} /\ overlapped' = TRUE
  /\ UNCHANGED <<found, disk, path, plan, running, id, job, promised, torn>>

Removed == socket' = None /\ mine' = {}

\* A socket that has gone since the dial is an error.
RemoveStale(p) ==
  /\ at[p] = "remove"
  /\ Removed /\ Go(p, IF socket = None THEN "off" ELSE "bind")
  /\ UNCHANGED <<found, disk, plan, running, id, job, history, left>>

\* Where a process may be about to remove whatever is at the path, or to take it for its own.
Removing == {"remove", "listen", "mode", "unlink"}

\* ListenUnix binds the path, which must be free, and then listens.
Bind(p) ==
  /\ at[p] = "bind"
  /\ IF socket # None THEN Off(p) /\ UNCHANGED <<path, crossed>>
     ELSE /\ socket' = p /\ mine' = {} /\ Go(p, "listen")
          /\ crossed' = IF \E q \in Processes \ {p} : at[q] \in Removing
                        THEN crossed \cup {p} ELSE crossed \ {p}
  /\ UNCHANGED <<found, disk, plan, running, id, job, promised, torn, overlapped, left>>

Listen(p) ==
  /\ at[p] = "listen" /\ Go(p, "mode")
  /\ UNCHANGED <<found, disk, path, plan, running, id, job, history, left>>

\* The mode and the owner are set, and the socket that is at the path by then
\* is remembered; a failure to set them is followed by its removal.
Mode(p) ==
  /\ at[p] = "mode"
  /\ \/ socket # None /\ mine' = mine \cup {p} /\ Go(p, "serve") /\ UNCHANGED left
     \/ /\ (socket = None /\ UNCHANGED left) \/ Spend("fail")
        /\ (Go(p, "unlink") \/ Off(p)) /\ UNCHANGED mine
  /\ UNCHANGED <<found, disk, socket, plan, running, id, job, history>>

-----------------------------------------------------------------------------
(* UpdateSettings and saveSettings.                                        *)

Update(p) ==
  /\ at[p] = "serve" /\ Job(p, "none") /\ Effective # Invalid /\ Spend("update")
  /\ \E s \in Options :
       job' = [job EXCEPT ![p] = [for |-> s, old |-> Effective, saving |-> s, at |-> "apply"]]
  /\ UNCHANGED <<found, disk, path, at, plan, running, id, history>>

\* An error of the backend is followed by a rollback.
Apply(p) ==
  /\ Job(p, "apply")
  /\ \/ /\ Identified(p, job[p].for)
        /\ running' = [running EXCEPT ![p] = job[p].for]
        /\ Then(p, "file") /\ UNCHANGED left
     \/ /\ Spend("fail") /\ Then(p, "rollback")
        /\ running' \in {running, [running EXCEPT ![p] = job[p].for]}
        /\ UNCHANGED <<id, idFile>>
  /\ UNCHANGED <<found, records, file, override, path, at, plan, history>>

Restoring(p) == job[p].saving = job[p].old /\ job[p].for # job[p].old

\* A failure to save is followed by saving the old settings; a failure of
\* that is only reported.
GiveUp(p) ==
  IF Restoring(p) THEN Then(p, "rollback") /\ torn' = TRUE
  ELSE job' = [job EXCEPT ![p].saving = job[p].old, ![p].at = "file"] /\ UNCHANGED torn
Saved(p) ==
  IF Restoring(p) THEN Then(p, "rollback") /\ UNCHANGED promised
  ELSE job' = [job EXCEPT ![p] = NoJob] /\ promised' = job[p].for

WriteFile(p) ==
  /\ Job(p, "file")
  /\ \/ file' = job[p].saving /\ Then(p, "remove") /\ UNCHANGED left
     \/ /\ Spend("fail")
        /\ file' \in {file, job[p].saving} /\ Then(p, "override")
  /\ UNCHANGED <<found, records, override, idFile, path, at, plan, running, id, history>>

\* Fault: the override stays when the file could be written.
OverrideStays == override

\* The override is removed once the file could be written.
OverrideRemoved == None

RemoveOverride(p) ==
  /\ Job(p, "remove")
  /\ \/ override' = OverrideRemoved /\ Saved(p) /\ UNCHANGED <<torn, left>>
     \/ override # None /\ Spend("fail") /\ GiveUp(p) /\ UNCHANGED <<override, promised>>
  /\ UNCHANGED <<found, records, file, idFile, path, at, plan, running, id, meeting>>

WriteOverride(p) ==
  /\ Job(p, "override")
  /\ \/ override' = job[p].saving /\ Saved(p) /\ UNCHANGED <<torn, left>>
     \/ /\ Spend("fail") /\ GiveUp(p) /\ override' \in {override, job[p].saving}
        /\ UNCHANGED promised
  /\ UNCHANGED <<found, records, file, idFile, path, at, plan, running, id, meeting>>

\* Fault: the backend keeps what it was given.
RolledBackNothing(p) == running

RolledBack(p) == [running EXCEPT ![p] = job[p].old]

Rollback(p) ==
  /\ Job(p, "rollback")
  /\ \/ running' = RolledBack(p) /\ Identified(p, job[p].old) /\ UNCHANGED <<torn, left>>
     \/ Spend("fail") /\ torn' = TRUE /\ UNCHANGED <<running, id, idFile>>
  /\ job' = [job EXCEPT ![p] = NoJob]
  /\ UNCHANGED <<found, records, file, override, path, at, plan, promised, meeting>>

-----------------------------------------------------------------------------
(* Ending.                                                                 *)

\* A signal; the requests under way end first (Shutdown).
Stop(p) ==
  /\ at[p] = "serve" /\ Job(p, "none") /\ Spend("stop")
  /\ Go(p, "close")
  /\ overlapped' = (overlapped \/ \E q \in Processes : at[q] \in Starting \cup Stopping)
  /\ UNCHANGED <<found, disk, path, plan, running, id, job, promised, torn, crossed>>

\* removeOwnedSocket looks, and removes.
Close(p) ==
  /\ at[p] = "close"
  /\ Go(p, IF p \in mine THEN "unlink" ELSE "off")
  /\ UNCHANGED <<found, disk, path, plan, running, id, job, history, left>>

Unlink(p) ==
  /\ at[p] = "unlink"
  /\ Removed /\ Off(p)
  /\ UNCHANGED <<found, disk, plan, running, id, job, history, left>>

Kill(p) ==
  /\ at[p] # "off" /\ Spend("kill")
  /\ Off(p) /\ job' = [job EXCEPT ![p] = NoJob]
  /\ promised' = IF Job(p, "none") THEN promised ELSE Effective
  /\ UNCHANGED <<found, disk, path, plan, running, id, torn, meeting>>

\* An operator writes a settings file.
Edit ==
  /\ \A p \in Processes : Job(p, "none")
  /\ Spend("edit")
  /\ \E s \in Options \cup {Invalid} :
       \/ file' = s /\ UNCHANGED override
       \/ override' = s /\ UNCHANGED file
  /\ promised' = Effective'
  /\ UNCHANGED <<found, records, idFile, path, process, torn, meeting>>

-----------------------------------------------------------------------------
Init ==
  /\ \E profile \in Profiles : found = profile.found /\ left = profile.left
  /\ records = found
  /\ file \in Options /\ override \in Options \cup {None}
  /\ idFile = None /\ socket = None /\ mine = {}
  /\ at = [p \in Processes |-> "off"]
  /\ plan = [p \in Processes |-> [only |-> FALSE, todo |-> <<>>]]
  /\ running = [p \in Processes |-> None] /\ id = [p \in Processes |-> None]
  /\ job = [p \in Processes |-> NoJob]
  /\ promised = Effective /\ torn = FALSE /\ overlapped = FALSE /\ crossed = {}

Begin(p) ==
  \/ Load(p) \/ Open(p) \/ CommitRecord(p) \/ Opened(p) \/ Engine(p)
  \/ Look(p) \/ Dial(p) \/ RemoveStale(p) \/ Bind(p) \/ Listen(p) \/ Mode(p)
Change(p) ==
  \/ Apply(p) \/ WriteFile(p) \/ RemoveOverride(p) \/ WriteOverride(p) \/ Rollback(p)
Leave(p) == Close(p) \/ Unlink(p)

Next ==
  \/ \E p \in Processes :
       \/ \E mode \in {"serve", "migrate"} : Start(p, mode)
       \/ Begin(p) \/ Update(p) \/ Change(p) \/ Stop(p) \/ Leave(p) \/ Kill(p)
  \/ Edit

Spec == Init /\ [][Next]_vars

\* The service is started again whenever it ends (Restart=always, with a delay
\* that stays below the limit of the service manager), and processes run on.
FairSpec ==
  /\ Spec /\ WF_vars(Start(Service, "serve"))
  /\ \A p \in Processes : WF_vars(Begin(p) \/ Change(p) \/ Leave(p))

-----------------------------------------------------------------------------
(* Safety.                                                                 *)

Active(p) == at[p] \in {"look", "dial", "remove", "bind", "listen", "mode", "serve", "close", "unlink"}

\* What the store requires of a set of records.
Consistent(rs) ==
  /\ \A i \in DOMAIN rs : rs[i].schema = 4 /\ (rs[i].srv6 => rs[i].priority \in Permitted)
  /\ \A i, j \in DOMAIN rs : i # j =>
       /\ rs[i].name # rs[j].name
       /\ rs[i].srv6 /\ rs[j].srv6 => rs[i].priority # rs[j].priority

\* However often a migration fails, is killed or runs twice, a daemon that has
\* got past it has the records that one uninterrupted migration makes.
MigrationResumes ==
  \A p \in Processes : at[p] = "engine" \/ Active(p) =>
    records = Migrated(found) /\ Consistent(records)

\* The source that won a prefix before the migration wins it afterwards:
\* the highest priority, the first of equal ones, becomes the lowest rank.
WinnersKept ==
  \A i \in DOMAIN found : found[i].schema = 3 /\ records[i].schema = 4 =>
    LET old == found[i].src new == records[i].src IN
      \A j, k \in DOMAIN old :
        old[j] > old[k] \/ (old[j] = old[k] /\ j < k) => new[j] < new[k]

\* What was acknowledged is what a restart loads, and while settings are being
\* changed, the old ones or the new ones, wherever the daemon dies, unless a
\* rollback failed, too (saveSettings, LoadDaemon).  Of processes that begin
\* or end together, several may serve and change the settings: not covered.
PromiseKept ==
  ~ torn /\ ~ overlapped =>
    Effective \in {promised} \cup {job[p].for : p \in {q \in Processes : ~ Job(q, "none")}}

\* When UpdateSettings returns, the backend has the settings of the files,
\* whatever step of it has failed (by itself: see PromiseKept).
SettingsAgree ==
  [][\A p \in Processes :
       ~ Job(p, "none") /\ at'[p] = "serve" /\ job'[p].at = "none" /\ ~ torn' /\ ~ overlapped
         => running'[p] = Effective']_vars

\* A process that serves is the one that clients reach, whoever begins or ends
\* beside it: its socket is not taken for a stale one, bound by another or
\* removed by one that ends and whose own was lost (unix.go:152-184).  Not
\* covered are the moments in which the code cannot know better: another had
\* looked, and not removed yet, when it bound the path, or had bound it and not
\* remembered it; it was dialled before it listened; or the dial failed.
Reachable ==
  \A p \in Processes : at[p] = "serve" /\ p \notin crossed => socket = p

-----------------------------------------------------------------------------
(* Liveness.                                                               *)

\* A store that can be migrated is served in the end, with what it takes.
Serves ==
  <>[](~ Refused(found) /\ Effective # Invalid => \E p \in Processes : at[p] = "serve")
=============================================================================
