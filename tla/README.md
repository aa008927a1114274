# TunnelHelper: a verification development

TLA+ specifications of TunnelHelper (`thd`, the tunnel daemon, and the parts of
its clients that keep state), model-checked with TLC, with theorems checked by
TLAPS. Source references are to the repository; `PROJECT.json` maps every
definition to its lines.

`tlc -workers 2 -config <run>.cfg <module>.tla` repeats a run (section 3);
`tlapm <module>.tla` the proofs, for each module whose name ends in `Proofs`
(section 4).

## 1. The system

`thd` holds the desired state of a host's tunnels and makes the kernel agree.

| Component | State it keeps | Operations |
|---|---|---|
| Daemon, `cmd/thd` | the process; its socket, its router id | load settings, migrate, start the backend, take the socket, serve, stop |
| Migration, `store/migrate.go` | none of its own | decode each schema, assign names, priorities, ranks; write record by record |
| Settings, `core/settings.go`, `config/` | running settings, file, override file | load, validate, apply, save, roll back |
| Tunnel manager, `core/manager.go` | `mutationMu` (the gate) | Create, Update, SetEnabled, Delete, Reconcile(All), Observe(All) |
| Reconciler, `core/reconciler.go`, `reconciler_status.go` | queue of ids and the flag for a full pass, one-slot wake channel, a mutex for each tunnel, status map | Run (ticker, wake, debounce), Enqueue, reconcile, Observe, Remove, Delete |
| Bundles, `core/batch.go`; backup, `core/backup.go` | none of their own | plan, apply and roll back many records in one write section |
| Record store, `store/store.go` | one JSON file for each record | Create, Update, Delete with temporary file, rename, directory sync and rollback |
| Event stream, `core/events.go`, `control/`, `app/watch.go` | history, sequence counter, a bounded channel for each subscriber; at the client, the sequence reached | Publish, Subscribe, Cancel, reconnect |
| Linux backend, `backend/linux/backend.go` | none of its own | Apply, Remove, ReconcileGlobal, ApplySettings: the stages of a kind, then the engines |
| Backends of the kinds, `link.go`, `wireguard.go`, `xfrm_static.go`, `vici.go`, `srv6.go` | links, addresses, peers, routes, rules, XFRM states and policies, connections, keys; cached SRv6 feeds | list, compare, add, replace, delete; watchers of kernel events |
| Babel engine, `babel_backend.go` | the tunnels that take part, the running speaker, the fingerprint it was built from, weight damping | rebuild, re-advertise, install routes |
| MPTCP endpoints, `mptcp.go` | tunnels, owned endpoints | reconcile the endpoints of all addresses |
| Babel speaker, `babel/speaker.go` | route table, source table, selected routes, fingerprints, sequence number | Advertise, Withdraw, update received, selection, sweep, triggered and periodic updates |
| Babel adjacency, `babel/neighbour.go`, `interface.go`, deadline, queue, history | Hello history, costs, IHU deadline, send queue | Hello, IHU, update TLVs, timers, Close |
| Wire format, `babel/proto` | what a packet has said so far (router id, next hop) | pack, parse |
| CLI and TUI, `app/`, `cmd/th` | forms | calls of the control API |

How they interact. A handler of the control API makes one Manager call. The
Manager validates under the gate, changes the store, marks the tunnel pending
and queues it. `Reconciler.Run` takes the queue and gives each record to a
worker, which calls the backend of its kind, stores a status, and publishes it
to the event hub. The backend goes through the stages of
the kind and then through the two engines that all tunnels share, and each stage
lists what the kernel has and makes its calls one by one. Backends report kernel
changes over a channel, which `Run` debounces into observations. The tunnels are
the links on which the Babel speaker talks to the speakers of other hosts; its
selection goes to the kernel through the engine. The process around all this
shares its state directory and its socket path with the one before it and the
one after it.

What is hard in it:

- *concurrency*: API requests, the queue pass, its workers and debounced
  observations meet on one tunnel; the gate is a read/write mutex taken before
  a mutex for each tunnel, and `Delete` reconciles again on its error path;
- *failure in the middle*: a backend call fails after part of its effect; an
  update removes the old objects before it commits the new record; the rollback
  of a write fails as well; settings are applied before they are saved;
- *crashes*: kernel objects and files survive, the queue, the statuses and the
  event history do not; a migration is cut off between two records; a daemon
  starts while another ends;
- *limits*: the event history, a subscriber's channel and the wake channel are
  bounded, and a full one is not waited for;
- *stale state*: records read before a lock, routes chosen before an unlock and
  encoded after it, a feasibility verdict kept from the day an update came, a
  fingerprint compared after the mutex was given up, a timer that is reset while
  its callback is under way;
- *objects of others*: the kernel holds routes, links and endpoints of the user,
  and what tells them from TunnelHelper's is an alias, a protocol number or a
  realm, which some of them cannot have;
- *unreliable delivery*: Babel's updates and retractions are never
  acknowledged, and time is what repairs a lost one.

What makes each part correct. Manager and Reconciler: nothing is left in the
kernel that no record identifies; a status says what is so; no request to
reconcile is lost; everything converges once failures stop; every request
returns. Store: an atomic map, at any crash. Event stream: no event missed in
silence, order kept, every client catches up. Babel: a distance that a
neighbour relies on is remembered, no loops, a withdrawn prefix is forgotten, an
advertised one is reachable; a dead link is noticed and a live one is not given
up. Backends: what is reported ready is exact, what is reported removed is gone,
and nothing of the user's is touched. Engine: the speaker runs with the tunnels
of the records, the kernel with its selection. Bundles, backup and settings: all
or nothing. Daemon: a migration can be repeated, an acknowledged change survives,
the process that serves is the one that clients reach.

`PROJECT.json` lists every component with what is and is not modelled, and
every hazard at the line where it bites, with the properties aimed at it.

## 2. Modules

| Module | Models | Kind |
|---|---|---|
| `ControlPlane` | Manager + Reconciler + kernel objects + crashes | specification |
| `MCControlPlane` | values for `KindOf` | instance |
| `ControlPlaneProofs` | typing, no orphans, statuses, the queue, events | proofs |
| `RecordStore` | what the Manager relies on in the store | abstract specification |
| `FileStore` | files, renames, syncs, rollbacks, crashes | implements `RecordStore` |
| `Transactions`, `MCTransactions` | bundles and restores: plan, application, undo, wait | specification, symmetry |
| `TransactionsProofs` | nothing left behind, all or nothing, the undo and the repair | proofs |
| `EventHub` | hub, streaming handler, reconnecting client | specification |
| `StoreAndHubProofs` | safety of `FileStore` and its refinement of `RecordStore`; delivery of `EventHub` | proofs |
| `Daemon`, `MCDaemon` | processes, migration, settings, socket | specification, instance |
| `DaemonProofs` | settings, socket, ranks and outcome of a migration | proofs |
| `LinuxBackend`, `MCLinuxBackend` | calls of the backend over the Babel and the MPTCP engine | specification, instance |
| `LinuxBackendProofs` | the speaker's tunnels, the user's routes, the policy | proofs |
| `TunnelObjects`, `MCTunnelObjects` | the stages and calls of each kind of tunnel | specification, instance |
| `TunnelObjectsProofs` | applications, removals, accounting, the objects of users | proofs |
| `BabelRouting`, `MCBabelRouting` | a network of speakers and one prefix | specification, topologies |
| `BabelRoutingProofs` | the distances that neighbours rely on, loops | proofs |
| `BabelLink`, `MCBabelLink` | one direction of an adjacency | specification, instance |
| `BabelLinkProofs` | the queue, the packets, the Hello history, the deadline | proofs |

They meet at fixed seams. A backend call of `ControlPlane` is one action that
may fail with part of its effect; `LinuxBackend` has the same call as a sequence
of stages, with everything special to a kind in the one stage `link`, and
`TunnelObjects` has that stage call by call, and no engines. The
commit of a record is one action of `ControlPlane` and `Transactions`, which
`RecordStore` promises and `FileStore` implements, and which fails without effect:
a write whose rollback failed as well (`Waver`), whose record stays visible
without having been marked pending, is in `RecordStore` only. `Daemon` replaces a
file in one step that may fail. `BabelLink` is one link of `BabelRouting`, without its
routes; the selection of `LinuxBackend` is what `BabelRouting` computes.

### ControlPlane

A record is its generation, an ownership key and the enabled flag. The key
stands for what identifies kernel objects: route table, private-key
fingerprint, IKE names. `KindOf` says how an update may treat it: refused
("plain", `validateStableOwnership`), removed first when it changes ("routed",
WireGuard's route table), always removed first ("ike"). A kernel object is its
key and the generation that installed it, 0 for a partial one.

| Code | Actions |
|---|---|
| `Create`, `Update` without removal, `SetEnabled` | one action each: they hold the write side of the gate throughout and make no backend call |
| `Update` with removal | `UpdateBegin`, `UpdateRemoved` or `UpdateRemoveFails`, `UpdateCommit` or `UpdateCommitFails` |
| `Delete` | `DeleteBegin`, `DeleteRemoved`/`...Fails`, `DeleteCommit`/`...Fails`, `DeleteRepaired` |
| `Reconcile(All)`, `Observe(All)` | `ReadBegin`, tasks, `ReadDone` |
| `reconcileRecord`, `Observe` of one tunnel | a task: `TaskBegin` (mutex, read of the record), the call's outcome, `TaskPublish` |
| `Run` | `Tick`, `ReceiveWake`, `ProcessQueue`, `PassDone`, `Debounce`, each with its failure |
| the outside | `Drift` of kernel objects, `Crash` |

A failing backend call leaves any of: nothing done, the old objects removed, a
partial new object. A crash in the middle of one leaves the same. `drifted` and
`lost` are history variables for the properties only: tunnels whose objects were
changed from outside since the last call, and a reconcile given up because the
store could not be read.

### RecordStore and FileStore

`RecordStore` is a map that changes by one record at a time: to the generation
after the expected one, never to a name another record has. A failed operation
changes nothing unless undoing it failed too; then readers see one map and a
crash may bring back another one "in doubt". `FileStore` has every system call
of `writeLocked`, `Delete` and the two rollbacks as a step that may fail, and a
crash between any two. Between two directory syncs renames and unlinks stay in
order (a journaling filesystem), and a file renamed before its data was synced
may come back torn. The refinement mapping hides what the mutex hides: during an
operation readers see the directory from before it.

### Transactions

What changes several tunnels at once: `Manager.ApplyBundle` and
`Manager.RestoreBackup`. Both hold the write side of the gate from the plan to
the answer, so that the model interleaves them with nothing but failing calls
and a crash; between two of them the loop works its queue off. Every tunnel is
an enabled WireGuard tunnel with routes. A record is its generation, the table
it claims (two may not claim one) and its peer's preshared key, which is what an
update may keep, replace or clear.

| Code | Actions |
|---|---|
| planning: `buildBundlePlanLocked`, `validateRecordSet`, `orderBundleChanges` | `ApplyBundle`, `RestoreBackup`; `Ordered` is every order the sort leaves open |
| `applyBundleChangeLocked`, the two loops of a restore | `ApplyRemoved`, `ApplyRemoveFails`, `ApplyStored`, `ApplyRefused` |
| `rollbackBundleChangesLocked`, `rollbackRestoreLocked` | `UndoStored`, `UndoRefused`, `UndoDone` |
| what was stored is marked, queued and perhaps waited for | `Conclude`, `WaitReconcile`, `WaitDone` |
| the answer, for which a bundle reads the records again | `ViewFails`, `Answer` |
| the loop and the outside | `LoopReconcile`, `Tick`, `Crash` |

The transaction under way, `tx`, keeps the records before it and those it is to
lead to, its plan, the number `next` of the step that comes next, and while it
is undone or waited for the set `left` of the steps still to go through.
`ApplyRefused` covers a failing store as well as one that refuses: the store's
checks (`CanCreate`, `CanUpdate`, `CanDelete`) are taken at each step and not
assumed of a plan, and two tunnels that swap tables pass the plan and are
refused at the first update. An archive is any valid set of records, whatever
their generations. `lost` is a history variable for the properties only: an undo
that failed, or a reconcile given up because its record could not be read, with
nothing but the next full pass to repair it.

### EventHub

An event is its sequence number. `Publish` appends to a bounded history and to
each subscriber's bounded channel, and closes a subscriber whose channel is
full. The handler writes `Connected` (with or without a gap), the replay, then
the channel. The client advances the sequence it will reconnect with, reloads a
snapshot on a gap, and may lose its connection at any moment, with items still
on the wire. A restart of the daemon empties the history and restarts the count.
History are what each client knows (`known`), who has subscribed before (`begun`),
and what was dropped, unknown to its client, between two of its subscriptions that
both asked from 0 (`lost`): `Connected` carries no sequence, so a client whose first
connection broke before an event arrived asks from 0 again, and 0 gets no gap.

### BabelRouting

Each node has its route table (one entry for each neighbour and the local one),
its selection, its source table and what its threads have still to send.
Everything that `Speaker.mu` protects is atomic; what the code does after
releasing it is not: `Selection` leaves jobs in `pend[n][t]`, and `Send` encodes
each from the routes as they are by then. The threads are the read loop, the
periodic timers, and the rest (sweep, engine calls, neighbour timers). Packets
are queues that a loss or a failed link empties.

Time is counted in update intervals. `Tick` waits until every packet of the
interval is delivered, every interface has dumped, and what is due has been
swept; so a delay of more than an interval is a loss. Hold time and garbage
collection keep their order, `GCTime > Hold` (56 s and 3 min in the code), and
what the runs need of it is only that order.

Smoothing is the choice to keep the selected route while a better one is new.
Ties are broken arbitrarily. A prefix of the source table with no route but a
nil selection is the job whose `retract` is "nil"; sending it is `Panic`.

A behaviour is about one of `Scenes`: the links there are, who advertises, what
may be lost or fail, and how many threads may be busy at once.

### BabelLink

What a remote speaker sends to the local one, and what the local one makes of
it. The values are those a packet carries (Hello, IHU, router id, next hop,
update); a value takes one unit of a packet.

| Code | Actions |
|---|---|
| the remote's `Queue.push`, `SendIn` | `SendHello`, `SendIHU`, `SendUpdate`: all values of one call under one lock, and the timer reset |
| its timer and `Queue.send` | `QueueTimer`, `SendPacket`, `WriteFails` |
| the network | `Lose`, `Duplicate`, and packets are taken in any order |
| `runReadLoop`, `Parser`, `HelloHistory.Update`, `onIHU` | `Receive`, `ReaderUpdates` |
| `runTimers` of the neighbour | `PeerTimer`, `TimeOut`, `CostMoves`, `LoopUpdates` |
| `Speaker.Close`, `Interface.Close`, `Neighbour.Close` | `CloseTables`, `ClosePeers`, `LoopStops`, `CloseDone` |
| the remote | `Restart` (its sequence number is zero again), `Die` |

A `Deadline` is a timer, a callback that may already be under way when it is
reset (`firing`, then `stale`), and the one-slot channel (`token`), which a reset
does not drain. Sequence numbers have their 16 bits. `heard`, `ihu` and `jumped`
of a neighbour are history: the Hellos that were received, an IHU that was, and
a Hello at a distance of exactly 2^15. "updating" is a goroutine that is
announcing what a moved cost has changed, for which it takes the lock of the
interface table, which `Close` holds.

### LinuxBackend

`Backend.Apply`, `Remove`, `ReconcileGlobal` and `ApplySettings` as `calls[c]`:
what the call is for, and the stages it still has to go through, such as
`Applying`, "link", "babelset", "babel", "mptcpset", "mptcp". One call for
each tunnel and a global one run in parallel; a writer (a mutation, or a change
of the settings) runs alone.

| Code | Actions |
|---|---|
| the backend of the kind | `Link`, `Unlink` |
| `upsertTunnel`, `removeTunnel`, `refreshSettings` of the Babel engine | `BabelSet`, `Refresh`; `Move` for the routes of a table that is left |
| `reconcileSerialized` | `Decide` (take `reconcileMu`, compare the fingerprint), `Build` (the old speaker is closed and the new one built outside the engine's mutex), `Clear`; `Compare` (list the table, damp, diff), `Replace` (`RouteReplace`), `Remove` (`RouteDel`) |
| the same of MPTCP | `MptcpSet`, `MptcpAll`, `MptcpRefresh`; `MptcpList` (list the endpoints, plan), `MptcpAdd` and `MptcpDelete` for one address each, `MptcpDone` |
| `saveSettings`, rollback | `Save`, and a call "restore" |
| the outside | `Vanish` of a link, `Learn` and `Expire` (selection), `Cool` (damping), `UserAdds`, `UserRemoves`, `Crash` |

A route is the tunnels it uses and their weights; two weights are further apart
than the tolerance, so that a changed one has to be pending for the cooldown, or
forced. Between the listing of a table, or of the endpoints, and the calls that
follow from it everything else may go on. A record follows the switch of MPTCP or
opts in or out of it (`opt`). `torn` is history: a change of the settings was cut short, or its
rollback failed.

### TunnelObjects

An object of the kernel or of strongSwan has its part (link, addr, peer, route,
rule, state, policy, conn, shared, key, sa), the tunnel it belongs to, a key, a
tag that says whose it is, and a value. A call of the backend is a `job`: `List`
looks at the kernel and plans the calls of a stage, `Do` makes the next one,
`Fail` lets it fail with what the stage does about it, `End` reports. `Load` is
an SRv6 feed that is fetched or taken from the cache. `Write` and `Delete`
are the mutations of the Manager, which remove first where the kind asks for
that. `Vanish` takes an object of TunnelHelper away, `User` adds one where TunnelHelper wants
its own, `Crash` forgets the jobs.

The tags are what ownership can be seen by: "th"; "none" for a link whose alias
has not been set yet; "bare" for an IPv6 route, which keeps no realm; "user".
`alone` is history: nothing else has changed an object since the job started.

An SRv6 tunnel has the route to its SID, and the IPv6 rule for it, only when a feed
has a prefix that goes there (`SRv6Routes`). When the feeds run dry the stage of
the routes no longer knows a bare one, but the observation, with nothing wanted,
takes those that a removal would delete for its own and reports drift
(`LeftBehind`). A WireGuard record without `route_allowed_ips` goes through the
removals of routes and rules instead, which pass over a foreign rule and do not
stop at an error (`Unrouted`, `GoesOn`).

### Daemon

| Code | Actions |
|---|---|
| `run` until it serves | `Start`, `Load`, `Open` and `CommitRecord` (the migration), `Opened`, `Engine` (router id); `Look`, `Dial`, `RemoveStale` (`removeStaleSocket`), `Bind`, `Listen`, `Mode` (the socket that is at the path is remembered) |
| `UpdateSettings` | `Update`, `Apply`, `WriteFile`, `WriteOverride` (a file that cannot be written), `RemoveOverride`, `Rollback` |
| shutdown | `Stop`, `Close` (is the socket at the path the one remembered?), `Unlink` |
| the outside | `Kill`, `Edit` of a file by an operator |

Any number of processes run on one state directory. A record is its schema, its
name, its rule priority and the priorities of its SRv6 sources, which is what the
migration changes. A priority may be any that is `Permitted`, and those given out
come from a part of them, `Priorities`. Between looking at the path, dialling,
removing, binding, listening and remembering, another process may do any of it;
`mine` is who takes the socket at the path for the one it made (`os.SameFile`).
`promised` is history: the settings that were acknowledged last; `torn`, that a
rollback failed and said so; `overlapped`, that a process began or ended while
another was doing so, or was taken for dead while it served; `crossed`, whose socket
another had a reason to doubt (section 3, exceptions).

## 3. Properties and runs

Safety is stated so that breaking it takes several steps, mostly of several
processes. Each property has a mutant, a faulty variant of one modelled function
(commented "Fault" or "faulty" beside it), under which its run fails.

| Run | Module | Instance | Shows |
|---|---|---|---|
| `ControlPlaneRace` | `MCControlPlane` | one routed tunnel, two keys, two clients and the loop, three generations, one failure, one drift, one crash | `TypeOK`, `NoOrphans`, `StatusTruth`, `NoLostRequest`, `EventsAgree` |
| `ControlPlaneLive` | `MCControlPlane` | one IKE tunnel, whose objects every update removes first, one client, one failure, drift and crash | `Convergence`, `RequestsFinish` |
| `FileStore` | `FileStore` | three ids, two names, at most two records, three generations, three failing calls, one crash | `CrashConsistent`, `Acknowledged`, `ImplementsRecordStore` |
| `Transactions` | `MCTransactions` | three ids, two tables, one secret, room for two records, one bundle or restore, two failures, one crash | `NoOrphans`, `AllOrNothing`, `UndoPossible`, `RepairComes` |
| `EventStream` | `EventHub` | history of 2, channel of 2, five events, two broken connections, one restart | `Delivered`, `CatchUp` |
| `Daemon` | `MCDaemon` | two processes, four permitted priorities, of which three are given out, eleven profiles of records found and of what may happen | `MigrationResumes`, `WinnersKept`, `PromiseKept`, `Reachable`, `SettingsAgree`, `Serves` |
| `LinuxBackend` | `MCLinuxBackend` | two tunnels, two versions, two tables, ten profiles | `SpeakerMatches`, `ForeignStays`, `PolicyInstalled`, `RoutesFollow`, `EndpointsFollow` |
| `TunnelObjects` | `MCTunnelObjects` | each kind by itself with each of its faults, and two IKE tunnels | `ReadyIsExact`, `NothingLeft`, `Accounted`, `ForeignStays`, `Settles` |
| `BabelRouting` | `MCBabelRouting` | a triangle with a lost packet; two nodes that both advertise over a tunnel that fails and is repaired | `DistanceKept`, `LoopsAreStale`, `Forgotten` |
| `BabelLink` | `MCBabelLink` | packets of 4, a hold time of 2, sequence numbers from 0 and from 65534, four budgets | `HistoryTruthful`, `Attribution`, `NoneStranded`, `NoEarlyTimeout`, `DeadLinkNoticed` |
| `BabelNil` | `MCBabelRouting` | two nodes, nothing goes wrong | `RetractsSelected` is violated |
| `BabelClose` | `MCBabelLink` | one IHU, one moved cost, one close | `CloseFinishes` is violated |

**Bounds.** Two clients are enough for every pair of operations to meet, and the
loop makes a third process; a third generation allows an update of a tunnel
that was updated while its reconcile ran. One failure, drift and crash each can
fall on any step, and the failure may come before or after the crash. Three
failing calls are what it takes for an operation, its rollback and the
rollback's sync to fail; three ids with two names and room for two records make
names be freed and taken again and the limit be met. In `Transactions` three ids
with two tables and room for two records make a plan whose creation needs the
table and the room of its deletion, and updates that swap tables; two failures
are one in the plan and one in its undo, or in the repair. The one transaction
starts from every valid set of records, after any amount of reconciling; ids and
tables are symmetric, which is sound for invariants. Five events overflow a
history and a channel of two together. For Babel, one new sequence number allows
a prefix to be announced and withdrawn once, which is all that loops and
forgetting need. A tunnel that fails empties what it carries in the pair, and a single
packet is lost in the triangle. `busy` of a scene bounds how many threads are sending
and links are carrying packets when something new starts on its own (timers,
engine calls, neighbours), not what a packet sets off. With the value 2 a withdrawal meets a
dump or a triggered update that has not left yet. `Inf` is 9, so that counting
to infinity, if it happened, would be reached within the run.

`Daemon`, `LinuxBackend`, `TunnelObjects` and `BabelLink` bound what may happen by a budget for each kind of event
(`left`), and a run takes several budgets instead of one large one: a hazard
needs two or three events, of which the profiles name the combinations.
In `BabelLink` 65534 crosses the wrap with its second Hello, packets of four values
cut the three of an update apart when two are queued, and a hold time of two
leaves an interval between the last IHU and the timeout. `LinuxBackend`: two
tunnels are a selection with weights, two versions an address that moves, two
tables a table that is left. The one case that two tunnels cannot show, a speaker
that is closed while the tunnels change twice, needs a third and is covered by
`SpeakerMatchesCorrect`. `Daemon`: the profiles hold every schema, an
unprefixed name that collides with a prefixed one, a schema from the future, two
records with one priority, more records than priorities, one priority outside
those given out, and two that a current record may not have, 0 and one out of range;
a second process is enough for every overlap, and in one profile it starts, stops, is
killed and fails to dial. In `TunnelObjects` every kind meets each fault
alone, with one write, so that every stage fails at every call and is followed by
another attempt; tunnels share nothing in the kernel but private keys, for which
two IKE tunnels are run.

**Fairness.** `ControlPlane`: backend calls return (each has a request timeout),
so begun requests and tasks go on; a Go mutex hands over to a starved waiter, so
`TaskBegin` is strongly fair; `select` chooses among ready cases at random, so
the ticker is. Nobody has to start a request. `EventHub`: the handler and the
client's loop run, and a client that is not connected reconnects. `BabelRouting`:
tickers fire, packets that are not lost arrive, what is pending is sent, and a
neighbour that went silent or came back is noticed; nobody has to advertise or
withdraw. `BabelLink`: timers run and goroutines go on; `runTimers` selects among
its channels at random, so that the timeout and the end, each of which another
case can disable for a while, are strongly fair; the remote owes nothing. `LinuxBackend`: the
ticker reconciles every tunnel and the engines for ever, but only between the
writers, and stages wait for a fair mutex, so both are strongly fair; a
neighbour behind a lost link expires, the cooldown passes, and an operator
removes the route that is in the way. `TunnelObjects`: the ticker and the calls
under way. `Daemon`: the service manager starts the service again
(`src/packaging/systemd/thd.service`, `Restart=always`), and a process goes on;
nobody has to start another one.

**Deadlock** is checked in `ControlPlane`, `Transactions` and `BabelRouting`, where
timers and clients always have a step. In the other runs the bounds on events,
failures, generations and budgets end every behaviour.

### What the violations say

1. **A retraction of nothing** (`BabelNil`). A prefix whose last route is
   flushed after its hold time leaves a nil route among the retractions
   (`babel/speaker.go:958`), which `sendTriggered` dereferences. The test of the
   sweep has no interfaces, so that nothing is sent there.
2. **A close that never returns** (`BabelClose`). `Speaker.Close`
   (`babel/speaker.go:272`) closes the interfaces inside `Interfaces.Foreach`,
   which keeps the mutex of the table (`internal/table/table.go:41-46`), and waits
   there for the goroutine of each neighbour. One that is just announcing a moved
   cost (`neighbour.go:175-178`) walks the same table in `sendTriggeredUpdates`
   (`speaker.go:501`): both wait for ever, and with them the engine that is
   rebuilding the speaker. `neighbour.go:183` says of it: "Close stops the
   neighbour timers and its outgoing queue." This is a lasso under `FairSpec`,
   where nothing else is missing.

### What the properties except

Some of what the code does is not what its documents say; the properties that
hold name the exception.

| The code | The document | The exception |
|---|---|---|
| after a restart a client that asks for what follows a larger sequence gets neither the events nor a gap (`core/events.go:113`) | `docs/API.md:49-52` | `stale` in `EventHub` |
| a client whose first connection broke before an event arrived asks from 0 again, and gets no gap for what the history has dropped meanwhile (`core/events.go:113`) | `docs/API.md:49-52` | `lost` in `Delivered` |
| the undo of a bundle keeps the preshared key that the failed one brought (`core/batch.go:319`, `prepare.go:452`) | `docs/API.md:120-121` | `AllOrNothing` compares all but the secret |
| a node falls back on a route whose feasibility was judged long ago, and nodes forward in a circle (`babel/speaker.go:908`) | `docs/BABEL_ECMP.md:21` | `LoopsAreStale` |
| a neighbour that never sent an IHU has no deadline and keeps its first cost (`babel/neighbour.go`) | `docs/BABEL_ECMP.md:24` | `peer.ihu` in `DeadLinkNoticed` |
| the endpoint of an address that an update has replaced in place is owned no longer and stays (`mptcp.go:365`) | `docs/MPTCP_MANAGEMENT.md:130` | `EndpointsFollow` speaks of the stored address |
| an SRv6 tunnel that is off leaves its SID and its IPv6 routes, which carry no realm | `docs/ROADMAP.md:136` | tag "bare" in `NothingLeft` |
| an SRv6 tunnel whose feeds have run dry leaves its SID route, and every application reports drift for ever (`srv6.go:660-703`, `747`) | `docs/ROADMAP.md:134`: exact routes | `LeftBehind` in `Settles` |
| states of an XFRM or IKE tunnel whose link has vanished are not accounted for, and every later reconciliation refuses (`xfrm_static.go:88`) | `docs/ROADMAP.md:128`: a repair loop as a fallback | `Unaccounted` in `Hindered` |
| a dump retracts the prefix of a dead route that it has just announced (`babel/interface.go:364`) | `babel/interface.go:384-385` | `Forgotten` speaks of withdrawn prefixes only |

Other exceptions are limits of the code that no document denies. A crash between
the file of a link and its alias leaves a link that is refused for ever
(`link.go:62`, tag "none"); a user's route that appears after the table was
listed is replaced (`srv6.go:403` and `babel_backend.go:663-693`, `LateReplace` in
`TunnelObjects` and in `LinuxBackend`); IPv6 routes of WireGuard are
removed and added by every reconciliation (`wireguard.go:526`, `Flapping`); a
private key that two records share is unloaded with the first (`vici.go:329`,
`Rival`); an address allowed to two peers wanders between them (`Disjoint`). A
change of the route table that is cut off by a crash leaves routes in the old one
(`torn`). A process may lose its socket to another one (`crossed`,
`unix.go:152-184`) that had decided on the removal before it bound the path, or had
bound the path itself and then remembers what is there; that dialled it before it
listened; or whose dial failed for another reason, such as a timeout. `Reachable`
holds of all others, whoever begins or ends beside them, and nothing in the code
prevents these. Two processes that serve at once both change the settings, so that
`PromiseKept` and `SettingsAgree` leave out overlapping ones (`overlapped`). A Hello at exactly half the number space overflows
the distance (`jumped`). `PROJECT.json` has the rest under "hazards".

## 4. Proofs

`ControlPlaneProofs` proves, for every set of tunnels, keys and clients, every
kind and every bound,

- `TypeCorrect`: `Spec => []TypeOK`;
- `NoOrphansCorrect`: `Spec => []NoOrphans`.

The only assumption is `ControlPlaneAssumption`: `Run` is no client, the bounds
are numbers, `KindOf` gives every tunnel a kind, `None` is neither a process, a
record, a status nor an event.

`NoOrphans` is not inductive: a task in its backend call installs objects under
the key of the record it read earlier, and a mutation commits a record read
before its removal. The invariant is

    IInv == TypeOK /\ GateInv /\ TaskInv /\ MutationInv /\ UsedInv /\ NoOrphans

- `GateInv`: the requests in their mutating steps are exactly the holder of the
  write side, the reading ones exactly the readers, and a writer excludes them;
- `TaskInv`: a task runs inside the gate, or is the repair of a failed deletion,
  and a task in its call holds the record that is stored now;
- `MutationInv`: a mutation holds the stored record, and one that is past its
  removal has left no object of that tunnel;
- `UsedInv`: a new id is not the id of a stored record, so `Create` finds no
  objects under it.

The argument: only the writer changes records, so while a task is in its call
the record it holds stays stored (`TaskInv` by `GateInv`), and what it installs
carries the stored key. Only the writer's own tunnel changes its key or goes,
and by `MutationInv` nothing of it is left at that point: at the commit of an
update that keeps the key in place, the objects already have the right one. Each
conjunct has a step lemma (`TypeStep`, `GateStep`, `TaskInvStep`,
`MutationStep`, `UsedStep`, `OrphanStep`) with one case for each action;
`InductiveInv` combines them.

Its second part goes on from there to `StatusTruthCorrect`,
`NoLostRequestCorrect` and `EventsAgreeCorrect`, from the same assumption, with

    SInv == IInv /\ LockInv /\ EventInv /\ PendingInv /\ WakeInv /\ TruthInv

- `LockInv`: a reconcile keeps its tunnel's mutex from its call until its status
  is published, so that no two of them are between the same two steps;
- `EventInv`: the last event of a tunnel agrees with its status, or a task is
  about to publish, and what it holds is the event of that status;
- `PendingInv`: a tunnel that is shown as pending is awaited: queued, in the
  pass, or given up because the store could not be read (`lost`);
- `WakeInv`: a queue that is not empty has a wake-up in the channel, or the loop
  has just taken it;
- `TruthInv`: a ready tunnel has the objects of the stored record and of its
  generation, and a disabled one none, unless a reconcile is awaited or a
  mutation is between its removal and its end.

The last is why the others are needed: the status is stored in one step, what it
says is undone by a mutation in another, and the tunnel is marked pending in a
third; between them the only thing that makes up for it is a request on its way,
which `PendingInv` and `WakeInv` keep.

The first part of `StoreAndHubProofs` proves, for every set of ids and names and every bound,
`TypeCorrect`, `CrashConsistentCorrect`, `AcknowledgedCorrect` and
`Implementation`: `Spec => ImplementsRecordStore`, the refinement. The
assumption is `FileStoreAssumption`: the bounds are numbers, a generation
exists, `None` and `Torn` are no records. Its invariant says how far the
operation under way is and what the disk may hold by then:

- `Valid`: the operation leads from a good map (`before`) to a good one
  (`Result`), by a step `RecordStore` allows, and every map still in doubt from
  earlier failures is good;
- `Progress`: until the rename, or the removal, the directory is `before` and the
  disk holds that or a map in doubt; after it, the directory is `Result` and the
  disk may hold either; once rolled back, the directory is `before` again and
  the disk may still hold either, until a sync settles it;
- `Rollback`: a rollback by renaming has a record to put back;
- a renamed file was synced (`tmp`), without which a torn record could appear.

`CrashConsistent` alone is not inductive, since the content that a rename is
going to put in place must be known to fit the other names, and the content that
a rollback puts back to have fitted them. For the refinement, the steps inside
an operation stutter (`Hidden`), success is a `Commit`, a rollback that reached
the disk is a `Refuse`, one that failed a `Waver` (`DoubtWavers`), and a crash is
the map's crash.

Its second part, for every set of clients and every capacity, buffer and bound, is
`DeliveredCorrect`: `HubSpec => []Delivered`. Fairness is not needed; the assumption
is `EventHubAssumption`, by which a history and a channel hold at least one item.
The invariant `HubInv` is, for the hub and for each client:

- `HistoryInv`: the history is the last events published, without a hole;
- `Ordered`: what is on its way (`InFlight`: the wire, what the handler has yet to
  write, the channel) rises, comes after everything received, and has the
  item a stream begins with at its head or nowhere;
- `Covered`: a client that does not owe a reload has met (`Met`: it knows them, or
  they are `lost`) all events up to the
  sequence it would come back with, and, unless a gap is on its way too, each item on
  its way leaves no hole below it; a subscriber's reach up to the last event.

`Delivered` speaks of a client that is connected, but a client that comes back is
served from the sequence it had reached when it was cut off, so that sequence has
to be right at every moment: a hole below it would never be filled. That is what
`Covered` adds, also for the clients that are not subscribed, and whose streams are
still being drained. Every queue operation has one lemma for each of the two
(`OrderedTaken`, `CoveredTaken`, ...); `ReplayRight` says what the replay holds,
from a closed form of the recursive function, which is its only value by the least
place where another would differ (`Smallest`).

`DaemonProofs` proves, for any processes, priorities, settings and records found,
`PromiseKeptCorrect`, `SettingsAgreeCorrect`, `ReachableCorrect` and
`WinnersKeptCorrect`. `DaemonAssumption` says that the service is a process,
settings have router ids or none, only a current SRv6 record is found with a
priority, which may be any number, permitted priorities are positive numbers, and
those given out a finite set of them. `PromiseKept` and `SettingsAgree` follow from

    ProcessInv == TypeInv /\ BusyInv /\ SocketInv /\ JobInv

- `BusyInv`: only a process that serves has a change of settings under way;
- `SocketInv`: as long as processes begin and end one at a time, nobody serves
  beside one that has found the path free or stale, or that closes, and who listens
  or serves has the socket at the path;
- `JobInv`: then there is one change at most, and at each of its steps the files
  load what was in effect before it or what it brings, and the backend has one of
  the two as well.

`SettingsAgree` is an action property, from the same invariant. `Reachable` follows
from `CrossInv`, which holds whoever begins or ends at the same time: a process whose
socket nobody doubted has the path to itself, that is, no other is about to remove
what is there, and no other takes it for its own. The last is what a process that
ends goes by, so that one that lost its own socket leaves the path alone.
`WinnersKept` has
an invariant of its own, `RecordInv`: a record of schema 3 is as it was found, or
has the ranks that `Normalised` gives. That those turn an order of priorities
round is `RankOrder`: the sources before a winner are a proper part of those
before a loser, and a proper part of a finite set has fewer members.

`LinuxBackendProofs` proves, for any tunnels, versions, tables and budgets,
`SpeakerMatchesCorrect`, `ForeignStaysCorrect` and `PolicyInstalledCorrect`, from
`LinuxBackendAssumption`: "global", "writer" and `None` are no tunnels, there is a
version, and settings are settings. The first needs

    SpeakerInv == TypeInv /\ GateInv /\ CallInv /\ PlaceInv /\ BuiltInv /\ ClosingInv

- `GateInv`: a writer's call excludes all others;
- `CallInv`: what a call is for, and which stages may be left to it;
- `PlaceInv`: a call in the middle of the Babel stage holds `reconcileMu`, and
  nobody else does;
- `BuiltInv`: the fingerprint kept for the running speaker and the tunnels it was
  built from differ only in tunnels that are by now what the records ask for, and
  as long as they, or the engine's tunnels, differ at all, some call has still to
  compare (`Undecided`); while the settings change they do not differ;
- `ClosingInv`: while an old speaker is closed, none is running, and the
  fingerprint taken before is related to the engine's tunnels in the same way.

The difficulty is in `BuiltInv`. The engine gives its mutex up while it closes the
old speaker, and a tunnel that another call adds meanwhile is in the speaker and
not in the fingerprint. What saves it is that the other call has its Babel stage
still before it, and `reconcileMu` makes it wait. The other two need

    ForeignInv == SpeakerInv /\ RouteInv /\ PlanInv
    PolicyInv == ForeignInv /\ SettingsInv

`RouteInv` says that what is not TunnelHelper's uses no tunnel, so that a link that
vanishes takes none of it along; `PlanInv`, that a call that is about to replace a
route has listed none of a user's there, and that the endpoints it is about to delete
are of tunnels. `RouteGoesOn` lists what a step can make of a route. What remains is
the route that a user adds between the listing and `RouteReplace`, which
`ForeignStays` excepts by name (`LateReplace`): the code takes it. Nothing else that
runs in between, fails or crashes can take a user's route or endpoint. In `PolicyInv`,
`SettingsInv` says that the engine's settings are those of the file, or those of the
change under way, unless one was torn, and that the flag that forces the weights stays
up until the call has gone through its Babel stage.

The migration has an invariant of its own as well:

- `MigrationInv`: the records on disk are sound (only a current SRv6 record has
  a priority; whether it is a permitted one is for the migration to find), and if the records found can be migrated then so can those on the
  disk, and to the same result; a process in the middle of writing has still to
  write exactly what is not there yet.

`MigrationResumes` follows, and the difficulty is in "the same result": names and
priorities are given out in the order of the records, to each the lowest that is
free, and a migration that was cut off has written some of them and not others.
`BelowReached` is the argument: the record that is k-th in the order gets the k-th
free priority, since as many free ones lie below it as records that want one come
before it. Writing one record takes one priority from the free ones and one
record from those that want one, on the same side of every other, so that what
the others get stays (`AllocatedStays`, `SameInTheEnd`); and no refusal can
appear, since both counts fall by one (`NotRefused`).

`TransactionsProofs` proves, for any finite set of tunnels, any tables, secrets and
bounds, plans of any length in every order the sort leaves open, `NoOrphansCorrect`,
`AllOrNothingCorrect`, `UndoPossibleCorrect` and `RepairComesCorrect`, from
`TransactionsAssumption`: "empty" and "clear" are no secrets, the bounds are
numbers, `None` is neither a record nor a transaction.

    IInv == TypeInv /\ PlanInv /\ PlaceInv /\ StoreInv /\ KernInv /\ RepairInv

- `PlanInv`: each step is about the record before and after the plan, deletions
  come first, a tunnel has at most a deletion and a creation, one without a step
  stays as it is, and the records before the plan are a valid set;
- `PlaceInv`: which steps can be in the store: those before `next`, or those that
  are left to be undone; an undo goes back through a bundle, and through the
  creations of a restore before its deletions;
- `StoreInv`: the store is a valid set of records; what each tunnel has is decided by the steps in place that are
  about it; no creation or update in place has claimed the table that a later update gives up;
- `KernInv`: besides `NoOrphans`, nothing is installed of a tunnel whose objects the
  current step has removed, or that a step in place has created or moved;
- `RepairInv`: a stored tunnel is installed as its record says, shown as failed, or
  queued, or the transaction still owes it to the queue.

`UndoPossible` is the point where the order matters: undoing a step puts back a
record whose table and whose room another step may have taken since. It is free
because the undo goes back in the reverse order, and once deletions are undone
everything else has been, so that what is stored is a proper part of the valid set
from before the plan and there is room (`UndoFits`).

`BabelRoutingProofs` proves, for any network, costs, thresholds, losses and bounds,
`DistanceKeptCorrect` and `LoopsAreStaleCorrect`, from `BabelRoutingAssumption`:
tunnels join two nodes and cost something, `GCTime > Hold`, `None` is nothing else.

    IInv == TypeInv /\ NodeInv /\ LinkInv /\ KeptInv

- `NodeInv`: a node selects a route that it has and advertises only what it may,
  and a dead one has nothing;
- `LinkInv`: routes and packets belong to tunnels of the network;
- `KeptInv`: the distances of a node cover each update that is on its way to a
  neighbour for `GCTime` more intervals, and the neighbour's route for longer than
  that route can last. `DistanceKept` alone says nothing of how long, and the next
  `Tick` could take the distance away before the route.

For `LoopsAreStale`, suppose that every node of a circle goes by what is feasible
now. Then the distance of each, (sequence number, metric), is strictly worse than
that of the node it forwards to (`DistanceFalls`), and among the distances of a
circle, of any size, one is best: the node that has it cannot forward to a better.

`BabelLinkProofs` proves, for every size of packet, hold time, start of the sequence
number and budget, `AttributionCorrect`, `NoneStrandedCorrect`,
`HistoryTruthfulCorrect` and `NoEarlyTimeoutCorrect`, from `BabelLinkAssumption`: a
packet holds at least one value, a hold time is at least one interval, sequence
numbers have 16 bits, `None` is no router.

    IInv == SenderInv /\ NetInv /\ PeerInv /\ LearntInv

- `SenderInv`: the queue is a sequence of values in which the last router id before
  an update, if there is any, is that of its own router; it has a timer that will
  send it;
- `NetInv`: the same of each packet in flight. It holds of every part of a queue:
  where a cut separates an update from its router id there is no router id before
  it at all (`PartPacket`), and the decoder ignores such an update (`DecodedRight`);
- `PeerInv`: a neighbour's history is true unless a Hello jumped half the number
  space, and its timer has gone off only if the whole hold time is over;
- `LearntInv`: what was learnt of a prefix is attributed to its own router.

That the history stays true is arithmetic modulo 2^16: moving the vector by the
distance between the Hello expected and the one received renumbers its bits
without changing what they stand for (`ShiftedBack`, `ShiftedOn`), and two numbers of
which neither is less than the other are equal or half the space apart
(`NeitherLess`). A packet is handled by a recursive function over its values;
that such a function exists, and what it keeps, is shown by a smallest place
where it would not be so (`Smallest`, the least-number principle, itself from the
well-founded order of the finite sets), which takes the place of induction.

`TunnelObjectsProofs` proves, for any tunnels, kinds, records, feeds and budgets,
`ReadyIsExactCorrect`, `NothingLeftCorrect`, `AccountedCorrect` and
`ForeignStaysCorrect`, from `TunnelObjectsAssumption`: each kind has its
specifications, `None` is no kind and no record, a secret is no tunnel, a profile
gives a kind to each tunnel with a record; the peers of a WireGuard record have
distinct keys (`model/validate.go:248`) and each prefix is IPv4 or IPv6.

    IInv == TypeInv /\ ObjectInv /\ AccountInv /\ JobInv /\ RemovalInv /\ ApplyInv

- `ObjectInv`: each object is one that its tunnel's kind may have, a tunnel has one
  link at most, and addresses, peers and WireGuard routes have a link to hang on;
- `AccountInv`: `Accounted`, with the key of a record that loads one (`auth` is not
  "psk"): a record with a shared secret accounts for no private key;
- `JobInv`: a job works on the stored record and has some stages of its kind
  left; each of its calls is about what its tunnel owns; a job about a link has
  seen that no user has it, and nothing of a user's is in the way of a `replace`
  unless somebody came between;
- `RemovalInv`: a removal without an error has left nothing of the stages it has
  been through (`Over`), and its plan covers all that the current stage is for;
- `ApplyInv`: an application without an error that nobody disturbed has reached the
  goal of each stage it has been through (`Done`, `Goal`), and what is left of its
  plan leads to the goal of the current one (`Leads`). SRv6 is the exception: it is
  compared with its record at the end.

`ReadyIsExact` needs more than that each stage ends well: its calls are made one by
one, in any order their turns allow, against a kernel that was listed before the
first. `WayLeads` is what each call keeps: all that is wanted is there or will be
made, all that is too much will be deleted or replaced, and a wanted object that is
deleted, as an IPv6 route without its realm is, is made again later. `LinkLeads` says
it of the link that goes, comes back and gets its alias; `DeviceConfigured` that
WireGuard's one call, in which the kernel moves an allowed IP from peer to peer in
the order of the record, ends with what the record says if no two peers claim the
same. That no stage undoes another is by what they are about: each object concerns
one stage (`ConcernsOne`), and only the link takes others with it, when none of
them is there yet (`Ordered`).

`RemovalInv` is what `NothingLeft` lacks: the answer at the end is the sum of
stages that each saw the kernel at their own time, and other jobs, a user and the
kernel go on in between. Nothing of the tunnel's can come back (`EffectAdds`: a
job adds only to its own tunnel), but the private key can, which two records may
share; hence `alone`, and the gate for a mutation. A stage that finds no link still
has to find the rules (`PlanCovers`). `Accounted` needs both: the record goes when
its removal is over, and by then nothing refers to it; and a change of an
IKEv2 record in place, without a cleanup, keeps its specification. In `ForeignStays`,
a deletion of a link takes with it what hangs on the link, and of that the user owns
nothing (`DeletedSpares`).

Only model-checked: the liveness properties, `Convergence`, `RequestsFinish`,
`CatchUp`, `Serves`, `RoutesFollow`, `EndpointsFollow`, `Settles`, `Forgotten` and
`DeadLinkNoticed` (fairness and ENABLED are outside the prover's reach). Every safety
invariant that a run checks has its theorem.

## 5. Not modelled, and the plan

Not to be modelled: the octets of a Babel TLV and the digest and encryption of an
archive (pure functions with fuzz tests), authorisation and JSON of the control
API, the protocol and session of strongSwan's socket (one request at a time
behind a mutex; its outcome is a call's), field validation and defaults of a
record (pure functions of one record), and the terminal client (single-threaded
forms and layout, a third of the lines of the repository).

Inside modelled parts: the answers of a speaker to route and seqno requests (no
node originates one), delay and bandwidth in metrics beyond a cost that moves,
`UpdateECMPParams`, heartbeats, worker pool limits, limits and flags of MPTCP
endpoints, how path scores are measured, watchers that end when their channel
closes (they report nothing from then on, which `ControlPlane` allows them).

Planned, the most important first:

1. The abstract specification of `Transactions`, one atomic change of the map, with its refinement when no undo
   fails.
2. That `LinuxBackend` and `TunnelObjects` implement the backend call of
   `ControlPlane`, as a refinement; the seam is described in section 2 and not
   checked.
3. A client that updates by the generation it read (`docs/API.md:162-164`), while
   a restore brings an old generation back (`core/backup.go:103`).
4. Two nodes of `BabelRouting` on top of `LinuxBackend`: a rebuilt speaker starts
   its sequence number at zero under the same router id
   (`babel_backend.go:345`), and its neighbours refuse it until they forget.
