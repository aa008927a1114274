---------------------------- MODULE BabelRouting ----------------------------
(***************************************************************************)
(* The Babel speakers of a network of TH nodes: route acquisition,         *)
(* selection, triggered and periodic updates and expiry, as they are       *)
(* written in internal/babel/speaker.go and interface.go, for one prefix.  *)
(*                                                                         *)
(*  - every access to the tables holds Speaker.mu, but the updates that a  *)
(*    selection calls for are encoded after it was released, in a critical *)
(*    section of their own for each interface, from the routes as they are *)
(*    by then.  pend[n][t] is what thread t of node n has still to send:   *)
(*    the read loop, the periodic timers of the interfaces, everything     *)
(*    else (the sweep ticker, the engine's calls, neighbour timers);       *)
(*  - packets may be lost;                                                 *)
(*  - time passes in update intervals (16 s).  Within one, packets arrive, *)
(*    the sweep (1 s) runs, and every interface sends its periodic dump.   *)
(*                                                                         *)
(* Abstracted: a node has one interface, one tunnel, for each neighbour.   *)
(* Next hops are neighbours, ties are broken arbitrarily.  Smoothing is    *)
(* the choice to keep a selected route while a better one is new.  Delay   *)
(* and bandwidth are left out, a link has its cost or, once the neighbour  *)
(* is not heard of, none.  Sequence numbers stay far below 2^15, where the *)
(* comparison modulo 2^16 is the order of numbers.  No node of TH sends    *)
(* route or seqno requests of its own accord, so none is answered.         *)
(***************************************************************************)
EXTENDS Naturals, Sequences, FiniteSets

CONSTANTS
  Nodes,
  LinkCost,     \* LinkCost[l]: Neighbour.Cost of both ends of the tunnel l, a set of
                \* two nodes, while they hear each other
  Origins,      \* nodes that may advertise the prefix
  Inf,          \* proto.Retraction
  Slack,        \* Parameters.MultipathSlack
  Hold,         \* Parameters.RouteExpiryTime, in update intervals
  GCTime,       \* Parameters.SourceGCTime, in update intervals
  MaxSeq,       \* bound: sequence numbers
  Scenes,       \* networks to be run: the tunnels there are, who may advertise, and
                \* the bounds loss (lost packets), flap (failures and repairs of
                \* links) and busy (threads sending and links carrying packets when
                \* a timer fires, a prefix is advertised, a neighbour comes or goes)
  None

\* Source.SeqNo and Source.Metric, with what is left until Source.GC.
Distance == [seq : Nat, metric : Nat, gc : Nat]

\* Route: the update it was learnt from, its metric, the verdict on it, its time.
Entry == [rid : Nodes \cup {None}, seq : Nat, adv : Nat, metric : Nat, feasible : BOOLEAN, ttl : Nat]

ASSUME BabelRoutingAssumption ==
  /\ \A l \in DOMAIN LinkCost : l \subseteq Nodes /\ Cardinality(l) = 2
  /\ \A l \in DOMAIN LinkCost : LinkCost[l] \in Nat \ {0}
  /\ \A c \in Scenes : /\ c.links \subseteq DOMAIN LinkCost /\ c.origins \subseteq Origins
                       /\ c.loss \in Nat /\ c.flap \in Nat /\ c.busy \in Nat \ {0}
  /\ Origins \subseteq Nodes
  /\ Inf \in Nat \ {0} /\ Slack \in Nat
  /\ Hold \in Nat \ {0} /\ GCTime \in Nat /\ GCTime > Hold
  /\ MaxSeq \in Nat
  /\ None \notin Nodes \cup Distance \cup Entry

VARIABLES
  alive,     \* nodes whose daemon runs
  seqno,     \* Speaker.localSeqNo
  local,     \* local[n]: the sequence number of the advertised prefix, or None
  route,     \* route[n][m]: n's route learnt from m, or None
  sel,       \* Speaker.selected: a neighbour, n itself for the local route, None
  fd,        \* fd[n][o]: Speaker.Sources, the feasibility distance for origin o
  near,      \* near[n]: the neighbours n hears of (finite cost)
  up,        \* links that carry packets
  pend,      \* pend[n][t]: what thread t has still to encode and send
  wire,      \* wire[n][m]: packets from n to m
  dumped,    \* nodes whose periodic timers have fired in this interval
  scene,     \* which of the Scenes is run
  losses, flaps   \* what is left of its bounds

tables == <<seqno, local, route, sel, fd>>
links == <<near, up>>
budget == <<scene, losses, flaps>>
vars == <<alive, tables, links, pend, wire, dumped, budget>>

Threads == {"reader", "timers", "other"}
Neighbours(n) == {m \in Nodes : {n, m} \in scene.links}

-----------------------------------------------------------------------------
(* Routes and distances.                                                   *)

\* A TLV: the router id, the sequence number and the metric of an update.
Retraction == [rid |-> None, seq |-> 0, metric |-> Inf]

\* A route without a future: retracted by its neighbour, or expired.
Dead == [rid |-> None, seq |-> 0, adv |-> Inf, metric |-> Inf, feasible |-> TRUE, ttl |-> Hold]

\* Source.Feasible and Source.UpdateFeasibility.
Closer(u, d) == u.seq > d.seq \/ (u.seq = d.seq /\ u.metric < d.metric)
Feasible(u, d) == u.metric = Inf \/ d = None \/ Closer(u, d)
LoweredUnrefreshed(d, u) ==   \* faulty: an update that does not improve does not refresh
  IF d = None \/ Closer(u, d) THEN [seq |-> u.seq, metric |-> u.metric, gc |-> GCTime] ELSE d

Lowered(d, u) ==
  IF d = None \/ Closer(u, d)
    THEN [seq |-> u.seq, metric |-> u.metric, gc |-> GCTime]
    ELSE [d EXCEPT !.gc = GCTime]

\* defaultMetric.
Metric(cost, adv) ==
  IF cost = Inf \/ adv = Inf THEN Inf
  ELSE IF cost + adv >= Inf THEN Inf - 1 ELSE cost + adv

CostTo(n, m, heard) == IF m \in heard THEN LinkCost[{n, m}] ELSE Inf

Recomputed(n, table, heard) ==
  [m \in Nodes |-> IF table[m] = None THEN None
                   ELSE [table[m] EXCEPT !.metric = Metric(CostTo(n, m, heard), table[m].adv)]]

-----------------------------------------------------------------------------
(* runSelectionLocked.                                                     *)

Candidates(table) == {m \in Nodes : table[m] # None /\ table[m].feasible /\ table[m].metric < Inf}
Best(table) ==
  {m \in Candidates(table) : \A k \in Candidates(table) : table[m].metric <= table[k].metric}

\* A local route has the metric 0, smoothed or not, and always wins.
Choices(n, table, own, prev) ==
  IF own # None THEN {n}
  ELSE IF Candidates(table) = {} THEN {None}
  ELSE IF prev \in Candidates(table)
    THEN {prev} \cup {m \in Best(table) : table[m].metric < table[prev].metric}
    ELSE Best(table)

\* exportCandidatesLocked and exportFingerprintLocked.
Exported(table) ==
  {k \in Candidates(table) : \A b \in Best(table) : table[k].metric <= table[b].metric + Slack}

Fingerprint(n, table, s) ==
  IF s = None THEN <<None, {}>>
  ELSE IF s = n THEN <<n, {}>>
  ELSE <<s, [m \in {s} \cup Exported(table) |-> table[m].metric]>>

Present(table, own) == own # None \/ \E m \in Nodes : table[m] # None

\* A job: the neighbour it is sent to, the selected route to encode (a neighbour,
\* n itself or None), the sequence number of a local one, and whether a retraction
\* follows: "no", "yes", or "nil" for that of no route.

\* What sendTriggeredUpdates sends: the selected route, subject to split
\* horizon; a retraction of the route selected before; or, when the last route
\* of the prefix goes, a retraction of whatever was selected before.
Triggered(n, table, own, s) ==
  LET jobs(via, to, retract) ==
        {[to |-> m, via |-> via, seq |-> IF via = n THEN own ELSE 0, retract |-> retract] : m \in to}
  IN IF ~ Present(table, own)
       THEN IF ~ Present(route[n], local[n]) THEN {}
            ELSE jobs(None, Neighbours(n), IF sel[n] = None THEN "nil" ELSE "yes")
     ELSE IF Fingerprint(n, table, s) = Fingerprint(n, route[n], sel[n]) THEN {}
     ELSE IF s # None THEN jobs(s, Neighbours(n) \ {s}, "no")
     ELSE jobs(None, Neighbours(n), "yes")

\* One selection run of thread t, on the new table, with the new costs.
Selection(n, t, table, own, heard) ==
  LET new == Recomputed(n, table, heard) IN
  \E s \in Choices(n, new, own, sel[n]) :
    /\ route' = [route EXCEPT ![n] = new]
    /\ sel' = [sel EXCEPT ![n] = s]
    /\ pend' = [pend EXCEPT ![n][t] = @ \cup Triggered(n, new, own, s)]

\* Thread t has finished what it did before, and the network is not too busy
\* for it to start something new.
Free(n, t) == n \in alive /\ pend[n][t] = {}
Busy == Cardinality({x \in Nodes \X Threads : pend[x[1]][x[2]] # {}})
          + Cardinality({x \in Nodes \X Nodes : wire[x[1]][x[2]] # <<>>})
Idle(n, t) == Free(n, t) /\ Busy < scene.busy

-----------------------------------------------------------------------------
(* Local routes: Advertise, also of a prefix that is already there after   *)
(* another one has bumped the sequence number, and Withdraw.               *)

Advertise(n) ==
  /\ n \in scene.origins /\ Idle(n, "other")
  /\ seqno[n] < MaxSeq
  /\ seqno' = [seqno EXCEPT ![n] = @ + 1]
  /\ local' = [local EXCEPT ![n] = seqno'[n]]
  /\ Selection(n, "other", route[n], local'[n], near[n])
  /\ UNCHANGED <<alive, fd, links, wire, dumped, budget>>

Withdraw(n) ==
  /\ Idle(n, "other")
  /\ local[n] # None
  /\ local' = [local EXCEPT ![n] = None]
  /\ Selection(n, "other", route[n], None, near[n])
  /\ UNCHANGED <<alive, seqno, fd, links, wire, dumped, budget>>

-----------------------------------------------------------------------------
(* onUpdateReceived, for the next TLV of a packet from m.                  *)

Learnt(u, feasible) ==
  IF u.metric = Inf THEN Dead
  ELSE [rid |-> u.rid, seq |-> u.seq, adv |-> u.metric, metric |-> Inf,
        feasible |-> feasible, ttl |-> Hold]

Ignored(n, m, u, feasible) ==
  IF route[n][m] = None
    THEN ~ feasible \/ u.metric = Inf
    ELSE sel[n] = m /\ ~ feasible /\ route[n][m].rid = u.rid

Receive(n, m) ==
  /\ Free(n, "reader")
  /\ wire[m][n] # <<>>
  /\ LET packet == Head(wire[m][n])
         u == Head(packet)
         feasible == u.metric = Inf \/ Feasible(u, fd[n][u.rid])
     IN /\ wire' = [wire EXCEPT ![m][n] =
                      IF Len(packet) = 1 THEN Tail(@) ELSE <<Tail(packet)>> \o Tail(@)]
        /\ IF Ignored(n, m, u, feasible)
             THEN UNCHANGED <<route, sel, pend>>
             ELSE Selection(n, "reader", [route[n] EXCEPT ![m] = Learnt(u, feasible)],
                            local[n], near[n])
  /\ UNCHANGED <<alive, seqno, local, fd, links, dumped, budget>>

-----------------------------------------------------------------------------
(* Sending: encodeRoutes and encodeRetraction, then the packet.            *)

\* The update of a job, from the route as it is now; a local route that was
\* withdrawn in the meantime is still encoded, a retracted one is not.
Encoded(n, job) ==
  IF job.via = None THEN <<>>
  ELSE IF job.via = n
    THEN <<[rid |-> n, seq |-> IF local[n] # None THEN local[n] ELSE job.seq, metric |-> 0]>>
  ELSE LET r == route[n][job.via] IN
    IF r = None \/ r.metric = Inf THEN <<>>
    ELSE <<[rid |-> r.rid, seq |-> r.seq, metric |-> r.metric]>>

\* A packet leaves, or is lost.
Transmit(n, m, packet) ==
  IF packet = <<>> \/ {n, m} \notin up \/ m \notin alive
    THEN UNCHANGED <<wire, losses>>
    ELSE \/ wire' = [wire EXCEPT ![n][m] = Append(@, packet)] /\ UNCHANGED losses
         \/ losses > 0 /\ losses' = losses - 1 /\ UNCHANGED wire

SendUnrecorded(n, t, job) ==   \* faulty: the distance is not recorded
  LET update == Encoded(n, job) IN
  /\ job \in pend[n][t] /\ job.retract # "nil"
  /\ pend' = [pend EXCEPT ![n][t] = @ \ {job}]
  /\ Transmit(n, job.to, IF job.retract = "yes" THEN Append(update, Retraction) ELSE update)
  /\ UNCHANGED <<alive, tables, links, dumped, scene, flaps>>

Send(n, t, job) ==
  LET update == Encoded(n, job) IN
  /\ job \in pend[n][t]
  /\ job.retract # "nil"
  /\ pend' = [pend EXCEPT ![n][t] = @ \ {job}]
  /\ fd' = IF update = <<>> THEN fd
           ELSE [fd EXCEPT ![n][update[1].rid] = Lowered(@, update[1])]
  /\ Transmit(n, job.to, IF job.retract = "yes" THEN Append(update, Retraction) ELSE update)
  /\ UNCHANGED <<alive, seqno, local, route, sel, links, dumped, scene, flaps>>

\* encodeRetraction of a nil route panics, and the daemon dies.
Panic(n, t, job) ==
  /\ job \in pend[n][t]
  /\ job.retract = "nil"
  /\ alive' = alive \ {n}
  /\ local' = [local EXCEPT ![n] = None]
  /\ route' = [route EXCEPT ![n] = [m \in Nodes |-> None]]
  /\ sel' = [sel EXCEPT ![n] = None]
  /\ fd' = [fd EXCEPT ![n] = [o \in Origins |-> None]]
  /\ pend' = [pend EXCEPT ![n] = [s \in Threads |-> {}]]
  /\ wire' = [m \in Nodes |-> [wire[m] EXCEPT ![n] = <<>>]]
  /\ UNCHANGED <<seqno, links, dumped, budget>>

\* Interface.sendUpdate: the periodic timers of the interfaces, started together,
\* have fired; advertisedRoutes has collected for each the selected route,
\* subject to split horizon, and the retracted routes that are still held.
Dump(n) ==
  /\ Idle(n, "timers") /\ n \notin dumped
  /\ dumped' = dumped \cup {n}
  /\ LET held == \E k \in Nodes : route[n][k] # None /\ route[n][k].metric = Inf /\ route[n][k].ttl > 0
         via(m) == IF sel[n] = m THEN None ELSE sel[n]
     IN pend' = [pend EXCEPT ![n]["timers"] =
          {[to |-> m, via |-> via(m), seq |-> IF via(m) = n THEN local[n] ELSE 0,
            retract |-> IF held THEN "yes" ELSE "no"] :
              m \in {k \in Neighbours(n) : via(k) # None \/ held}}]
  /\ UNCHANGED <<alive, tables, links, wire, budget>>

-----------------------------------------------------------------------------
(* Time: the sweep and the passing of an update interval.                  *)

SweptLive(r) ==   \* faulty: an expired route is given another hold time, not retracted
  IF r = None \/ r.ttl > 0 THEN r ELSE IF r.metric # Inf THEN [r EXCEPT !.ttl = Hold] ELSE None

Swept(r) ==
  IF r = None \/ r.ttl > 0 THEN r ELSE IF r.metric # Inf THEN Dead ELSE None

Sweep(n) ==
  /\ Idle(n, "other")
  /\ fd' = [fd EXCEPT ![n] = [o \in Origins |-> IF @[o] # None /\ @[o].gc = 0 THEN None ELSE @[o]]]
  /\ Selection(n, "other", [m \in Nodes |-> Swept(route[n][m])], local[n], near[n])
  /\ UNCHANGED <<alive, seqno, local, links, wire, dumped, budget>>

Due(n) ==
  \/ \E m \in Nodes : route[n][m] # None /\ route[n][m].ttl = 0
  \/ \E o \in Origins : fd[n][o] # None /\ fd[n][o].gc = 0

Tick ==
  /\ \A n \in alive :
       /\ n \in dumped
       /\ \A t \in Threads : pend[n][t] = {}
       /\ \A m \in Neighbours(n) : wire[m][n] = <<>>
       /\ ~ Due(n)
  /\ dumped' = {}
  /\ route' = [n \in Nodes |-> [m \in Nodes |->
       IF route[n][m] = None THEN None ELSE [route[n][m] EXCEPT !.ttl = @ - 1]]]
  /\ fd' = [n \in Nodes |-> [o \in Origins |->
       IF fd[n][o] = None THEN None ELSE [fd[n][o] EXCEPT !.gc = @ - 1]]]
  /\ UNCHANGED <<alive, seqno, local, sel, links, pend, wire, budget>>

-----------------------------------------------------------------------------
(* Links: the IHU deadline, an IHU after it, and the links themselves.     *)

LoseNeighbour(n, m) ==
  /\ Idle(n, "other")
  /\ m \in near[n] /\ ({n, m} \notin up \/ m \notin alive)
  /\ near' = [near EXCEPT ![n] = @ \ {m}]
  /\ Selection(n, "other", route[n], local[n], near'[n])
  /\ UNCHANGED <<alive, seqno, local, fd, up, wire, dumped, budget>>

HearNeighbour(n, m) ==
  /\ Idle(n, "reader")
  /\ m \in (Neighbours(n) \cap alive) \ near[n] /\ {n, m} \in up
  /\ near' = [near EXCEPT ![n] = @ \cup {m}]
  /\ Selection(n, "reader", route[n], local[n], near'[n])
  /\ UNCHANGED <<alive, seqno, local, fd, up, wire, dumped, budget>>

LinkDown(n, m) ==
  /\ flaps > 0 /\ {n, m} \in up
  /\ flaps' = flaps - 1 /\ UNCHANGED <<scene, losses>>
  /\ up' = up \ {{n, m}}
  /\ wire' = [wire EXCEPT ![n][m] = <<>>, ![m][n] = <<>>]
  /\ UNCHANGED <<alive, tables, near, pend, dumped>>

LinkUp(n, m) ==
  /\ flaps > 0 /\ {n, m} \in scene.links \ up
  /\ flaps' = flaps - 1 /\ UNCHANGED <<scene, losses>>
  /\ up' = up \cup {{n, m}}
  /\ UNCHANGED <<alive, tables, near, pend, wire, dumped>>

-----------------------------------------------------------------------------
Init ==
  /\ scene \in Scenes
  /\ alive = UNION scene.links
  /\ seqno = [n \in Nodes |-> 0]
  /\ local = [n \in Nodes |-> None]
  /\ route = [n \in Nodes |-> [m \in Nodes |-> None]]
  /\ sel = [n \in Nodes |-> None]
  /\ fd = [n \in Nodes |-> [o \in Origins |-> None]]
  /\ near = [n \in Nodes |-> Neighbours(n)]
  /\ up = scene.links
  /\ pend = [n \in Nodes |-> [t \in Threads |-> {}]]
  /\ wire = [n \in Nodes |-> [m \in Nodes |-> <<>>]]
  /\ dumped = {}
  /\ losses = scene.loss /\ flaps = scene.flap

Sending == \E n \in Nodes, t \in Threads : \E job \in pend[n][t] : Send(n, t, job) \/ Panic(n, t, job)
Speaking == \E n \in Nodes : Dump(n) \/ \E m \in Nodes : Receive(n, m)
Timing == Tick \/ \E n \in Nodes : Sweep(n)
Sensing == \E n, m \in Nodes : LoseNeighbour(n, m) \/ HearNeighbour(n, m)

Next ==
  \/ Sending \/ Speaking \/ Timing \/ Sensing
  \/ \E o \in Origins : Advertise(o) \/ Withdraw(o)
  \/ \E n, m \in Nodes : LinkDown(n, m) \/ LinkUp(n, m)

Spec == Init /\ [][Next]_vars

\* Tickers fire, packets that are not lost arrive, and a sent IHU, or the want
\* of one, is noticed.  Nobody has to advertise or withdraw anything.
Fairness == WF_vars(Sending \/ Speaking \/ Timing) /\ WF_vars(Sensing)

FairSpec == Spec /\ Fairness
-----------------------------------------------------------------------------
(* Properties.                                                             *)

\* What m was told by n, and will be: the distances of finite updates.
Told(n, m) ==
  {[rid |-> r.rid, seq |-> r.seq, metric |-> r.adv] :
     r \in {route[m][n]} \ {None}} \cup
  UNION {{wire[n][m][i][j] : j \in 1..Len(wire[n][m][i])} : i \in 1..Len(wire[n][m])}

Claims(n, m) == {u \in Told(n, m) : u.metric < Inf}

\* A node remembers, for as long as a neighbour may go by an update it sent, a
\* distance at least as small: the record is made before the update leaves,
\* whatever was selected since, and outlives the neighbour's route
\* (sourceFeasibilityLocked, SourceGCTime).  Freedom from loops rests on it.
DistanceKept ==
  \A n \in alive, m \in alive : \A u \in Claims(n, m) :
    fd[n][u.rid] # None /\ ~ Closer(u, fd[n][u.rid])

\* Nodes that forward to each other in a circle, for the same origin.
Loops ==
  {c \in SUBSET alive : /\ c # {}
                        /\ \A n \in c : sel[n] \in c \ {n}
                        /\ \A n, m \in c : route[n][sel[n]].rid = route[m][sel[m]].rid}

\* The selected route of n would be refused if its update arrived now.
Refused(n) ==
  LET r == route[n][sel[n]] IN
  ~ Feasible([rid |-> r.rid, seq |-> r.seq, metric |-> r.adv], fd[n][r.rid])

\* Nodes that go by what is feasible now never forward in a circle: in every
\* loop some node uses a route it accepted long ago and would refuse today
\* (Route.Feasible is the verdict of the day the update came).
LoopsAreStale == \A c \in Loops : \E n \in c : Refused(n)

\* A retraction is of a route that was selected: speaker.go says of the second
\* part of runSelectionLocked "Prefixes that were selected before but have
\* disappeared entirely", and sends for each of them what was selected.
RetractsSelected == \A n \in Nodes, t \in Threads : \A job \in pend[n][t] : job.retract # "nil"

\* A withdrawn prefix is forgotten everywhere in the end, though retractions get
\* lost, withdrawn routes are still sent and neighbours forward in a circle.
Forgotten ==
  <>[](\A o \in Origins : local[o] = None) => <>[](\A n \in Nodes : sel[n] = None)
=============================================================================
